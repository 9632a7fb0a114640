------------------------------ MODULE StarCamera ------------------------------
(* The star camera of Ophiuchus: the thread that takes one image after the other  *)
(* and moves the lens while it looks for the best focus (bvexcam.c, camera.c), the *)
(* lens adapter (lens_adapter.c) and the commands that start and stop the camera,  *)
(* start the search and move the lens (cli_Oph.c). Both threads use the lens and   *)
(* all_camera_params, without a lock.                                              *)
EXTENDS Naturals, Integers

CONSTANTS
    MaxFocus,       \* the last lens position; the first is 0
    StartFocus, EndFocus, DefaultFocus,     \* of the search, and after the start
    PhotosPerFocus, \* photos at each position of a search
    Positions,      \* what a command may ask for: any number, cli_Oph.c takes them all
    CameraSessions  \* bounds of a behaviour: [starts, searches, moves, faults: of the
                    \* lens and of the files]

Focus == 0..MaxFocus
Failed == -1000         \* what calculateOptimalFocus returns without a maximum

ASSUME CameraAssumption ==
    /\ MaxFocus \in Nat /\ {StartFocus, EndFocus, DefaultFocus} \subseteq Focus
    /\ PhotosPerFocus \in Nat /\ PhotosPerFocus > 1     \* three, and nothing changes it
    /\ Positions \subseteq Int \ {Failed}
    /\ CameraSessions \subseteq [starts : Nat, searches : Nat, moves : Nat, faults : Nat]

VARIABLES
    camera_session, starts_left, searches_left, moves_left, faults_left,  \* the bounds
    bvexcam_on, shutting_down,
    lens,                               \* where the lens is
    focus_position, prev_focus_pos, focus_inf,          \* all_camera_params
    focus_mode, begin_auto_focus,
    af_photo, num_focus_pos, af_rows, af_file,          \* the search: photos, positions,
                                        \* rows of its file, and whether that is open
    dynamic_hot_pixels, prev_dynamic_hp,
    image_buffers,                      \* the statics of camera.c: null, allocated, freed
    camera_closed,                      \* the camera is closed, its image memory freed,
                                        \* while the thread still takes images
    astro, cam_cmd,                     \* where the two threads are
    asked, reported,                    \* the position of the command that runs, and that
                                        \* of the last one if it reported success
    reply_lost, overlapped, refocused, restarted,       \* history: see the properties
    wild_rows, wild_buffers             \* history: a row without a file or out of the
                                        \* array; a freed buffer or image memory used
bound_vars == <<starts_left, searches_left, moves_left, faults_left>>
run_vars == <<bvexcam_on, shutting_down>>
lens_vars == <<lens, focus_position, prev_focus_pos, reply_lost>>
mode_vars == <<focus_mode, begin_auto_focus>>
search_vars == <<af_photo, num_focus_pos, af_rows, af_file, wild_rows>>
pixel_vars == <<dynamic_hot_pixels, prev_dynamic_hp>>
buffer_vars == <<image_buffers, camera_closed, wild_buffers, restarted>>
report_vars == <<asked, reported>>
camera_moves == <<bound_vars, run_vars, lens_vars, focus_inf, mode_vars, search_vars,
                  pixel_vars, buffer_vars, astro, cam_cmd, report_vars, overlapped, refocused>>
camera_vars == <<camera_session, camera_moves>>

CameraTypeOK ==
    /\ camera_session \in CameraSessions
    /\ starts_left \in Nat /\ searches_left \in Nat /\ moves_left \in Nat /\ faults_left \in Nat
    /\ bvexcam_on \in BOOLEAN /\ shutting_down \in BOOLEAN /\ focus_inf \in BOOLEAN
    /\ focus_mode \in BOOLEAN /\ begin_auto_focus \in BOOLEAN /\ af_file \in BOOLEAN
    /\ dynamic_hot_pixels \in BOOLEAN /\ prev_dynamic_hp \in BOOLEAN
    /\ reply_lost \in BOOLEAN /\ overlapped \in BOOLEAN /\ refocused \in BOOLEAN
    /\ restarted \in BOOLEAN /\ wild_rows \in BOOLEAN /\ wild_buffers \in BOOLEAN
    /\ lens \in Focus /\ focus_position \in Focus \cup Positions /\ prev_focus_pos \in Focus
    /\ af_photo \in Nat /\ num_focus_pos \in Nat /\ af_rows \in Nat
    /\ image_buffers \in {"null", "allocated", "freed"} /\ camera_closed \in BOOLEAN
    /\ astro \in {"none", "loop", "begins", "moves", "defaults", "opens", "image", "solves",
                  "photo", "steps", "finishes", "round_ends", "ended"}
    /\ cam_cmd \in {"idle", "focus", "adjusts", "stops"}
    /\ {asked, reported} \subseteq Focus \cup Positions \cup {Failed}

CameraInit ==
    /\ camera_session \in CameraSessions
    /\ starts_left = camera_session.starts /\ searches_left = camera_session.searches
    /\ moves_left = camera_session.moves /\ faults_left = camera_session.faults
    /\ bvexcam_on = FALSE /\ shutting_down = FALSE
    /\ lens = 0 /\ focus_position = 0 /\ prev_focus_pos = 0 /\ reply_lost = FALSE
    /\ focus_inf = FALSE /\ focus_mode = FALSE /\ begin_auto_focus = FALSE
    /\ af_photo = 0 /\ num_focus_pos = 0 /\ af_rows = 0 /\ af_file = FALSE /\ wild_rows = FALSE
    /\ dynamic_hot_pixels = TRUE /\ prev_dynamic_hp = FALSE
    /\ image_buffers = "null" /\ camera_closed = FALSE
    /\ wild_buffers = FALSE /\ restarted = FALSE
    /\ astro = "none" /\ cam_cmd = "idle" /\ asked = Failed /\ reported = Failed
    /\ overlapped = FALSE /\ refocused = FALSE

AstroAlive == astro \notin {"none", "ended"}
\* A search is asked for or under way, or the astro thread is moving the lens.
Searching == AstroAlive /\ (focus_mode \/ astro \in {"moves", "defaults", "steps", "finishes"})
CanFail == faults_left > 0 /\ faults_left' = faults_left - 1

-----------------------------------------------------------------------------
(* The lens adapter. *)

Within(n) == IF n < 0 THEN 0 ELSE IF n > MaxFocus THEN MaxFocus ELSE n

\* A mutant of "runCommand": the position that is read goes to one variable only.
runCommand_OneVariable(target) ==
    /\ lens' = target /\ focus_position' = target
    /\ UNCHANGED <<prev_focus_pos, reply_lost, faults_left>>

\* runCommand "mf shift", and runCommand "fp", which writes the position it reads into
\* both variables. Either can fail: before the lens moves, or with the reply lost.
runCommand(target) ==
    /\ lens' = target /\ focus_position' = target /\ prev_focus_pos' = target
    /\ UNCHANGED <<reply_lost, faults_left>>
shiftFocus(shift) == runCommand(Within(lens + shift))
runCommand_fails(target) ==
    /\ CanFail
    /\ \/ UNCHANGED lens_vars
       \/ lens' = target /\ reply_lost' = TRUE /\ UNCHANGED <<focus_position, prev_focus_pos>>

\* The shift fails, having moved the lens or not, and "fp" after it does not.
runCommand_only_reads(target) ==
    /\ CanFail
    /\ lens' \in {lens, target} /\ focus_position' = lens' /\ prev_focus_pos' = lens'
    /\ UNCHANGED reply_lost

-----------------------------------------------------------------------------
(* The commands. *)

same_search == UNCHANGED <<mode_vars, search_vars, pixel_vars>>

\* The adapter goes to the default position from infinity, wherever it was.
initLensAdapter ==
    /\ lens' = DefaultFocus /\ focus_position' = DefaultFocus /\ prev_focus_pos' = DefaultFocus
    /\ reply_lost' = FALSE

\* bvexcam_start: init_bvexcam sets up the camera and the lens adapter, which moves the
\* lens to the default position; when it cannot, it ends the whole program.
bvexcam_start ==
    /\ cam_cmd = "idle" /\ ~bvexcam_on /\ starts_left > 0
    /\ starts_left' = starts_left - 1
    /\ shutting_down' = FALSE /\ bvexcam_on' = TRUE
    /\ initLensAdapter /\ reported' = Failed
    /\ camera_closed' = FALSE           \* it is opened, with image memory of its own
    /\ astro' = "loop" /\ restarted' = (image_buffers # "null")
    /\ UNCHANGED <<searches_left, moves_left, faults_left, focus_inf, image_buffers, wild_buffers,
                   cam_cmd, asked, overlapped, refocused>>
    /\ same_search

\* bvexcam_stop: the flag, and the join.
bvexcam_stop ==
    /\ cam_cmd = "idle" /\ bvexcam_on
    /\ shutting_down' = TRUE /\ cam_cmd' = "stops"
    /\ UNCHANGED <<bound_vars, bvexcam_on, lens_vars, focus_inf, buffer_vars, astro, report_vars,
                   overlapped, refocused>>
    /\ same_search
stop_joins_astro ==
    /\ cam_cmd = "stops" /\ astro = "ended"
    /\ bvexcam_on' = FALSE /\ cam_cmd' = "idle"
    /\ UNCHANGED <<bound_vars, shutting_down, lens_vars, focus_inf, buffer_vars, astro, report_vars,
                   overlapped, refocused>>
    /\ same_search

\* focus_bvexcam: two variables, one after the other.
focus_bvexcam ==
    /\ cam_cmd = "idle" /\ searches_left > 0
    /\ searches_left' = searches_left - 1
    /\ focus_mode' = TRUE /\ cam_cmd' = "focus" /\ reported' = Failed
    /\ refocused' = (refocused \/ focus_mode \/ Searching)
    /\ UNCHANGED <<starts_left, moves_left, faults_left, run_vars, lens_vars, focus_inf,
                   begin_auto_focus, search_vars, pixel_vars, buffer_vars, astro, asked,
                   overlapped>>
focus_bvexcam_begins ==
    /\ cam_cmd = "focus" /\ begin_auto_focus' = TRUE /\ cam_cmd' = "idle"
    /\ UNCHANGED <<bound_vars, run_vars, lens_vars, focus_inf, focus_mode, search_vars,
                   pixel_vars, buffer_vars, astro, report_vars, overlapped, refocused>>

\* bvexcam_set_focus and bvexcam_set_focus_inf; the latter is for good.
bvexcam_set_focus(p) ==
    /\ cam_cmd = "idle" /\ moves_left > 0
    /\ moves_left' = moves_left - 1
    /\ focus_position' = p /\ asked' = p /\ cam_cmd' = "adjusts" /\ reported' = Failed
    /\ overlapped' = (overlapped \/ Searching)
    /\ UNCHANGED <<starts_left, searches_left, faults_left, run_vars, lens, prev_focus_pos,
                   reply_lost, focus_inf, buffer_vars, astro, refocused>>
    /\ same_search
bvexcam_set_focus_inf ==
    /\ cam_cmd = "idle" /\ moves_left > 0
    /\ moves_left' = moves_left - 1
    /\ focus_inf' = TRUE /\ asked' = MaxFocus /\ cam_cmd' = "adjusts" /\ reported' = Failed
    /\ overlapped' = (overlapped \/ Searching)
    /\ UNCHANGED <<starts_left, searches_left, faults_left, run_vars, lens_vars, buffer_vars,
                   astro, refocused>>
    /\ same_search

\* bvexcam_set_exp: the exposure, and with it whatever the lens is to do.
bvexcam_set_exp ==
    /\ cam_cmd = "idle" /\ moves_left > 0
    /\ moves_left' = moves_left - 1
    /\ asked' = Failed /\ cam_cmd' = "adjusts" /\ reported' = Failed
    /\ overlapped' = (overlapped \/ Searching)
    /\ UNCHANGED <<starts_left, searches_left, faults_left, run_vars, lens_vars, focus_inf,
                   buffer_vars, astro, refocused>>
    /\ same_search

\* adjustCameraHardware: infinity and nothing else, or the shift from the last position
\* known, which the lens follows as far as it goes; when the shift fails the position is
\* read all the same. Without an adapter, before the first start, every command fails.
adjustCameraHardware ==
    LET shift == focus_position - prev_focus_pos
        target == IF focus_inf THEN MaxFocus ELSE Within(lens + shift)
        moves == focus_inf \/ shift # 0 IN
    /\ cam_cmd = "adjusts" /\ cam_cmd' = "idle"
    /\ overlapped' = (overlapped \/ Searching)
    /\ \/ /\ ~moves
          /\ reported' = asked /\ UNCHANGED <<lens_vars, faults_left>>
       \/ /\ moves /\ astro # "none"
          /\ runCommand(target) /\ reported' = asked
       \/ /\ moves /\ astro # "none"
          /\ runCommand_fails(target) \/ runCommand_only_reads(target)
          /\ reported' = Failed
       \/ /\ moves /\ astro = "none"
          /\ reported' = Failed /\ UNCHANGED <<lens_vars, faults_left>>
    /\ UNCHANGED <<starts_left, searches_left, moves_left, run_vars, focus_inf, buffer_vars, astro,
                   asked, refocused>>
    /\ same_search

-----------------------------------------------------------------------------
(* run_bvexcam: updateAstrometry calls doCameraAndAstrometry until the camera is to be *)
(* shut down, and then closes solver and camera.                                       *)

same_commands ==
    UNCHANGED <<starts_left, searches_left, moves_left, run_vars, focus_inf, cam_cmd, report_vars,
                overlapped, refocused>>
goes(from, to) == astro = from /\ astro' = to

\* A round takes much longer than the two assignments of focus_bvexcam: none begins there.
updateAstrometry ==
    /\ cam_cmd # "focus"
    /\ goes("loop", IF shutting_down THEN "ended" ELSE "begins")
    /\ UNCHANGED <<faults_left, lens_vars, buffer_vars>>
    /\ same_search /\ same_commands

\* The observing file, and whether a search begins.
doCameraAndAstrometry ==
    /\ astro = "begins"
    /\ image_buffers' = IF image_buffers = "null" THEN "allocated" ELSE image_buffers
    /\ \/ /\ begin_auto_focus /\ focus_mode
          /\ astro' = "moves" /\ num_focus_pos' = 0
          /\ UNCHANGED <<faults_left, af_photo, af_rows, af_file, wild_rows>>
       \/ /\ ~(begin_auto_focus /\ focus_mode)
          /\ astro' = "image" /\ UNCHANGED <<faults_left, search_vars>>
    /\ UNCHANGED <<lens_vars, mode_vars, pixel_vars, camera_closed, wild_buffers, restarted>>
    /\ same_commands

beginAutoFocus ==
    /\ \/ goes("moves", "opens") /\ shiftFocus(StartFocus - focus_position)
       \/ goes("moves", "defaults") /\ runCommand_fails(Within(lens + StartFocus - focus_position))
    /\ UNCHANGED buffer_vars
    /\ same_search /\ same_commands

\* After that failed: the search is off, but what follows here is done all the same. When
\* this fails, too, the camera is closed, which frees the memory of its images, and the
\* thread goes on with its loop: it tries again to begin the search, and takes images.
defaultFocusPosition ==
    /\ \/ /\ goes("defaults", "opens") /\ shiftFocus(DefaultFocus - focus_position)
          /\ focus_mode' = FALSE /\ UNCHANGED camera_closed
       \/ /\ goes("defaults", "loop")
          /\ runCommand_fails(Within(lens + DefaultFocus - focus_position))
          /\ camera_closed' = TRUE
          /\ UNCHANGED focus_mode
    /\ UNCHANGED <<begin_auto_focus, search_vars, pixel_vars, image_buffers, wild_buffers,
                   restarted>>
    /\ same_commands

\* A mutant of "begins_search": the rows of the last search stay in the file.
begins_search_Appends ==
    /\ \/ /\ goes("opens", "image")
          /\ af_file' = TRUE
          /\ begin_auto_focus' = FALSE
          /\ prev_dynamic_hp' = dynamic_hot_pixels /\ dynamic_hot_pixels' = FALSE
          /\ UNCHANGED faults_left
       \/ /\ goes("opens", "loop")
          /\ CanFail /\ af_file' = FALSE
          /\ UNCHANGED <<begin_auto_focus, pixel_vars>>
    /\ UNCHANGED <<lens_vars, focus_mode, af_photo, num_focus_pos, af_rows, wild_rows,
                   buffer_vars>>
    /\ same_commands

\* The file of the search is opened anew, and the hot pixels are turned off.
begins_search ==
    /\ \/ /\ goes("opens", "image")
          /\ af_file' = TRUE /\ af_rows' = 0
          /\ begin_auto_focus' = FALSE
          /\ prev_dynamic_hp' = dynamic_hot_pixels /\ dynamic_hot_pixels' = FALSE
          /\ UNCHANGED faults_left
       \/ /\ goes("opens", "loop")
          /\ CanFail /\ af_file' = FALSE
          /\ UNCHANGED <<af_rows, begin_auto_focus, pixel_vars>>
    /\ UNCHANGED <<lens_vars, focus_mode, af_photo, num_focus_pos, wild_rows, buffer_vars>>
    /\ same_commands

\* An image, from the memory of the camera into the buffers and back, whether the camera
\* gave one or not; then the flags are looked at again.
takes_image ==
    /\ goes("image", IF focus_mode /\ ~begin_auto_focus THEN "photo" ELSE "solves")
    /\ wild_buffers' = (wild_buffers \/ image_buffers = "freed" \/ camera_closed)
    /\ UNCHANGED <<faults_left, lens_vars, image_buffers, camera_closed, restarted>>
    /\ same_search /\ same_commands

\* A photo of the search; the last one of a position makes a row of the file.
finds_brightest_blob ==
    LET last == af_photo + 1 >= PhotosPerFocus IN
    /\ astro = "photo"
    /\ astro' = IF ~last THEN "round_ends" ELSE
                IF focus_position >= EndFocus THEN "finishes" ELSE "steps"
    /\ af_photo' = IF last THEN 0 ELSE af_photo + 1
    /\ af_rows' = IF last THEN af_rows + 1 ELSE af_rows
    /\ num_focus_pos' = IF last THEN num_focus_pos + 1 ELSE num_focus_pos
    /\ wild_rows' = (wild_rows \/ (last /\ (~af_file \/ num_focus_pos' < af_rows')))
    /\ UNCHANGED <<faults_left, lens_vars, mode_vars, af_file, pixel_vars, buffer_vars>>
    /\ same_commands

steps_focus ==
    LET step == IF EndFocus - focus_position < 1 THEN EndFocus - focus_position ELSE 1 IN
    /\ goes("steps", "round_ends")
    /\ shiftFocus(step) \/ runCommand_fails(Within(lens + step))
    /\ UNCHANGED buffer_vars
    /\ same_search /\ same_commands

\* The maximum of a parabola through the rows, maybe beyond the range; none; or an error,
\* whose -1 is taken for a position.
optimal_focus == {EndFocus, MaxFocus + 1, Failed, -1}

\* The end of the range: to the best position, or the default one.
calculateOptimalFocus ==
    /\ goes("finishes", "round_ends")
    /\ \E best \in optimal_focus :
           LET goal == IF best = Failed THEN DefaultFocus ELSE Within(best) IN
           \/ shiftFocus(goal - focus_position)
           \/ runCommand_fails(Within(lens + goal - focus_position))
    /\ af_file' = FALSE /\ dynamic_hot_pixels' = prev_dynamic_hp /\ focus_mode' = FALSE
    /\ UNCHANGED <<begin_auto_focus, af_photo, num_focus_pos, af_rows, wild_rows,
                   prev_dynamic_hp, buffer_vars>>
    /\ same_commands

lostInSpace ==
    /\ goes("solves", "round_ends")
    /\ UNCHANGED <<faults_left, lens_vars, buffer_vars>>
    /\ same_search /\ same_commands

\* notifyImageServer, and the buffers if the camera is to be shut down by now.
round_ends ==
    /\ goes("round_ends", "loop")
    /\ image_buffers' = IF shutting_down THEN "freed" ELSE image_buffers
    /\ wild_buffers' = (wild_buffers \/ image_buffers = "freed")
    /\ UNCHANGED <<faults_left, lens_vars, camera_closed, restarted>>
    /\ same_search /\ same_commands

-----------------------------------------------------------------------------
astro_thread_steps ==
    \/ updateAstrometry \/ doCameraAndAstrometry \/ beginAutoFocus \/ defaultFocusPosition
    \/ begins_search \/ takes_image \/ finds_brightest_blob \/ steps_focus
    \/ calculateOptimalFocus \/ lostInSpace \/ round_ends
CameraStep ==
    \/ bvexcam_start \/ bvexcam_stop \/ stop_joins_astro
    \/ focus_bvexcam \/ focus_bvexcam_begins
    \/ \E p \in Positions : bvexcam_set_focus(p)
    \/ bvexcam_set_focus_inf \/ bvexcam_set_exp \/ adjustCameraHardware
    \/ astro_thread_steps
CameraNext == CameraStep /\ UNCHANGED camera_session

\* The camera's thread runs, and a command that has begun goes on; nothing else is sure.
CameraFair ==
    /\ WF_camera_moves(astro_thread_steps)
    /\ WF_camera_moves(stop_joins_astro) /\ WF_camera_moves(focus_bvexcam_begins)
    /\ WF_camera_moves(adjustCameraHardware)
CameraSpec == CameraInit /\ [][CameraNext]_camera_vars /\ CameraFair

-----------------------------------------------------------------------------
\* A focus command that reports success has moved the lens to the position asked for,
\* unless a reply of the adapter was lost, or a search moved the lens at the same time.
\* Two more exceptions, where the code reports success and does something else: beyond
\* the range of the lens it goes to the end of it; and once bvexcam_set_focus_inf was
\* given, which nothing takes back, it goes to infinity whatever position is asked for.
FocusObeyed ==
    cam_cmd = "idle" /\ reported # Failed /\ ~reply_lost /\ ~overlapped /\ ~Searching
        => lens = IF focus_inf THEN MaxFocus ELSE Within(reported)

\* A row of the search goes to an open file, and there are never more rows than the
\* arrays of calculateOptimalFocus are made for, whatever the commands do meanwhile.
RowsHaveRoom == ~wild_rows

\* When no search is on, the hot pixels are looked for as before the search, unless it
\* could not begin or was begun once more before its end.
HotPixelsBack ==
    ~focus_mode /\ ~refocused /\ faults_left = camera_session.faults => dynamic_hot_pixels

\* The images go to buffers that are allocated, and come from memory that is, until the
\* camera is started once more after a stop that freed the buffers, whose statics still
\* point to them, or both moves at the begin of a search failed: then the camera is closed
\* and its memory is used all the same.
ImageBuffersLive == wild_buffers => restarted \/ camera_closed

\* A search ends and a stop of the camera returns, the latter also during a search.
CameraEnds ==
    /\ (AstroAlive /\ begin_auto_focus) ~> (~focus_mode \/ ~AstroAlive)
    /\ cam_cmd = "stops" ~> cam_cmd = "idle"
=============================================================================

------------------------ MODULE StarCamerasProofs ------------------------
(* Proofs about both halves of the star camera: the image server, for any number and
   any sizes of images, and the camera, for any positions, photos and commands. *)
EXTENDS StarCameras, TLAPS

-----------------------------------------------------------------------------
(* The inductive invariant *)

\* A timestamp is at most the number of images taken (at most one per second
\* is counted), which keeps it within its type.
Stamps == taken.ts <= taken.id

\* While chunks are sent, the transmission is active, the camera thread is not
\* storing into the current slot, and the data pointer is that of the slot.
Sending == srv = "chunks" => tx.active /\ ~CamStores /\ current = buf /\ current.valid

\* Once a chunk of an active transmission is out, the camera thread stays away
\* from the current slot, which still holds the image the chunks came from.
OneSource == tx.active => \A a \in streamed : a = current.id /\ ~CamStores

\* What was counted while the camera thread was away is the size of the current slot,
\* and the camera thread stays away from it as long as the transmission is active.
Counted ==
    tx.active /\ ~torn /\ srv \notin {"stamp", "count"} =>
        ~CamStores /\ tx.total = current.chunks

IInv == /\ TypeOK /\ Stamps /\ Sending /\ OneSource /\ Counted
        /\ OneImagePerTransmission /\ PendingIsPromoted

-----------------------------------------------------------------------------
\* The zeroed slot is an image record.
LEMMA NoImageType == NoImage \in Image /\ ~NoImage.valid
BY StarcamAssumption DEF NoImage, Image

\* The timestamp and the size of an image record are natural numbers.
LEMMA ImageFields ==
    ASSUME NEW img \in Image
    PROVE  img.ts \in 0..MaxImages /\ img.chunks \in Nat
BY DEF Image

\* The initial states satisfy the invariant.
LEMMA InitIInv == Init => IInv
<1> SUFFICES ASSUME Init PROVE IInv
  OBVIOUS
<1>1. tx \in [active : BOOLEAN, ts : 0..MaxImages, total : Nat, sent : Nat]
  BY StarcamAssumption DEF Init, Idle
<1>2. taken \in [id : 0..MaxImages, ts : 0..MaxImages]
  BY StarcamAssumption DEF Init
<1>3. TypeOK
  <2>1. bytes_sent \in 0..MaxBps
    BY StarcamAssumption DEF Init
  <2>2. current \in Image /\ pending \in Image /\ new \in Image /\ buf \in Image
    BY NoImageType DEF Init
  <2> QED BY <1>1, <1>2, <2>1, <2>2 DEF Init, TypeOK
<1>4. Stamps /\ Sending /\ OneSource /\ Counted /\ OneImagePerTransmission /\ PendingIsPromoted
  BY DEF Init, Stamps, Sending, OneSource, Counted, CamStores, OneImagePerTransmission,
         PendingIsPromoted, NoImage, Idle
<1> QED BY <1>3, <1>4 DEF IInv

\* Counting a message that the limit admits keeps the counter in its range.
LEMMA CountType ==
    ASSUME TypeOK, NEW c \in Nat, can_send_data(c), update_bandwidth_usage(c)
    PROVE  bytes_sent' \in 0..MaxBps /\ fresh' \in BOOLEAN
<1>1. bytes_sent + c <= MaxBps
  BY DEF can_send_data
<1>2. bytes_sent \in 0..MaxBps /\ MaxBps \in Nat
  BY StarcamAssumption DEF TypeOK
<1>3. bytes_sent' = c \/ bytes_sent' = bytes_sent + c
  BY DEF update_bandwidth_usage
<1>4. bytes_sent' \in 0..MaxBps
  BY <1>1, <1>2, <1>3
<1> QED BY <1>4 DEF update_bandwidth_usage

\* Sending, or not sending, a message keeps the bandwidth counter in its range.
LEMMA SendType ==
    ASSUME TypeOK, NEW c \in Nat, send_message(c)
    PROVE  bytes_sent' \in 0..MaxBps /\ fresh' \in BOOLEAN
<1>1. CASE UNCHANGED sendVars
  BY <1>1 DEF sendVars, TypeOK
<1>2. CASE can_send_data(c) /\ update_bandwidth_usage(c)
  BY <1>2, CountType
<1> QED BY <1>1, <1>2 DEF send_message

\* The camera thread takes an image and stores it.
LEMMA StoreStep == ASSUME IInv, TakeImage \/ Camera PROVE IInv'
<1> USE StarcamAssumption DEF IInv
<1>1. CASE TakeImage
  <2>1. PICK t \in {taken.ts, taken.ts + 1}, n \in Sizes : notifyImageServer(t, n)
    BY <1>1 DEF TakeImage
  <2>2. t \in 0..MaxImages /\ taken.id + 1 \in 0..MaxImages /\ t <= taken.id + 1
    BY <2>1 DEF notifyImageServer, TypeOK, Stamps
  <2>3. new' \in Image /\ taken' \in [id : 0..MaxImages, ts : 0..MaxImages]
    BY <2>1, <2>2 DEF notifyImageServer, Image
  <2> QED
    BY <2>1, <2>2, <2>3
    DEF notifyImageServer, TypeOK, Stamps, Sending, OneSource, Counted, CamStores,
        OneImagePerTransmission, PendingIsPromoted, slots, sendVars
<1>2. CASE CamCompress
  BY <1>2 DEF CamCompress, TypeOK, Stamps, Sending, OneSource, Counted, CamStores,
      OneImagePerTransmission, PendingIsPromoted, slots, sendVars
<1>3. CASE CamStorePending
  BY <1>3 DEF CamStorePending, TypeOK, Stamps, Sending, OneSource, Counted, CamStores,
      OneImagePerTransmission, PendingIsPromoted, sendVars
<1>4. CASE CamReplace
  BY <1>4 DEF CamReplace, TypeOK, Stamps, Sending, OneSource, Counted, CamStores,
      OneImagePerTransmission, PendingIsPromoted, slots, sendVars
<1>5. CASE CamFree \/ CamStamp \/ CamData
  <2>1. current' \in Image
    BY <1>5 DEF CamFree, CamStamp, CamData, TypeOK, Image
  <2>2. srv # "chunks" /\ srv' = srv /\ (tx.active => streamed = {})
    BY <1>5 DEF CamFree, CamStamp, CamData, Sending, OneSource, Counted, CamStores
  <2> QED
    BY <1>5, <2>1, <2>2
    DEF CamFree, CamStamp, CamData, TypeOK, Stamps, Sending, OneSource, Counted, CamStores,
        OneImagePerTransmission, PendingIsPromoted, sendVars
<1> QED BY <1>1, <1>2, <1>3, <1>4, <1>5 DEF Camera

\* The server thread answers requests and sets up a transmission.
LEMMA RequestStep ==
    ASSUME IInv,
           \/ ServerBoot \/ ServerLoop \/ RecvNothing \/ GetStatus
           \/ GetByTimestamp \/ GetLatest \/ TxBegin \/ TxStamp \/ TxCount \/ TxHeader
    PROVE  IInv'
<1> USE StarcamAssumption DEF IInv
<1>1. CASE ServerBoot \/ ServerLoop \/ RecvNothing
  <2>1. TypeOK'
    BY <1>1 DEF ServerBoot, ServerLoop, RecvNothing, TypeOK, slots, sendVars, camVars
  <2>2. (Stamps /\ Sending /\ OneSource /\ Counted)'
    BY <1>1 DEF ServerBoot, ServerLoop, RecvNothing, Stamps, Sending, OneSource, Counted,
        CamStores, slots, sendVars, camVars
  <2>3. (OneImagePerTransmission /\ PendingIsPromoted)'
    BY <1>1 DEF ServerBoot, ServerLoop, RecvNothing, OneImagePerTransmission,
        PendingIsPromoted, slots, sendVars, camVars
  <2> QED BY <2>1, <2>2, <2>3
<1>2. CASE GetStatus \/ GetByTimestamp \/ GetLatest \/ TxHeader
  <2>1. bytes_sent' \in 0..MaxBps /\ fresh' \in BOOLEAN
    BY <1>2, SendType DEF GetStatus, GetByTimestamp, GetLatest, TxHeader, sendVars, TypeOK
  <2> QED
    BY <1>2, <2>1 DEF GetStatus, GetByTimestamp, GetLatest, TxHeader, TypeOK, Stamps,
      Sending, OneSource, Counted, CamStores, OneImagePerTransmission, PendingIsPromoted,
      slots, camVars
<1>3. CASE TxBegin
  BY <1>3 DEF TxBegin, TypeOK, Stamps, Sending, OneSource, Counted,
      CamStores, OneImagePerTransmission, PendingIsPromoted, slots, sendVars, camVars
<1>4. CASE TxStamp \/ TxCount
  <2>0. current.ts \in 0..MaxImages /\ current.chunks \in Nat
    BY ImageFields DEF TypeOK
  <2>1. /\ tx' \in [active : BOOLEAN, ts : 0..MaxImages, total : Nat, sent : Nat]
        /\ tx'.active = tx.active
    <3>1. CASE TxStamp BY <3>1, <2>0 DEF TxStamp, TypeOK
    <3>2. CASE TxCount BY <3>2, <2>0 DEF TxCount, TypeOK
    <3> QED BY <1>4, <3>1, <3>2
  <2>a. torn' \in BOOLEAN /\ (TxCount /\ ~torn' => ~CamStores)
    <3>1. CASE TxStamp
      BY <3>1 DEF TxStamp, TxCount, TypeOK
    <3>2. CASE TxCount
      <4>1. torn' = CamStores /\ CamStores \in BOOLEAN
        BY <3>2 DEF TxCount, CamStores
      <4> QED BY <4>1, Zenon
    <3> QED BY <1>4, <3>1, <3>2
  <2>2. TypeOK'
    BY <1>4, <2>1, <2>a DEF TxStamp, TxCount, TypeOK, slots, sendVars, camVars
  <2>3. (Stamps /\ Sending /\ OneSource)'
    BY <1>4, <2>1 DEF TxStamp, TxCount, Stamps, Sending, OneSource, CamStores,
        slots, sendVars, camVars
  <2>4. /\ tx'.sent <= tx'.total
        /\ srv' = "header" /\ ~torn' => ~CamStores' /\ tx'.total = current'.chunks
    <3>1. CASE TxStamp
      BY <3>1 DEF TxStamp, TypeOK, OneImagePerTransmission
    <3>2. CASE TxCount
      <4>1. ~torn' => ~CamStores
        BY <3>2, <2>a
      <4>2. tx'.total = current.chunks /\ tx'.sent = 0 /\ current' = current /\ cam' = cam
        BY <3>2 DEF TxCount, TypeOK, slots, camVars
      <4> QED BY <4>1, <4>2, <2>0 DEF CamStores
    <3> QED BY <1>4, <3>1, <3>2
  <2>5. Counted' /\ OneImagePerTransmission' /\ PendingIsPromoted'
    BY <1>4, <2>1, <2>4 DEF TxStamp, TxCount, Counted, OneImagePerTransmission,
        PendingIsPromoted, slots, sendVars, camVars
  <2> QED BY <2>2, <2>3, <2>5
<1> QED BY <1>1, <1>2, <1>3, <1>4

\* The server thread goes on with a transmission.
LEMMA TransmissionStep ==
    ASSUME IInv,
           \/ NothingToSend \/ AbortTransmission \/ FetchData \/ SendChunk
           \/ SendChunkLater \/ CompleteTransmission \/ on_transmission_complete
    PROVE  IInv'
<1> USE StarcamAssumption DEF IInv
<1>1. CASE NothingToSend \/ AbortTransmission \/ SendChunkLater
  BY <1>1 DEF NothingToSend, AbortTransmission, SendChunkLater, TypeOK, Stamps, Sending,
      OneSource, Counted, CamStores, OneImagePerTransmission, PendingIsPromoted, slots, sendVars, camVars
<1>2. CASE FetchData
  BY <1>2 DEF FetchData, TypeOK, Stamps, Sending, OneSource, Counted, CamStores, CamHoldsMutex,
      OneImagePerTransmission, PendingIsPromoted, slots, sendVars, camVars
<1>3. CASE SendChunk
  <2>0. bytes_sent' \in 0..MaxBps /\ fresh' \in BOOLEAN
    BY <1>3, CountType DEF SendChunk
  <2>1. /\ tx' \in [active : BOOLEAN, ts : 0..MaxImages, total : Nat, sent : Nat]
        /\ tx'.active = tx.active
    BY <1>3 DEF SendChunk, TypeOK
  <2>2. streamed' \subseteq 0..MaxImages
    BY <1>3 DEF SendChunk, TypeOK, Image
  <2>3. \A a \in streamed' : a = current.id
    BY <1>3 DEF SendChunk, Sending, OneSource
  <2> QED
    BY <1>3, <2>0, <2>1, <2>2, <2>3 DEF SendChunk, TypeOK, Stamps, Sending, OneSource, Counted,
      CamStores, OneImagePerTransmission, PendingIsPromoted, slots, camVars
<1>4. CASE CompleteTransmission
  <2>1. bytes_sent' \in 0..MaxBps /\ fresh' \in BOOLEAN
    BY <1>4, SendType DEF CompleteTransmission
  <2> QED
    BY <1>4, <2>1 DEF CompleteTransmission, Idle, TypeOK, Stamps, Sending, OneSource, Counted,
      CamStores, OneImagePerTransmission, PendingIsPromoted, slots, camVars
<1>5. CASE on_transmission_complete
  <2>1. current' \in Image /\ pending' \in Image
    BY <1>5, NoImageType DEF on_transmission_complete, TypeOK, slots
  <2>2. ~pending'.valid
    BY <1>5, NoImageType DEF on_transmission_complete, slots, TypeOK, Image
  <2> QED
    BY <1>5, <2>1, <2>2 DEF on_transmission_complete, TypeOK, Stamps, Sending, OneSource, Counted,
      CamStores, OneImagePerTransmission, PendingIsPromoted, sendVars, camVars
<1> QED BY <1>1, <1>2, <1>3, <1>4, <1>5

\* Main cleans up, and time goes by.
LEMMA OtherStep ==
    ASSUME IInv, Cleanup \/ CleanupFree \/ Tick \/ Terminated \/ UNCHANGED vars
    PROVE  IInv'
<1> USE StarcamAssumption DEF IInv
<1>1. CASE Cleanup
  <2>1. TypeOK'
    BY <1>1 DEF Cleanup, TypeOK, slots, sendVars, camVars
  <2>2. (Stamps /\ Sending /\ OneSource /\ Counted)'
    BY <1>1 DEF Cleanup, TypeOK, Stamps, Sending, OneSource, Counted, CamStores, slots,
        sendVars, camVars
  <2>3. (OneImagePerTransmission /\ PendingIsPromoted)'
    BY <1>1 DEF Cleanup, OneImagePerTransmission, PendingIsPromoted, slots,
        sendVars, camVars
  <2> QED BY <2>1, <2>2, <2>3
<1>4. CASE Tick
  <2>1. TypeOK'
    BY <1>4 DEF Tick, TypeOK, slots, sendVars, camVars
  <2>2. (Stamps /\ Sending /\ OneSource /\ Counted)'
    BY <1>4 DEF Tick, TypeOK, Stamps, Sending, OneSource, Counted, CamStores, slots,
        sendVars, camVars
  <2>3. (OneImagePerTransmission /\ PendingIsPromoted)'
    BY <1>4 DEF Tick, OneImagePerTransmission, PendingIsPromoted, slots,
        sendVars, camVars
  <2> QED BY <2>1, <2>2, <2>3
<1>2. CASE CleanupFree
  <2>1. /\ current' \in Image /\ pending' \in Image /\ current'.id = current.id
        /\ ~pending'.valid
    BY <1>2 DEF CleanupFree, TypeOK, Image
  <2> QED
    BY <1>2, <2>1 DEF CleanupFree, TypeOK, Stamps, Sending, OneSource, Counted, CamStores,
      OneImagePerTransmission, PendingIsPromoted, sendVars, camVars
<1>3. CASE Terminated \/ UNCHANGED vars
  <2>1. UNCHANGED vars
    BY <1>3 DEF Terminated
  <2>2. TypeOK'
    BY <2>1 DEF vars, TypeOK
  <2>3. (Stamps /\ Sending /\ OneSource /\ Counted /\ OneImagePerTransmission /\ PendingIsPromoted)'
    BY <2>1 DEF vars, Stamps, Sending, OneSource, Counted, CamStores,
        OneImagePerTransmission, PendingIsPromoted
  <2> QED BY <2>2, <2>3
<1> QED BY <1>1, <1>2, <1>3, <1>4

\* Every step preserves the invariant.
LEMMA NextIInv == IInv /\ [Next]_vars => IInv'
BY StoreStep, RequestStep, TransmissionStep, OtherStep DEF Next, Server

\* The image server never leaves the inductive invariant.
THEOREM Invariance == Spec => []IInv
BY InitIInv, NextIInv, PTL DEF Spec

\* Every variable keeps its type; in particular no second sees more bytes
\* counted than max_bandwidth_kbps allows.
THEOREM TypeCorrect == Spec => []TypeOK
<1>1. IInv => TypeOK
  BY DEF IInv
<1> QED BY <1>1, Invariance, PTL

\* The data being sent is never freed by the camera thread, although the
\* server uses it without the mutex.
THEOREM BufferIsLive == Spec => []BufferLive
<1>1. IInv => BufferLive
  BY DEF IInv, Sending, BufferLive
<1> QED BY <1>1, Invariance, PTL

\* The chunks of one transmission belong to one image.
THEOREM NoMixedImages == Spec => []OneImagePerTransmission
<1>1. IInv => OneImagePerTransmission
  BY DEF IInv
<1> QED BY <1>1, Invariance, PTL

\* No image is left behind in the pending slot.
THEOREM PendingHasPromoter == Spec => []PendingIsPromoted
<1>1. IInv => PendingIsPromoted
  BY DEF IInv
<1> QED BY <1>1, Invariance, PTL

-----------------------------------------------------------------------------
(* The camera: the inductive invariant *)

\* The position known is that of the lens, and the one reported is where it went, unless
\* a reply was lost; a search leaves no report that somebody may take for its own, nor does
\* it change the position asked for before the lens is told.
LensKnown ==
    /\ ~reply_lost => prev_focus_pos = lens
    /\ reported # Failed /\ ~reply_lost /\ ~overlapped
          => lens = IF focus_inf THEN MaxFocus ELSE Within(reported)
    /\ Searching => (reported = Failed /\ cam_cmd # "adjusts") \/ overlapped
    /\ cam_cmd = "adjusts" /\ asked # Failed /\ ~overlapped /\ ~focus_inf
          => focus_position = asked

\* Where the thread may be with the flags of the search.
SearchPhases ==
    /\ astro \in {"moves", "photo"} => focus_mode
    /\ astro \in {"moves", "defaults", "opens"} => begin_auto_focus

\* A photo counts while a file is open, but for one between the two assignments of
\* focus_bvexcam, which the next search takes for its first.
Photos ==
    /\ focus_mode /\ ~begin_auto_focus /\ ~af_file => cam_cmd = "focus"
    /\ ~begin_auto_focus /\ ~af_file =>
          af_photo = 0 \/ (cam_cmd = "focus" /\ astro \in {"round_ends", "loop"})
    /\ astro = "photo" /\ ~af_file => af_photo = 0
    /\ astro \in {"steps", "finishes"} => af_photo = 0

\* The rows of an open file are at most as many as the positions counted.
Rows ==
    /\ af_file /\ (~begin_auto_focus \/ astro = "photo") => af_rows <= num_focus_pos
    /\ RowsHaveRoom

\* Freed memory is met by the thread only after another start, or with the camera closed
\* by a search that could not begin, which comes after the first round.
Buffers ==
    /\ image_buffers = "freed" => restarted \/ (shutting_down /\ astro \in {"loop", "ended"})
    /\ wild_buffers => (restarted \/ camera_closed) /\ image_buffers # "null"
    /\ image_buffers = "null" => ~camera_closed /\ astro \in {"none", "loop", "begins", "ended"}

NoFault == faults_left = camera_session.faults

\* Without a fault every search runs from its begin to its end.
FaultsCounted ==
    /\ faults_left <= camera_session.faults
    /\ astro = "defaults" => ~NoFault
    /\ NoFault /\ astro \in {"opens", "steps", "finishes"} => focus_mode

\* The hot pixels: looked for before the search, kept during it.
Pixels ==
    NoFault /\ ~refocused =>
        /\ ~focus_mode => ~begin_auto_focus /\ ~af_file /\ dynamic_hot_pixels
        /\ cam_cmd = "focus" => focus_mode /\ ~begin_auto_focus
        /\ focus_mode /\ (begin_auto_focus \/ cam_cmd = "focus") => ~af_file /\ dynamic_hot_pixels
        /\ focus_mode /\ ~begin_auto_focus /\ cam_cmd # "focus" => prev_dynamic_hp
        /\ astro \in {"steps", "finishes"} => ~begin_auto_focus /\ cam_cmd # "focus"

CameraIInv == /\ CameraTypeOK /\ LensKnown /\ SearchPhases /\ Photos /\ Rows
              /\ Buffers /\ FaultsCounted /\ Pixels

-----------------------------------------------------------------------------
(* The camera: one lemma per part of the invariant *)

\* The bounds of a behaviour are numbers.
LEMMA SessionBounds ==
    \A s \in CameraSessions : /\ s.starts \in Nat /\ s.searches \in Nat
                              /\ s.moves \in Nat /\ s.faults \in Nat
BY CameraAssumption

\* The lens stays in its range, and goes where it is sent within it.
LEMMA WithinFocus == \A n \in Int : Within(n) \in Focus /\ (n \in Focus => Within(n) = n)
BY CameraAssumption DEF Within, Focus

\* The positions are numbers, and the constants are among them.
LEMMA FocusFacts ==
    /\ Focus \subseteq Int /\ 0 \in Focus /\ MaxFocus \in Focus /\ Failed \notin Focus
    /\ StartFocus \in Focus /\ EndFocus \in Focus /\ DefaultFocus \in Focus
    /\ Positions \subseteq Int /\ Failed \notin Positions
BY CameraAssumption DEF Focus, Failed

\* The initial states satisfy it.
LEMMA CameraInitIInv == CameraInit => CameraIInv
<1> SUFFICES ASSUME CameraInit PROVE CameraIInv
  OBVIOUS
<1> USE CameraAssumption DEF CameraInit
<1>1. CameraTypeOK
  BY SessionBounds, FocusFacts DEF CameraTypeOK
<1>2. LensKnown /\ SearchPhases /\ Photos /\ Rows
  BY DEF LensKnown, Searching, AstroAlive, SearchPhases, Photos, Rows, RowsHaveRoom
<1>3. Buffers /\ FaultsCounted /\ Pixels
  BY SessionBounds DEF Buffers, FaultsCounted, NoFault, Pixels
<1> QED BY <1>1, <1>2, <1>3 DEF CameraIInv


\* The type invariant in its parts.
FlagTypes ==
    /\ bvexcam_on \in BOOLEAN /\ shutting_down \in BOOLEAN /\ focus_inf \in BOOLEAN
    /\ focus_mode \in BOOLEAN /\ begin_auto_focus \in BOOLEAN /\ af_file \in BOOLEAN
    /\ dynamic_hot_pixels \in BOOLEAN /\ prev_dynamic_hp \in BOOLEAN /\ reply_lost \in BOOLEAN
    /\ camera_closed \in BOOLEAN
HistoryTypes ==
    /\ overlapped \in BOOLEAN /\ refocused \in BOOLEAN
    /\ restarted \in BOOLEAN /\ wild_rows \in BOOLEAN /\ wild_buffers \in BOOLEAN
LensTypes == /\ lens \in Focus /\ prev_focus_pos \in Focus
             /\ focus_position \in Focus \cup Positions
             /\ {asked, reported} \subseteq Focus \cup Positions \cup {Failed}
CountTypes ==
    /\ camera_session \in CameraSessions
    /\ starts_left \in Nat /\ searches_left \in Nat /\ moves_left \in Nat /\ faults_left \in Nat
    /\ af_photo \in Nat /\ num_focus_pos \in Nat /\ af_rows \in Nat
PlaceTypes ==
    /\ image_buffers \in {"null", "allocated", "freed"}
    /\ astro \in {"none", "loop", "begins", "moves", "defaults", "opens", "image", "solves",
                  "photo", "steps", "finishes", "round_ends", "ended"}
    /\ cam_cmd \in {"idle", "focus", "adjusts", "stops"}
LEMMA TypeParts ==
    CameraTypeOK <=> FlagTypes /\ HistoryTypes /\ LensTypes /\ CountTypes /\ PlaceTypes
BY DEF CameraTypeOK, FlagTypes, HistoryTypes, LensTypes, CountTypes, PlaceTypes

\* What the adapter is told to do, and whether it does it.
LensCommand(t) == runCommand(t) \/ runCommand_fails(t) \/ runCommand_only_reads(t)

\* Every step that moves the lens commands the adapter to go to a position, and leaves
\* the report alone unless it is a command of its own.
LEMMA LensMoves ==
    ASSUME LensTypes, adjustCameraHardware \/ beginAutoFocus \/ defaultFocusPosition
                      \/ steps_focus \/ calculateOptimalFocus
    PROVE  (\E t \in Focus : LensCommand(t)) \/ UNCHANGED <<lens_vars, faults_left>>
<1>1. /\ lens \in Int /\ focus_position \in Int /\ prev_focus_pos \in Int
      /\ StartFocus \in Int /\ EndFocus \in Int /\ DefaultFocus \in Int
  BY FocusFacts DEF LensTypes
<1>2. CASE adjustCameraHardware
  <2> DEFINE target == IF focus_inf THEN MaxFocus
                       ELSE Within(lens + (focus_position - prev_focus_pos))
  <2>1. target \in Focus
    BY <1>1, WithinFocus, FocusFacts
  <2>2. runCommand(target) \/ runCommand_fails(target) \/ runCommand_only_reads(target)
        \/ UNCHANGED <<lens_vars, faults_left>>
    BY <1>2 DEF adjustCameraHardware
  <2> QED BY <2>1, <2>2 DEF LensCommand
<1>3. CASE beginAutoFocus
  <2>1. lens + (StartFocus - focus_position) \in Int
        /\ lens + StartFocus - focus_position \in Int
    BY <1>1
  <2> QED BY <1>3, <2>1, WithinFocus DEF beginAutoFocus, shiftFocus, LensCommand
<1>4. CASE defaultFocusPosition
  <2>1. lens + (DefaultFocus - focus_position) \in Int
        /\ lens + DefaultFocus - focus_position \in Int
    BY <1>1
  <2> QED BY <1>4, <2>1, WithinFocus DEF defaultFocusPosition, shiftFocus, LensCommand
<1>5. CASE steps_focus
  <2> DEFINE step == IF EndFocus - focus_position < 1 THEN EndFocus - focus_position ELSE 1
  <2>1. lens + step \in Int
    BY <1>1
  <2>2. runCommand(Within(lens + step)) \/ runCommand_fails(Within(lens + step))
    BY <1>5 DEF steps_focus, shiftFocus
  <2> QED BY <2>1, <2>2, WithinFocus DEF LensCommand
<1>6. CASE calculateOptimalFocus
  <2>1. PICK best \in optimal_focus :
           LET goal == IF best = Failed THEN DefaultFocus ELSE Within(best) IN
           \/ shiftFocus(goal - focus_position)
           \/ runCommand_fails(Within(lens + goal - focus_position))
    BY <1>6 DEF calculateOptimalFocus
  <2> DEFINE goal == IF best = Failed THEN DefaultFocus ELSE Within(best)
  <2>2. best \in Int
    BY <1>1, FocusFacts DEF optimal_focus, Failed
  <2>3. goal \in Int
    BY <1>1, <2>2, WithinFocus, FocusFacts
  <2>4. lens + (goal - focus_position) \in Int /\ lens + goal - focus_position \in Int
    BY <1>1, <2>3
  <2>5. shiftFocus(goal - focus_position) \/ runCommand_fails(Within(lens + goal - focus_position))
    BY <2>1
  <2> QED BY <2>4, <2>5, WithinFocus DEF shiftFocus, LensCommand
<1> QED BY <1>2, <1>3, <1>4, <1>5, <1>6

\* A command of the adapter leaves the lens and what is known of it in the range.
LEMMA LensType ==
    ASSUME LensTypes, NEW t \in Focus, LensCommand(t)
    PROVE  lens' \in Focus /\ focus_position' \in Focus \cup Positions /\ prev_focus_pos' \in Focus
BY DEF LensTypes, LensCommand, runCommand, runCommand_fails, runCommand_only_reads, lens_vars

\* The steps that leave the lens alone.
LEMMA LensTypeStep == ASSUME LensTypes, CameraStep PROVE LensTypes'
<1> USE DEF LensTypes, lens_vars, report_vars, same_commands
<1>1. CASE bvexcam_start
  BY <1>1, FocusFacts DEF bvexcam_start, initLensAdapter
<1>2. CASE bvexcam_stop \/ stop_joins_astro \/ focus_bvexcam \/ focus_bvexcam_begins
  BY <1>2 DEF bvexcam_stop, stop_joins_astro, focus_bvexcam, focus_bvexcam_begins
<1>3. CASE (\E p \in Positions : bvexcam_set_focus(p)) \/ bvexcam_set_focus_inf \/ bvexcam_set_exp
  BY <1>3, FocusFacts DEF bvexcam_set_focus, bvexcam_set_focus_inf, bvexcam_set_exp
<1>4. CASE adjustCameraHardware
  <2>1. lens' \in Focus /\ focus_position' \in Focus \cup Positions /\ prev_focus_pos' \in Focus
    BY <1>4, LensMoves, LensType
  <2>2. reported' \in {Failed, asked} /\ asked' = asked
    BY <1>4 DEF adjustCameraHardware
  <2> QED BY <2>1, <2>2, FocusFacts
<1>5. CASE updateAstrometry \/ doCameraAndAstrometry \/ begins_search \/ takes_image
           \/ finds_brightest_blob \/ lostInSpace \/ round_ends
  BY <1>5 DEF updateAstrometry, doCameraAndAstrometry, begins_search, takes_image,
              finds_brightest_blob, lostInSpace, round_ends
<1>6. CASE beginAutoFocus \/ defaultFocusPosition \/ steps_focus \/ calculateOptimalFocus
  <2>1. lens' \in Focus /\ focus_position' \in Focus \cup Positions /\ prev_focus_pos' \in Focus
    BY <1>6, LensMoves, LensType
  <2>2. reported' = reported /\ asked' = asked
    BY <1>6 DEF beginAutoFocus, defaultFocusPosition, steps_focus, calculateOptimalFocus
  <2> QED BY <2>1, <2>2
<1> QED BY <1>1, <1>2, <1>3, <1>4, <1>5, <1>6 DEF CameraStep, astro_thread_steps

LEMMA CountTypeStep == ASSUME LensTypes, CountTypes, CameraNext PROVE CountTypes'
<1> USE DEF CountTypes, bound_vars, search_vars, same_commands, same_search, CameraNext, CanFail
<1>0. UNCHANGED camera_session
  OBVIOUS
<1> USE <1>0
<1>1. CASE bvexcam_start \/ bvexcam_stop \/ stop_joins_astro \/ focus_bvexcam
           \/ focus_bvexcam_begins
  BY <1>1 DEF bvexcam_start, bvexcam_stop, stop_joins_astro, focus_bvexcam, focus_bvexcam_begins
<1>2. CASE (\E p \in Positions : bvexcam_set_focus(p)) \/ bvexcam_set_focus_inf \/ bvexcam_set_exp
  BY <1>2 DEF bvexcam_set_focus, bvexcam_set_focus_inf, bvexcam_set_exp
<1>3. CASE adjustCameraHardware
  BY <1>3 DEF adjustCameraHardware, runCommand, runCommand_fails, runCommand_only_reads
<1>4. CASE updateAstrometry \/ doCameraAndAstrometry \/ begins_search \/ takes_image
           \/ lostInSpace \/ round_ends
  BY <1>4 DEF updateAstrometry, doCameraAndAstrometry, begins_search, takes_image,
              lostInSpace, round_ends
<1>5. CASE finds_brightest_blob
  BY <1>5 DEF finds_brightest_blob
<1>6. CASE beginAutoFocus \/ defaultFocusPosition \/ steps_focus \/ calculateOptimalFocus
  BY <1>6 DEF beginAutoFocus, defaultFocusPosition, steps_focus, calculateOptimalFocus,
              shiftFocus, runCommand, runCommand_fails
<1> QED BY <1>1, <1>2, <1>3, <1>4, <1>5, <1>6 DEF CameraStep, astro_thread_steps

LEMMA PlaceTypeStep == ASSUME PlaceTypes, CameraStep PROVE PlaceTypes'
<1> USE DEF PlaceTypes, buffer_vars, same_commands, goes
<1>1. CASE bvexcam_start \/ bvexcam_stop \/ stop_joins_astro \/ focus_bvexcam
           \/ focus_bvexcam_begins
  BY <1>1 DEF bvexcam_start, bvexcam_stop, stop_joins_astro, focus_bvexcam, focus_bvexcam_begins
<1>2. CASE (\E p \in Positions : bvexcam_set_focus(p)) \/ bvexcam_set_focus_inf \/ bvexcam_set_exp
           \/ adjustCameraHardware
  BY <1>2 DEF bvexcam_set_focus, bvexcam_set_focus_inf, bvexcam_set_exp, adjustCameraHardware
<1>3. CASE updateAstrometry \/ doCameraAndAstrometry \/ begins_search \/ takes_image
           \/ lostInSpace \/ round_ends \/ finds_brightest_blob
  BY <1>3 DEF updateAstrometry, doCameraAndAstrometry, begins_search, takes_image,
              lostInSpace, round_ends, finds_brightest_blob
<1>4. CASE beginAutoFocus \/ defaultFocusPosition \/ steps_focus \/ calculateOptimalFocus
  BY <1>4 DEF beginAutoFocus, defaultFocusPosition, steps_focus, calculateOptimalFocus
<1> QED BY <1>1, <1>2, <1>3, <1>4 DEF CameraStep, astro_thread_steps

LEMMA FlagTypeStep == ASSUME FlagTypes, CameraStep PROVE FlagTypes'
<1> USE DEF FlagTypes, run_vars, lens_vars, mode_vars, search_vars, pixel_vars, buffer_vars,
        same_search, same_commands, goes
<1>1. CASE bvexcam_start \/ bvexcam_stop \/ stop_joins_astro
  BY <1>1 DEF bvexcam_start, initLensAdapter, bvexcam_stop, stop_joins_astro
<1>2. CASE focus_bvexcam \/ focus_bvexcam_begins
  BY <1>2 DEF focus_bvexcam, focus_bvexcam_begins
<1>3. CASE \E p \in Positions : bvexcam_set_focus(p)
  BY <1>3 DEF bvexcam_set_focus
<1>10. CASE bvexcam_set_focus_inf \/ bvexcam_set_exp
  BY <1>10 DEF bvexcam_set_focus_inf, bvexcam_set_exp
<1>4. CASE adjustCameraHardware
  BY <1>4 DEF adjustCameraHardware, runCommand, runCommand_fails, runCommand_only_reads
<1>5. CASE updateAstrometry \/ doCameraAndAstrometry \/ lostInSpace \/ round_ends \/ takes_image
  BY <1>5 DEF updateAstrometry, doCameraAndAstrometry, lostInSpace, round_ends, takes_image
<1>6. CASE begins_search
  BY <1>6 DEF begins_search
<1>11. CASE finds_brightest_blob
  BY <1>11 DEF finds_brightest_blob
<1>7. CASE beginAutoFocus
  BY <1>7 DEF beginAutoFocus, shiftFocus, runCommand, runCommand_fails
<1>12. CASE steps_focus
  BY <1>12 DEF steps_focus, shiftFocus, runCommand, runCommand_fails
<1>8. CASE defaultFocusPosition
  BY <1>8 DEF defaultFocusPosition, shiftFocus, runCommand, runCommand_fails
<1>9. CASE calculateOptimalFocus
  BY <1>9 DEF calculateOptimalFocus, shiftFocus, runCommand, runCommand_fails
<1> QED BY <1>1, <1>2, <1>3, <1>4, <1>5, <1>6, <1>7, <1>8, <1>9, <1>10, <1>11,
           <1>12 DEF CameraStep, astro_thread_steps

\* What a step does to the history.
LEMMA HistoryStep ==
    ASSUME CameraStep
    PROVE  /\ overlapped' = overlapped \/ overlapped' = (overlapped \/ Searching)
           /\ refocused' = refocused \/ refocused' = (refocused \/ focus_mode \/ Searching)
           /\ restarted' = restarted \/ restarted' = (image_buffers # "null")
           /\ wild_buffers' = wild_buffers
              \/ wild_buffers' = (wild_buffers \/ image_buffers = "freed")
              \/ wild_buffers' = (wild_buffers \/ image_buffers = "freed" \/ camera_closed)
<1> USE DEF buffer_vars, same_commands
<1>1. CASE bvexcam_start \/ bvexcam_stop \/ stop_joins_astro \/ focus_bvexcam
           \/ focus_bvexcam_begins
  BY <1>1, Zenon DEF bvexcam_start, bvexcam_stop, stop_joins_astro, focus_bvexcam,
     focus_bvexcam_begins
<1>2. CASE (\E p \in Positions : bvexcam_set_focus(p)) \/ bvexcam_set_focus_inf \/ bvexcam_set_exp
           \/ adjustCameraHardware
  BY <1>2, Zenon DEF bvexcam_set_focus, bvexcam_set_focus_inf, bvexcam_set_exp,
     adjustCameraHardware
<1>3. CASE updateAstrometry \/ doCameraAndAstrometry \/ begins_search \/ takes_image
           \/ lostInSpace \/ round_ends \/ finds_brightest_blob
  BY <1>3, Zenon DEF updateAstrometry, doCameraAndAstrometry, begins_search, takes_image,
              lostInSpace, round_ends, finds_brightest_blob
<1>4. CASE beginAutoFocus \/ defaultFocusPosition \/ steps_focus \/ calculateOptimalFocus
  BY <1>4, Zenon DEF beginAutoFocus, defaultFocusPosition, steps_focus, calculateOptimalFocus
<1> QED BY <1>1, <1>2, <1>3, <1>4 DEF CameraStep, astro_thread_steps

LEMMA HistoryTypeStep == ASSUME HistoryTypes, FlagTypes, CameraStep PROVE HistoryTypes'
<1>1. overlapped' \in BOOLEAN /\ refocused' \in BOOLEAN
  BY HistoryStep, Zenon DEF HistoryTypes
<1>2. restarted' \in BOOLEAN /\ wild_buffers' \in BOOLEAN
  BY HistoryStep, Zenon DEF HistoryTypes, FlagTypes
<1>3. wild_rows' \in BOOLEAN
  <2>1. CASE finds_brightest_blob
    BY <2>1, Zenon DEF finds_brightest_blob, HistoryTypes
  <2>2. CASE ~finds_brightest_blob
    BY <2>2 DEF HistoryTypes, CameraStep, astro_thread_steps, same_search, search_vars,
       bvexcam_start, bvexcam_stop, stop_joins_astro, focus_bvexcam, focus_bvexcam_begins,
       bvexcam_set_focus, bvexcam_set_focus_inf, bvexcam_set_exp, adjustCameraHardware,
       updateAstrometry, doCameraAndAstrometry, beginAutoFocus, defaultFocusPosition,
       begins_search, takes_image, steps_focus, calculateOptimalFocus, lostInSpace, round_ends
  <2> QED BY <2>1, <2>2
<1> QED BY <1>1, <1>2, <1>3 DEF HistoryTypes

\* The report of the last command.
LEMMA LensKnownStep == ASSUME CameraIInv, CameraNext PROVE LensKnown'
<1>0. CameraStep /\ FlagTypes /\ HistoryTypes /\ LensTypes /\ LensKnown /\ SearchPhases
  BY TypeParts DEF CameraIInv, CameraNext
<1> USE <1>0 DEF LensKnown, lens_vars, mode_vars, report_vars, same_search, same_commands,
                 Searching, AstroAlive, goes
<1>1. CASE bvexcam_start
  BY <1>1 DEF bvexcam_start, initLensAdapter
<1>2. CASE bvexcam_stop \/ stop_joins_astro \/ focus_bvexcam_begins
  BY <1>2 DEF bvexcam_stop, stop_joins_astro, focus_bvexcam_begins
<1>3. CASE focus_bvexcam
  BY <1>3 DEF focus_bvexcam
<1>4. CASE (\E p \in Positions : bvexcam_set_focus(p)) \/ bvexcam_set_focus_inf \/ bvexcam_set_exp
  <2>1. overlapped' <=> overlapped \/ Searching
    BY <1>4, Zenon DEF bvexcam_set_focus, bvexcam_set_focus_inf, bvexcam_set_exp
  <2> QED BY <1>4, <2>1 DEF bvexcam_set_focus, bvexcam_set_focus_inf, bvexcam_set_exp
<1>5. CASE adjustCameraHardware
  <2>1. overlapped' <=> overlapped \/ Searching
    BY <1>5, Zenon DEF adjustCameraHardware
  <2>2. Searching' <=> Searching
    BY <1>5 DEF adjustCameraHardware
  <2>3. ~reply_lost' =>
           /\ prev_focus_pos' = lens'
           /\ reported' # Failed /\ ~overlapped'
                 => lens' = IF focus_inf THEN MaxFocus ELSE Within(reported')
    <3>0. ~reply_lost' => prev_focus_pos' = lens'
      BY <1>5 DEF adjustCameraHardware, runCommand, runCommand_fails, runCommand_only_reads
    <3> SUFFICES ASSUME ~reply_lost', reported' # Failed, ~overlapped'
                 PROVE  lens' = IF focus_inf THEN MaxFocus ELSE Within(asked)
      BY <1>5, <3>0 DEF adjustCameraHardware
    <3>1. ~reply_lost /\ prev_focus_pos = lens /\ reported' = asked /\ ~overlapped
      BY <1>5, <2>1 DEF adjustCameraHardware, runCommand, runCommand_fails, runCommand_only_reads
    <3>2. lens \in Focus /\ lens \in Int /\ focus_position \in Int
      BY FocusFacts DEF LensTypes
    <3>3. ~focus_inf => focus_position = asked
      BY <1>5, <3>1 DEF adjustCameraHardware
    <3>4. CASE ~(focus_inf \/ focus_position - prev_focus_pos # 0)
      <4>1. lens' = lens /\ focus_position = lens
        BY <1>5, <3>1, <3>2, <3>4 DEF adjustCameraHardware
      <4> QED BY <3>2, <3>3, <3>4, <4>1, WithinFocus
    <3>5. CASE focus_inf
      BY <1>5, <3>1, <3>5 DEF adjustCameraHardware, runCommand
    <3>6. CASE ~focus_inf /\ focus_position - prev_focus_pos # 0
      <4>1. runCommand(Within(lens + (focus_position - prev_focus_pos)))
        BY <1>5, <3>1, <3>6 DEF adjustCameraHardware
      <4>2. lens + (focus_position - prev_focus_pos) = focus_position
        BY <3>1, <3>2
      <4> QED BY <3>3, <3>6, <4>1, <4>2 DEF runCommand
    <3> QED BY <3>4, <3>5, <3>6
  <2>4. cam_cmd' # "adjusts" /\ focus_inf' = focus_inf
    BY <1>5 DEF adjustCameraHardware
  <2> QED BY <2>1, <2>2, <2>3, <2>4
<1>6. CASE updateAstrometry \/ doCameraAndAstrometry \/ begins_search \/ takes_image
           \/ lostInSpace \/ round_ends
  BY <1>6 DEF updateAstrometry, doCameraAndAstrometry, begins_search, takes_image, lostInSpace,
              round_ends
<1>7. CASE finds_brightest_blob
  BY <1>7 DEF finds_brightest_blob, SearchPhases
<1>8. CASE beginAutoFocus \/ defaultFocusPosition \/ steps_focus \/ calculateOptimalFocus
  <2>1. (reported = Failed /\ cam_cmd # "adjusts") \/ overlapped
    BY <1>8 DEF beginAutoFocus, defaultFocusPosition, steps_focus, calculateOptimalFocus
  <2>2. ~reply_lost' => prev_focus_pos' = lens'
    BY <1>8, LensMoves DEF LensCommand, runCommand, runCommand_fails, runCommand_only_reads
  <2>3. UNCHANGED <<reported, overlapped, cam_cmd, focus_inf>>
    BY <1>8 DEF beginAutoFocus, defaultFocusPosition, steps_focus, calculateOptimalFocus
  <2> QED BY <2>1, <2>2, <2>3
<1> QED BY <1>1, <1>2, <1>3, <1>4, <1>5, <1>6, <1>7, <1>8 DEF CameraStep, astro_thread_steps

\* The steps that leave the search alone: commands other than focus_bvexcam, and what
\* the thread does between searches.
LEMMA SearchLeftAlone ==
    ASSUME \/ bvexcam_stop \/ stop_joins_astro \/ \E p \in Positions : bvexcam_set_focus(p)
           \/ bvexcam_set_focus_inf \/ bvexcam_set_exp \/ adjustCameraHardware
    PROVE  /\ UNCHANGED <<focus_mode, begin_auto_focus, af_photo, num_focus_pos, af_rows, af_file,
                          wild_rows, dynamic_hot_pixels, prev_dynamic_hp, astro, refocused>>
           /\ cam_cmd # "focus" /\ cam_cmd' # "focus"
           /\ faults_left' = faults_left \/ CanFail
BY DEF bvexcam_stop, stop_joins_astro, bvexcam_set_focus, bvexcam_set_focus_inf, bvexcam_set_exp,
       adjustCameraHardware, same_search, mode_vars, search_vars, pixel_vars, bound_vars,
       runCommand, runCommand_fails, runCommand_only_reads

\* The flags of the search and the places of the thread.
LEMMA SearchPhasesStep == ASSUME CameraIInv, CameraNext PROVE SearchPhases'
<1>0. CameraStep /\ FlagTypes /\ SearchPhases
  BY TypeParts DEF CameraIInv, CameraNext
<1> USE <1>0 DEF SearchPhases, mode_vars, same_search, same_commands, goes
<1>1. CASE bvexcam_start \/ focus_bvexcam \/ focus_bvexcam_begins
  BY <1>1 DEF bvexcam_start, focus_bvexcam, focus_bvexcam_begins
<1>2. CASE \/ bvexcam_stop \/ stop_joins_astro \/ \E p \in Positions : bvexcam_set_focus(p)
           \/ bvexcam_set_focus_inf \/ bvexcam_set_exp \/ adjustCameraHardware
  BY <1>2, SearchLeftAlone
<1>3. CASE updateAstrometry \/ doCameraAndAstrometry \/ begins_search \/ takes_image
           \/ lostInSpace \/ round_ends \/ finds_brightest_blob
  BY <1>3 DEF updateAstrometry, doCameraAndAstrometry, begins_search, takes_image,
              lostInSpace, round_ends, finds_brightest_blob
<1>4. CASE beginAutoFocus \/ defaultFocusPosition \/ steps_focus \/ calculateOptimalFocus
  BY <1>4 DEF beginAutoFocus, defaultFocusPosition, steps_focus, calculateOptimalFocus
<1> QED BY <1>1, <1>2, <1>3, <1>4 DEF CameraStep, astro_thread_steps

\* The photos that count.
LEMMA PhotosStep == ASSUME CameraIInv, CameraNext PROVE Photos'
<1>0. CameraStep /\ FlagTypes /\ CountTypes /\ PlaceTypes /\ SearchPhases /\ Photos
  BY TypeParts DEF CameraIInv, CameraNext
<1> USE <1>0 DEF Photos, mode_vars, search_vars, same_search, same_commands, goes
<1>1. CASE bvexcam_start
  BY <1>1 DEF bvexcam_start
<1>2. CASE focus_bvexcam \/ focus_bvexcam_begins
  BY <1>2 DEF focus_bvexcam, focus_bvexcam_begins
<1>3. CASE \/ bvexcam_stop \/ stop_joins_astro \/ \E p \in Positions : bvexcam_set_focus(p)
           \/ bvexcam_set_focus_inf \/ bvexcam_set_exp \/ adjustCameraHardware
  BY <1>3, SearchLeftAlone
<1>4. CASE updateAstrometry \/ doCameraAndAstrometry \/ begins_search \/ takes_image
           \/ lostInSpace \/ round_ends
  BY <1>4 DEF updateAstrometry, doCameraAndAstrometry, begins_search, takes_image,
              lostInSpace, round_ends, SearchPhases
<1>5. CASE finds_brightest_blob
  BY <1>5, CameraAssumption DEF finds_brightest_blob, CountTypes, SearchPhases
<1>6. CASE beginAutoFocus \/ defaultFocusPosition \/ steps_focus \/ calculateOptimalFocus
  BY <1>6 DEF beginAutoFocus, defaultFocusPosition, steps_focus, calculateOptimalFocus,
     SearchPhases
<1> QED BY <1>1, <1>2, <1>3, <1>4, <1>5, <1>6 DEF CameraStep, astro_thread_steps

\* The rows of the search.
LEMMA RowsStep == ASSUME CameraIInv, CameraNext PROVE Rows'
<1>0. CameraStep /\ FlagTypes /\ HistoryTypes /\ CountTypes /\ SearchPhases /\ Photos /\ Rows
  BY TypeParts DEF CameraIInv, CameraNext
<1> USE <1>0 DEF Rows, RowsHaveRoom, mode_vars, search_vars, same_search, same_commands, goes
<1>1. CASE bvexcam_start \/ focus_bvexcam \/ focus_bvexcam_begins
  BY <1>1 DEF bvexcam_start, focus_bvexcam, focus_bvexcam_begins
<1>2. CASE \/ bvexcam_stop \/ stop_joins_astro \/ \E p \in Positions : bvexcam_set_focus(p)
           \/ bvexcam_set_focus_inf \/ bvexcam_set_exp \/ adjustCameraHardware
  BY <1>2, SearchLeftAlone
<1>3. CASE updateAstrometry \/ doCameraAndAstrometry \/ begins_search \/ takes_image
           \/ lostInSpace \/ round_ends
  BY <1>3 DEF updateAstrometry, doCameraAndAstrometry, begins_search, takes_image,
              lostInSpace, round_ends, CountTypes, SearchPhases
<1>4. CASE finds_brightest_blob
  <2>1. astro = "photo" /\ UNCHANGED <<begin_auto_focus, af_file>>
    BY <1>4 DEF finds_brightest_blob
  <2>2. CASE af_photo + 1 >= PhotosPerFocus
    <3>1. af_file /\ af_rows <= num_focus_pos
      BY <2>1, <2>2, CameraAssumption DEF Photos
    <3>2. /\ af_rows' = af_rows + 1 /\ num_focus_pos' = num_focus_pos + 1
          /\ wild_rows' <=> wild_rows \/ ~af_file \/ num_focus_pos' < af_rows'
      BY <1>4, <2>2 DEF finds_brightest_blob
    <3>3. af_rows' <= num_focus_pos' /\ ~wild_rows'
      BY <3>1, <3>2 DEF CountTypes
    <3> QED BY <3>3
  <2>3. CASE ~(af_photo + 1 >= PhotosPerFocus)
    <3>1. af_rows' = af_rows /\ num_focus_pos' = num_focus_pos /\ (wild_rows' <=> wild_rows)
      BY <1>4, <2>3 DEF finds_brightest_blob
    <3> QED BY <2>1, <3>1
  <2> QED BY <2>2, <2>3
<1>5. CASE beginAutoFocus \/ defaultFocusPosition \/ steps_focus \/ calculateOptimalFocus
  BY <1>5 DEF beginAutoFocus, defaultFocusPosition, steps_focus, calculateOptimalFocus
<1> QED BY <1>1, <1>2, <1>3, <1>4, <1>5 DEF CameraStep, astro_thread_steps

\* The buffers of the images.
LEMMA BuffersStep == ASSUME CameraIInv, CameraNext PROVE Buffers'
<1>0. CameraStep /\ FlagTypes /\ HistoryTypes /\ PlaceTypes /\ Buffers
  BY TypeParts DEF CameraIInv, CameraNext
<1> USE <1>0 DEF Buffers, run_vars, buffer_vars, same_commands, goes
<1>1. CASE bvexcam_start
  <2>1. restarted' <=> image_buffers # "null"
    BY <1>1, Zenon DEF bvexcam_start
  <2>2. /\ image_buffers' = image_buffers /\ wild_buffers' = wild_buffers
        /\ astro' = "loop" /\ ~camera_closed'
    BY <1>1 DEF bvexcam_start
  <2> QED BY <2>1, <2>2
<1>2. CASE bvexcam_stop \/ stop_joins_astro \/ focus_bvexcam \/ focus_bvexcam_begins
  BY <1>2 DEF bvexcam_stop, stop_joins_astro, focus_bvexcam, focus_bvexcam_begins
<1>3. CASE (\E p \in Positions : bvexcam_set_focus(p)) \/ bvexcam_set_focus_inf \/ bvexcam_set_exp
           \/ adjustCameraHardware
  BY <1>3 DEF bvexcam_set_focus, bvexcam_set_focus_inf, bvexcam_set_exp, adjustCameraHardware
<1>4. CASE takes_image \/ round_ends
  <2>1. /\ takes_image => (wild_buffers' <=> wild_buffers \/ image_buffers = "freed" \/ camera_closed)
        /\ round_ends => (wild_buffers' <=> wild_buffers \/ image_buffers = "freed")
    BY <1>4, Zenon DEF takes_image, round_ends
  <2> QED BY <1>4, <2>1 DEF takes_image, round_ends
<1>5. CASE updateAstrometry \/ doCameraAndAstrometry \/ begins_search \/ lostInSpace
           \/ finds_brightest_blob
  BY <1>5 DEF updateAstrometry, doCameraAndAstrometry, begins_search, lostInSpace,
              finds_brightest_blob
<1>6. CASE beginAutoFocus \/ defaultFocusPosition \/ steps_focus \/ calculateOptimalFocus
  BY <1>6 DEF beginAutoFocus, defaultFocusPosition, steps_focus, calculateOptimalFocus
<1> QED BY <1>1, <1>2, <1>3, <1>4, <1>5, <1>6 DEF CameraStep, astro_thread_steps

\* Faults only grow fewer, and the bounds of the behaviour stay.
LEMMA FaultsFewer ==
    ASSUME CountTypes, CameraNext
    PROVE  /\ faults_left' = faults_left \/ (faults_left' = faults_left - 1 /\ faults_left > 0)
           /\ camera_session' = camera_session
<1> USE DEF bound_vars, same_commands, CanFail, runCommand_fails, runCommand_only_reads
<1>0. CameraStep /\ camera_session' = camera_session
  BY DEF CameraNext
<1>1. CASE bvexcam_start \/ bvexcam_stop \/ stop_joins_astro \/ focus_bvexcam
           \/ focus_bvexcam_begins
  BY <1>0, <1>1 DEF bvexcam_start, bvexcam_stop, stop_joins_astro, focus_bvexcam,
     focus_bvexcam_begins
<1>2. CASE (\E p \in Positions : bvexcam_set_focus(p)) \/ bvexcam_set_focus_inf \/ bvexcam_set_exp
           \/ adjustCameraHardware
  BY <1>0, <1>2 DEF bvexcam_set_focus, bvexcam_set_focus_inf, bvexcam_set_exp,
     adjustCameraHardware, runCommand
<1>3. CASE updateAstrometry \/ doCameraAndAstrometry \/ begins_search \/ takes_image
           \/ lostInSpace \/ round_ends \/ finds_brightest_blob
  BY <1>0, <1>3 DEF updateAstrometry, doCameraAndAstrometry, begins_search, takes_image,
              lostInSpace, round_ends, finds_brightest_blob
<1>4. CASE beginAutoFocus \/ defaultFocusPosition \/ steps_focus \/ calculateOptimalFocus
  BY <1>0, <1>4 DEF beginAutoFocus, defaultFocusPosition, steps_focus, calculateOptimalFocus,
     shiftFocus, runCommand
<1> QED BY <1>0, <1>1, <1>2, <1>3, <1>4 DEF CameraStep, astro_thread_steps

\* Whether a fault has happened is for good.
LEMMA NoFaultBefore ==
    ASSUME CountTypes, FaultsCounted, CameraNext
    PROVE  /\ NoFault' => NoFault /\ ~CanFail
           /\ faults_left' <= camera_session'.faults
<1>1. faults_left \in Nat /\ camera_session.faults \in Nat
  BY SessionBounds DEF CountTypes
<1> QED BY <1>1, FaultsFewer DEF NoFault, CanFail, FaultsCounted

LEMMA FaultsStep == ASSUME CameraIInv, CameraNext PROVE FaultsCounted'
<1>0. CameraStep /\ FlagTypes /\ CountTypes /\ SearchPhases /\ FaultsCounted
  BY TypeParts DEF CameraIInv, CameraNext
<1>1. /\ NoFault' => NoFault /\ ~CanFail
      /\ faults_left' <= camera_session'.faults
  BY <1>0, NoFaultBefore
<1>2. ASSUME NoFault' PROVE astro' # "defaults"
                            /\ (astro' \in {"opens", "steps", "finishes"} => focus_mode')
  <2> USE <1>0, <1>1, <1>2 DEF FaultsCounted, mode_vars, same_search, same_commands, goes
  <2>1. CASE bvexcam_start \/ focus_bvexcam \/ focus_bvexcam_begins
    BY <2>1 DEF bvexcam_start, focus_bvexcam, focus_bvexcam_begins
  <2>2. CASE \/ bvexcam_stop \/ stop_joins_astro \/ \E p \in Positions : bvexcam_set_focus(p)
             \/ bvexcam_set_focus_inf \/ bvexcam_set_exp \/ adjustCameraHardware
    BY <2>2, SearchLeftAlone
  <2>3. CASE updateAstrometry \/ doCameraAndAstrometry \/ begins_search \/ takes_image
             \/ lostInSpace \/ round_ends \/ finds_brightest_blob
    BY <2>3 DEF updateAstrometry, doCameraAndAstrometry, begins_search, takes_image,
                lostInSpace, round_ends, finds_brightest_blob, SearchPhases
  <2>4. CASE beginAutoFocus \/ defaultFocusPosition \/ steps_focus \/ calculateOptimalFocus
    BY <2>4 DEF beginAutoFocus, defaultFocusPosition, steps_focus, calculateOptimalFocus,
       runCommand_fails, SearchPhases
  <2> QED BY <2>1, <2>2, <2>3, <2>4 DEF CameraStep, astro_thread_steps
<1> QED BY <1>1, <1>2 DEF FaultsCounted

\* The hot pixels.
LEMMA PixelsStep == ASSUME CameraIInv, CameraNext PROVE Pixels'
<1>0. /\ CameraStep /\ FlagTypes /\ HistoryTypes /\ CountTypes /\ SearchPhases /\ FaultsCounted
      /\ Pixels /\ Photos
  BY TypeParts DEF CameraIInv, CameraNext
<1> SUFFICES ASSUME NoFault', ~refocused' PROVE Pixels'
  BY DEF Pixels
<1>1. NoFault /\ ~CanFail
  BY <1>0, NoFaultBefore
<1>2. ~refocused
  BY <1>0, HistoryStep, Zenon
<1> USE <1>0, <1>1, <1>2
    DEF Pixels, mode_vars, search_vars, pixel_vars, same_search, same_commands, goes
<1>3. CASE bvexcam_start \/ focus_bvexcam_begins
  BY <1>3 DEF bvexcam_start, focus_bvexcam_begins
<1>4. CASE focus_bvexcam
  <2>1. ~focus_mode /\ ~Searching
    BY <1>4, Zenon DEF focus_bvexcam
  <2> QED BY <1>4, <2>1 DEF focus_bvexcam, Searching, AstroAlive
<1>5. CASE \/ bvexcam_stop \/ stop_joins_astro \/ \E p \in Positions : bvexcam_set_focus(p)
           \/ bvexcam_set_focus_inf \/ bvexcam_set_exp \/ adjustCameraHardware
  BY <1>5, SearchLeftAlone
<1>6. CASE updateAstrometry \/ doCameraAndAstrometry \/ takes_image \/ lostInSpace \/ round_ends
  BY <1>6 DEF updateAstrometry, doCameraAndAstrometry, takes_image, lostInSpace, round_ends
<1>7. CASE begins_search
  BY <1>7 DEF begins_search, SearchPhases, FaultsCounted
<1>8. CASE finds_brightest_blob
  BY <1>8, CameraAssumption DEF finds_brightest_blob, SearchPhases, Photos, CountTypes
<1>9. CASE beginAutoFocus \/ defaultFocusPosition \/ steps_focus
  BY <1>9 DEF beginAutoFocus, defaultFocusPosition, steps_focus, FaultsCounted
<1>10. CASE calculateOptimalFocus
  BY <1>10 DEF calculateOptimalFocus, FaultsCounted
<1> QED BY <1>3, <1>4, <1>5, <1>6, <1>7, <1>8, <1>9, <1>10 DEF CameraStep, astro_thread_steps

-----------------------------------------------------------------------------
(* The camera: the theorems *)

\* Every step preserves the invariant.
LEMMA CameraNextIInv == CameraIInv /\ [CameraNext]_camera_vars => CameraIInv'
<1>1. ASSUME CameraIInv, CameraNext PROVE CameraIInv'
  <2>1. CameraTypeOK'
    <3>1. CameraStep /\ FlagTypes /\ HistoryTypes /\ LensTypes /\ CountTypes /\ PlaceTypes
      BY <1>1, TypeParts DEF CameraIInv, CameraNext
    <3>2. (FlagTypes /\ HistoryTypes /\ LensTypes /\ CountTypes /\ PlaceTypes)'
      BY <1>1, <3>1, FlagTypeStep, HistoryTypeStep, LensTypeStep, CountTypeStep, PlaceTypeStep
    <3> QED BY <3>2, TypeParts DEF CameraTypeOK, FlagTypes, HistoryTypes, LensTypes, CountTypes,
                                   PlaceTypes
  <2> QED BY <1>1, <2>1, LensKnownStep, SearchPhasesStep, PhotosStep, RowsStep, BuffersStep,
             FaultsStep, PixelsStep DEF CameraIInv
<1>2. ASSUME CameraIInv, UNCHANGED camera_vars PROVE CameraIInv'
  <2>1. UNCHANGED <<camera_session, starts_left, searches_left, moves_left, faults_left,
                    bvexcam_on, shutting_down, lens, focus_position, prev_focus_pos, reply_lost,
                    focus_inf, focus_mode, begin_auto_focus, af_photo, num_focus_pos, af_rows,
                    af_file, wild_rows, dynamic_hot_pixels, prev_dynamic_hp, image_buffers,
                    wild_buffers, camera_closed, restarted, astro, cam_cmd, asked, reported,
                    overlapped, refocused>>
    BY <1>2 DEF camera_vars, camera_moves, bound_vars, run_vars, lens_vars, mode_vars,
       search_vars, pixel_vars, buffer_vars, report_vars
  <2>2. CameraTypeOK'
    BY <1>2, <2>1 DEF CameraIInv, CameraTypeOK
  <2>3. (LensKnown /\ SearchPhases /\ Photos /\ Rows)'
    BY <1>2, <2>1 DEF CameraIInv, LensKnown, Searching, AstroAlive, SearchPhases, Photos, Rows,
       RowsHaveRoom
  <2>4. (Buffers /\ FaultsCounted /\ Pixels)'
    BY <1>2, <2>1 DEF CameraIInv, Buffers, FaultsCounted, NoFault, Pixels
  <2> QED BY <2>2, <2>3, <2>4 DEF CameraIInv
<1> QED BY <1>1, <1>2

\* The camera of the telescope never leaves the inductive invariant, for any range of the
\* lens, any number of photos but one, and any commands (camera.c, bvexcam.c, cli_Oph.c).
THEOREM CameraInvariance == CameraSpec => []CameraIInv
BY CameraInitIInv, CameraNextIInv, PTL DEF CameraSpec

\* The invariant implies what a search must not do.
LEMMA SafeSearches == CameraIInv => SearchIsSafe
BY DEF CameraIInv, SearchIsSafe, Rows, Buffers, ImageBuffersLive, HotPixelsBack, Pixels, NoFault

\* A search, with commands to the camera and its lens at any moment, keeps its rows within
\* the arrays and its file, uses no image memory that was freed, and restores the hot
\* pixels, with the exceptions the properties name: after another start, or once the begin
\* of a search closed the camera, freed memory is used (doCameraAndAstrometry, closeCamera).
THEOREM SearchesAreSafe == CameraSpec => []SearchIsSafe
BY CameraInvariance, SafeSearches, PTL

\* A focus command that reports success, whatever number it asks for, has moved the lens to
\* that position or to the end of the range beyond which it lies, or to infinity once that
\* was asked for (adjustCameraHardware, shiftFocus).
THEOREM FocusIsObeyed == CameraSpec => []FocusObeyed
<1>1. CameraIInv => FocusObeyed
  BY DEF CameraIInv, LensKnown, FocusObeyed
<1> QED BY <1>1, CameraInvariance, PTL

-----------------------------------------------------------------------------
(* Both halves *)

\* Both halves together do nothing that a half by itself could not do.
THEOREM HalvesImplement == CamerasSpec => Spec /\ CameraSpec
<1>1. CamerasInit => Init /\ CameraInit
  BY DEF CamerasInit
<1>2. [CamerasNext]_camera_and_server => [Next]_vars /\ [CameraNext]_camera_vars
  BY DEF CamerasNext, RunsCamera, RunsDownlink, camera_and_server
<1> QED BY <1>1, <1>2, PTL DEF CamerasSpec, Spec, CameraSpec

\* Both halves keep their types; a second sees no more bytes than its limit.
THEOREM CamerasTypeCorrect == CamerasSpec => []CamerasTypeOK
<1>1. CameraIInv /\ TypeOK => CamerasTypeOK
  BY DEF CameraIInv, CamerasTypeOK
<1> QED BY <1>1, HalvesImplement, CameraInvariance, TypeCorrect, PTL

\* What holds for each half holds for both: no row, buffer or hot pixel is out of order, a
\* reported focus is the focus, an image being sent is neither freed nor mixed with
\* another one, and a pending image will be promoted.
THEOREM CamerasSafe ==
    CamerasSpec => /\ []SearchIsSafe /\ []FocusObeyed
                   /\ []BufferLive /\ []OneImagePerTransmission /\ []PendingIsPromoted
BY HalvesImplement, SearchesAreSafe, FocusIsObeyed, BufferIsLive, NoMixedImages,
   PendingHasPromoter, PTL
=============================================================================

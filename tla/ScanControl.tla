---------------------------- MODULE ScanControl ----------------------------
(***************************************************************************)
(* The elevation scans of Ophiuchus: the iteration of the motor thread      *)
(* (do_motors, command_motor and the scans of motor_control.c) against the  *)
(* scan commands that the main thread executes (exec_command of cli_Oph.c). *)
(* Both write axes_mode and scan_mode, and there is no lock.                *)
(*                                                                         *)
(* Angles are integers.  A unit is what the telescope covers in one         *)
(* iteration at the speed of the scan, and more than the 0.1 degrees within *)
(* which the code takes it to be on target.  A command is one action; the   *)
(* iteration is cut where it has read what a command may change before it   *)
(* acts on it: at the sample of the encoder, at the test of scanning, at    *)
(* the scan and at the drive.                                               *)
(***************************************************************************)
EXTENDS Integers

CONSTANTS Sessions,     \* BOUND: what one session may send, records of the names of
                        \* its commands, its targets and the most scans it asks for
          Ranges,       \* the <<start_el, stop_el>> of encdither
          Angles,       \* the angles of gotoenc
          Tol,          \* config.motor.pos_tol
          HalfLen,      \* scan_len / 2 of trackdither
          Offset,       \* the offset of enconoff
          MINEL, MAXEL,
          Bottom, Top,  \* the stops of the elevation axis
          MaxScans      \* bound on nscans and on the scans counted

Commands == {"gotoenc", "park", "encdither", "enctrack", "enconoff",
             "trackdither", "stop_scan", "sky"}
Position == Bottom .. Top

\* A range has a position between its ends, where a sweep is seen to have left
\* the end it came from.
ASSUME ScanAssumption ==
    /\ Sessions \subseteq [commands : SUBSET Commands, targets : SUBSET Int, scans : 0 .. MaxScans]
    /\ Tol \in Nat /\ HalfLen \in Nat \ {0} /\ Offset \in Int /\ MaxScans \in Nat
    /\ Bottom \in Int /\ Top \in Int /\ 0 \in Position
    /\ MINEL \in Int /\ MAXEL \in Int /\ MINEL <= 0 /\ 0 <= MAXEL
    /\ Angles \subseteq Int
    /\ \A r \in Ranges : /\ r \in Int \X Int
                         /\ r[1] - r[2] >= 2 \/ r[2] - r[1] >= 2

Flag  == {0, 1}
Scans == {"ENC_DITHER", "ENC_TRACK", "EL_ONOFF", "TRACK_DITHER"}

VARIABLES
    \* scan_mode, and its field mode
    scan_mode, scanning, firsttime, turnaround, start_el, stop_el,
    start_to_stop, scan, nscans, offset, on_position,
    \* axes_mode
    mode, vel, dest, on_target, on_target_el,
    \* the statics of enc_onoff, with t_now - t_start in half times
    on_to_off, off_to_off, top, halves,
    target,     \* the elevation of the target, as AzEl_from_RaDec gives it
    at,         \* where the motor thread is in its iteration
    curr_pos,   \* the position in MotorData
    pos,        \* where the telescope points
    session,    \* what this session may send, chosen once
    asked,      \* history: the last command
    clean       \* history: the dither began at rest and nothing came after it

range   == <<start_el, stop_el>>
sweep   == <<firsttime, turnaround, start_to_stop, scan>>
legs    == <<on_to_off, off_to_off, top, halves>>
axes    == <<mode, vel, dest, on_target, on_target_el>>
history == <<session, asked, clean>>
vars == <<scan_mode, scanning, nscans, offset, on_position, range, sweep, legs,
          axes, target, at, curr_pos, pos, history>>

Init ==
    /\ scan_mode = "NONE" /\ scanning = 0 /\ firsttime = 1 /\ turnaround = 1
    /\ start_el = 0 /\ stop_el = 0 /\ start_to_stop = 1
    /\ scan = 0 /\ nscans = 0 /\ offset = 0 /\ on_position = 0
    /\ mode = "VEL" /\ vel = 0 /\ dest = 0 /\ on_target = 0 /\ on_target_el = 0
    /\ on_to_off = 0 /\ off_to_off = 0 /\ top = 0 /\ halves = 2
    /\ target = 0
    /\ at = "read" /\ curr_pos = 0 /\ pos = 0
    /\ session \in Sessions /\ asked = "none" /\ clean = 0

go_to_enc(angle) == /\ mode' = "POS" /\ dest' = angle
                    /\ UNCHANGED <<vel, on_target, on_target_el>>

-----------------------------------------------------------------------------
(* The commands, executed by the main thread *)

Command(c) == /\ c \in session.commands /\ asked' = c
              /\ UNCHANGED <<session, start_to_stop, legs, on_target_el, at, curr_pos, pos>>

\* The part of a command that starts a scan of mode m.
StartScan(m) ==
    /\ Command(m)
    /\ scanning' = 1
    /\ UNCHANGED <<sweep, on_position, axes>>

gotoenc ==
    /\ Command("gotoenc") /\ clean' = 0
    /\ scanning' = 0
    /\ \E angle \in Angles : go_to_enc(angle)
    /\ UNCHANGED <<scan_mode, nscans, offset, on_position, range, sweep, target>>

\* A park does not end the scan under way.
park ==
    /\ Command("park") /\ clean' = 0
    /\ go_to_enc(Bottom)
    /\ UNCHANGED <<scan_mode, scanning, nscans, offset, on_position, range, sweep, target>>

\* firsttime, scan, turnaround and the axes keep what they were.
encdither ==
    /\ StartScan("encdither")
    /\ clean' = IF scanning = 0 /\ firsttime = 1 /\ at \notin Scans THEN 1 ELSE 0
    /\ scan_mode' = "ENC_DITHER"
    /\ \E r \in Ranges : start_el' = r[1] /\ stop_el' = r[2]
    /\ nscans' \in 0 .. session.scans
    /\ UNCHANGED <<offset, target>>

enctrack ==
    /\ StartScan("enctrack") /\ clean' = 0
    /\ scan_mode' = "ENC_TRACK"
    /\ target' \in session.targets
    /\ UNCHANGED <<range, nscans, offset>>

enconoff ==
    /\ StartScan("enconoff") /\ clean' = 0
    /\ scan_mode' = "EL_ONOFF"
    /\ target' \in session.targets
    /\ offset' = Offset
    /\ UNCHANGED <<range, nscans>>

trackdither ==
    /\ StartScan("trackdither") /\ clean' = 0
    /\ scan_mode' = "TRACK_DITHER"
    /\ target' \in session.targets
    /\ nscans' \in 0 .. session.scans
    /\ UNCHANGED <<range, offset>>

stop_scan ==
    /\ Command("stop_scan") /\ clean' = 0
    /\ scanning' = 0 /\ scan_mode' = "NONE" /\ nscans' = 0 /\ scan' = 0
    /\ turnaround' = 1 /\ on_position' = 0 /\ offset' = 0 /\ firsttime' = 1
    /\ mode' = "VEL" /\ vel' = 0 /\ on_target' = 0
    /\ UNCHANGED <<range, dest, target>>

-----------------------------------------------------------------------------
(* The iteration of the motor thread *)

Motor(from, to) == at = from /\ at' = to /\ UNCHANGED <<target, history>>

read_motor_data ==
    /\ Motor("read", "test")
    /\ curr_pos' = pos
    /\ UNCHANGED <<scan_mode, scanning, nscans, offset, on_position, range, sweep,
                   legs, axes, pos>>

command_motor ==
    /\ Motor("test", IF scanning = 1 /\ scan_mode \in Scans THEN scan_mode ELSE "drive")
    /\ UNCHANGED <<scan_mode, scanning, nscans, offset, on_position, range, sweep,
                   legs, axes, curr_pos, pos>>

(* do_enc_dither for the range from a to b *)

Low(a, b)  == IF a > b THEN b ELSE a
High(a, b) == IF a > b THEN a ELSE b

\* The scan starts from just outside its range.
AtStart(a, b) ==
    IF a > b THEN a <= curr_pos /\ curr_pos <= a + Tol
             ELSE a - Tol <= curr_pos /\ curr_pos <= a

Outside(a, b) == curr_pos > High(a, b) + Tol \/ curr_pos < Low(a, b) - Tol
Inside(a, b)  == Low(a, b) < curr_pos /\ curr_pos < High(a, b)

nextscan == IF scan < MaxScans THEN scan + 1 ELSE MaxScans

dither_approach(a, b) ==
    /\ firsttime = 1 /\ ~AtStart(a, b)
    /\ go_to_enc(a)
    /\ UNCHANGED <<scan_mode, scanning, sweep>>

\* Mutant: an approach from the other end sweeps away from the range.
dither_begin_Upward(a, b) ==
    /\ firsttime = 1 /\ AtStart(a, b)
    /\ firsttime' = 0 /\ scan' = 0 /\ turnaround' = 1
    /\ start_to_stop' = 1
    /\ mode' = "VEL" /\ vel' = start_to_stop'
    /\ UNCHANGED <<scan_mode, scanning, dest, on_target, on_target_el>>

dither_begin(a, b) ==
    /\ firsttime = 1 /\ AtStart(a, b)
    /\ firsttime' = 0 /\ scan' = 0 /\ turnaround' = 1
    /\ start_to_stop' = IF a > b THEN -1 ELSE 1
    /\ mode' = "VEL" /\ vel' = start_to_stop'
    /\ UNCHANGED <<scan_mode, scanning, dest, on_target, on_target_el>>

\* The end of the last sweep, and of a tracked dither out of the limits.
dither_end ==
    /\ vel' = 0 /\ scanning' = 0 /\ scan' = 0 /\ scan_mode' = "NONE" /\ firsttime' = 1

\* The sweep goes on, or its end ends the scan; mode is left alone.
sweep_on(scans) ==
    /\ IF scans < nscans
       THEN /\ vel' = start_to_stop' /\ scan' = scans
            /\ UNCHANGED <<scan_mode, scanning, firsttime>>
       ELSE dither_end
    /\ UNCHANGED <<mode, dest, on_target, on_target_el>>

\* Mutant: the turn is not marked, so every sample out there turns again.
dither_turn_NotMarked(a, b) ==
    /\ firsttime = 0 /\ Outside(a, b) /\ turnaround = 0
    /\ start_to_stop' = -start_to_stop /\ turnaround' = 0
    /\ sweep_on(nextscan)

dither_turn(a, b) ==
    /\ firsttime = 0 /\ Outside(a, b) /\ turnaround = 0
    /\ start_to_stop' = -start_to_stop /\ turnaround' = 1
    /\ sweep_on(nextscan)

dither_go_on(a, b) ==
    /\ firsttime = 0 /\ ~(Outside(a, b) /\ turnaround = 0)
    /\ turnaround' = IF ~Outside(a, b) /\ Inside(a, b) THEN 0 ELSE turnaround
    /\ UNCHANGED start_to_stop
    /\ sweep_on(scan)

dither(a, b) ==
    dither_approach(a, b) \/ dither_begin(a, b) \/ dither_turn(a, b) \/ dither_go_on(a, b)

do_enc_dither ==
    /\ Motor("ENC_DITHER", "drive")
    /\ dither(start_el, stop_el)
    /\ UNCHANGED <<range, nscans, offset, on_position, legs, curr_pos, pos>>

\* The range moves with the target; out of the limits the scan is given up.
track_dither ==
    /\ Motor("TRACK_DITHER", "drive")
    /\ start_el' = target - HalfLen /\ stop_el' = target + HalfLen
    /\ \/ /\ start_el' >= MINEL /\ stop_el' <= MAXEL
          /\ dither(start_el', stop_el')
       \/ /\ start_el' < MINEL \/ stop_el' > MAXEL
          /\ dither_end /\ mode' = "VEL"
          /\ UNCHANGED <<turnaround, start_to_stop, dest, on_target, on_target_el>>
    /\ UNCHANGED <<nscans, offset, on_position, legs, curr_pos, pos>>

(* track and enc_onoff *)

\* Below MINEL the destination is 0.
tracked == CASE target > MAXEL -> MAXEL
             [] target < MINEL -> 0
             [] OTHER          -> target

OnTarget == curr_pos = tracked

\* track() with the destination moved by d after the comparison.
track_by(d) ==
    /\ mode' = "POS" /\ dest' = tracked + d
    /\ on_target' = (IF OnTarget THEN 1 ELSE 0) /\ on_target_el' = on_target'
    /\ UNCHANGED vel

track ==
    /\ Motor("ENC_TRACK", "drive")
    /\ track_by(0)
    /\ UNCHANGED <<scan_mode, scanning, nscans, offset, on_position, range, sweep,
                   legs, curr_pos, pos>>

\* Where enc_onoff sends the telescope: to the target, above it or below it.
onoff_offset ==
    LET up == top = 1 /\ (on_position = -1 \/ on_to_off = 1)
        dn == ~up /\ (on_position = -1 \/ off_to_off = 1)
    IN  CASE scan # 0 /\ up -> offset
          [] scan # 0 /\ dn -> -offset
          [] OTHER          -> 0

\* Until the target is reached for the first time.
onoff_approach ==
    /\ scan = 0 /\ ~OnTarget
    /\ on_position' = 0
    /\ UNCHANGED <<scan, legs>>

onoff_first ==
    /\ scan = 0 /\ OnTarget
    /\ on_position' = 1 /\ scan' = nextscan
    /\ on_to_off' = 0 /\ off_to_off' = 0 /\ top' = 0 /\ halves' = 0

\* Mutant: the leg to the lower off position leaves top set.
onoff_leave_off_StillTop ==
    /\ scan # 0 /\ halves >= 1 /\ on_position = -1
    /\ on_position' = 0
    /\ IF top = 1 THEN off_to_off' = 1 /\ UNCHANGED on_to_off
                  ELSE on_to_off' = -1 /\ UNCHANGED off_to_off
    /\ UNCHANGED <<top, scan, halves>>

onoff_leave_off ==
    /\ scan # 0 /\ halves >= 1 /\ on_position = -1
    /\ on_position' = 0
    /\ IF top = 1 THEN off_to_off' = 1 /\ top' = 0 /\ UNCHANGED on_to_off
                  ELSE on_to_off' = -1 /\ UNCHANGED <<off_to_off, top>>
    /\ UNCHANGED <<scan, halves>>

\* On no leg at all the time is taken anew and nothing else happens.
onoff_arrive ==
    /\ scan # 0 /\ halves >= 1 /\ on_position = 0 /\ OnTarget
    /\ halves' = 0
    /\ \/ on_to_off = 1
             /\ on_position' = -1 /\ on_to_off' = 0 /\ UNCHANGED <<off_to_off, scan>>
       \/ on_to_off # 1 /\ off_to_off = 1
             /\ on_position' = -1 /\ off_to_off' = 0 /\ UNCHANGED <<on_to_off, scan>>
       \/ on_to_off = -1 /\ off_to_off = 0
             /\ on_position' = 1 /\ on_to_off' = 0 /\ scan' = nextscan
             /\ UNCHANGED off_to_off
       \/ on_to_off = 0 /\ off_to_off = 0
             /\ UNCHANGED <<on_position, on_to_off, off_to_off, scan>>
    /\ UNCHANGED top

onoff_leave_on ==
    /\ scan # 0 /\ halves = 2 /\ on_position = 1
    /\ on_position' = 0 /\ on_to_off' = 1 /\ top' = 1
    /\ UNCHANGED <<off_to_off, scan, halves>>

onoff_wait ==
    /\ scan # 0
    /\ \/ halves = 0
       \/ halves = 1 /\ on_position = 1
       \/ halves >= 1 /\ on_position = 0 /\ ~OnTarget
    /\ UNCHANGED <<on_position, scan, legs>>

enc_onoff ==
    /\ Motor("EL_ONOFF", "drive")
    /\ track_by(onoff_offset)
    /\ \/ onoff_approach \/ onoff_first \/ onoff_leave_on \/ onoff_leave_off
       \/ onoff_arrive \/ onoff_wait
    /\ UNCHANGED <<scan_mode, scanning, nscans, offset, range, firsttime, turnaround,
                   start_to_stop, curr_pos, pos>>

\* The direction calculate_velocity_enc asks for.
v_req == CASE mode = "VEL"                      -> vel
           [] mode = "POS" /\ dest > curr_pos   -> 1
           [] mode = "POS" /\ dest < curr_pos   -> -1
           [] OTHER                             -> 0

\* The telescope follows at once, or it is held by inertia and friction.
drive(moves) ==
    /\ Motor("drive", "read")
    /\ on_target' = IF mode = "VEL" THEN on_target
                    ELSE IF dest = curr_pos THEN 1 ELSE 0
    /\ pos' = IF moves /\ pos + v_req \in Position THEN pos + v_req ELSE pos
    /\ UNCHANGED <<scan_mode, scanning, nscans, offset, on_position, range, sweep,
                   legs, mode, vel, dest, on_target_el, curr_pos>>

-----------------------------------------------------------------------------
(* Time and the sky *)

Clock == /\ halves < 2 /\ halves' = halves + 1
         /\ UNCHANGED <<scan_mode, scanning, nscans, offset, on_position, range,
                        sweep, on_to_off, off_to_off, top, axes, target, at,
                        curr_pos, pos, history>>

\* Targets rise and set.
Sky == /\ "sky" \in session.commands
       /\ target' \in session.targets /\ target' - target \in {-1, 1}
       /\ UNCHANGED <<scan_mode, scanning, nscans, offset, on_position, range,
                      sweep, legs, axes, at, curr_pos, pos, history>>

MotorStep == \/ read_motor_data \/ command_motor
             \/ do_enc_dither \/ track \/ enc_onoff \/ track_dither
             \/ \E moves \in BOOLEAN : drive(moves)

Next == \/ gotoenc \/ park \/ encdither \/ enctrack \/ enconoff \/ trackdither
        \/ stop_scan
        \/ MotorStep
        \/ Clock \/ Sky

Spec == Init /\ [][Next]_vars

\* The motor thread runs 200 times a second, time passes, and a drive that is
\* asked to move again and again does move.
FairSpec == /\ Spec
            /\ WF_vars(MotorStep) /\ WF_vars(Clock)
            /\ SF_vars(drive(TRUE))

-----------------------------------------------------------------------------
(* Properties *)

TypeOK ==
    /\ scan_mode \in Scans \cup {"NONE"}
    /\ scanning \in Flag /\ firsttime \in Flag /\ turnaround \in Flag
    /\ start_el \in Int /\ stop_el \in Int /\ start_to_stop \in {-1, 1}
    /\ scan \in 0 .. MaxScans /\ nscans \in 0 .. MaxScans
    /\ offset \in {0, Offset} /\ on_position \in {-1, 0, 1}
    /\ mode \in {"VEL", "POS"} /\ vel \in {-1, 0, 1} /\ dest \in Int
    /\ on_target \in Flag /\ on_target_el \in Flag
    /\ on_to_off \in {-1, 0, 1} /\ off_to_off \in Flag /\ top \in Flag
    /\ halves \in 0 .. 2
    /\ target \in Int
    /\ at \in Scans \cup {"read", "test", "drive"}
    /\ curr_pos \in Position /\ pos \in Position
    /\ session \in Sessions
    /\ asked \in Commands \cup {"none"} /\ clean \in Flag

\* A dither that has got to its start and sweeps.
Sweeping == scanning = 1 /\ scan_mode = "ENC_DITHER" /\ firsttime = 0

RangeLow  == Low(start_el, stop_el)
RangeHigh == High(start_el, stop_el)

\* do_enc_dither, started at rest and left alone, never takes the telescope more
\* than one step beyond the tolerance of its range, however the drive lags.
DitherInRange ==
    clean = 1 /\ Sweeping =>
        RangeLow - Tol - 1 <= pos /\ pos <= RangeHigh + Tol + 1

\* A sweep is counted only at the end it was heading for.
SweepsAreWhole ==
    [][clean = 1 /\ Sweeping /\ scan' = scan + 1 =>
         IF start_to_stop = 1 THEN curr_pos > RangeHigh + Tol
                              ELSE curr_pos < RangeLow - Tol]_vars

\* enc_onoff is on one leg of its cycle, through commands that interrupt and
\* resume it: while it integrates it heads for no other position, so that on
\* target the destination is the target, and from the upper off position it goes to the lower one.
OnOffLegs ==
    /\ on_position # 0 => on_to_off = 0 /\ off_to_off = 0
    /\ on_to_off = 1 => top = 1 /\ off_to_off = 0
    /\ off_to_off = 1 => top = 0 /\ on_to_off = 0

\* How far the sweep is from the end it left, and beyond the end it heads for.
Left   == IF start_to_stop = 1 THEN pos - RangeLow ELSE RangeHigh - pos
Beyond == IF start_to_stop = 1 THEN pos - RangeHigh ELSE RangeLow - pos

\* Where it can be before and after it has been seen inside the range.
SweepPart ==
    /\ turnaround = 1 => /\ -Tol - 1 <= Left /\ Left <= 1
                         /\ at = "drive" => Left <= 0
    /\ turnaround = 0 => /\ 0 < Left /\ Beyond <= Tol + 1
                         /\ at = "drive" => Beyond <= Tol

\* Past the sample the telescope is where it was sampled.
Sampled == at # "read" => curr_pos = pos

\* A clean dither is what the motor thread runs; while it sweeps, the velocity
\* is that of the sweep, and where the telescope can be depends on whether the
\* sweep has been seen inside the range.
DitherInv ==
    clean = 1 =>
      /\ at \in {"read", "test", "drive", "ENC_DITHER"}
      /\ at = "ENC_DITHER" => scanning = 1
      /\ scanning = 1 => scan_mode = "ENC_DITHER" /\ range \in Ranges
      /\ Sweeping =>
           mode = "VEL" /\ vel = start_to_stop /\ SweepPart

\* What every step preserves: the inductive invariant of ScanControlProofs.
IInv == TypeOK /\ Sampled /\ DitherInv /\ OnOffLegs

\* A dither started at rest makes its sweeps and ends by itself.
DitherEnds == (clean = 1 /\ scanning = 1) ~> (clean = 0 \/ scanning = 0)

\* "encdither: starts an encoder dither scan with the specified parameters": it
\* comes to its end unless another command comes first.
DitherRuns ==
    (asked = "encdither" /\ scanning = 1) ~> (asked # "encdither" \/ scanning = 0)

=============================================================================

------------------------- MODULE ScanControlProofs -------------------------
(* What the scans guarantee for all ranges, tolerances and limits. *)
EXTENDS ScanControl, TLAPS

\* The frames of the commands and of the motor thread.
USE DEF Command, StartScan, Motor, range, sweep, legs, axes, history

-----------------------------------------------------------------------------
(* The initial state *)

LEMMA InitIInv == Init => IInv
<1> SUFFICES ASSUME Init PROVE IInv  OBVIOUS
<1>1. TypeOK
  BY ScanAssumption, SMT DEF Init, TypeOK, Scans, Flag, Commands, Position
<1>2. Sampled /\ DitherInv /\ OnOffLegs
  BY DEF Init, Sampled, DitherInv, OnOffLegs
<1> QED  BY <1>1, <1>2 DEF IInv

-----------------------------------------------------------------------------
(* The commands *)

\* The commands but encdither end the guarantee of a dither and leave the legs
\* of enc_onoff as they are.
LEMMA OtherCommands ==
    ASSUME IInv, gotoenc \/ park \/ enctrack \/ enconoff \/ trackdither \/ stop_scan
    PROVE  IInv'
<1>1. TypeOK'
  <2> USE ScanAssumption DEF IInv, TypeOK, Flag, Scans, Commands
  <2>1. CASE gotoenc      BY <2>1, SMT DEF gotoenc, go_to_enc
  <2>2. CASE park         BY <2>2, SMT DEF park, go_to_enc
  <2>3. CASE enctrack     BY <2>3, SMT DEF enctrack
  <2>4. CASE enconoff     BY <2>4, SMT DEF enconoff
  <2>5. CASE trackdither  BY <2>5, SMT DEF trackdither
  <2>6. CASE stop_scan    BY <2>6, SMT DEF stop_scan
  <2> QED  BY <2>1, <2>2, <2>3, <2>4, <2>5, <2>6
<1>2. Sampled' /\ DitherInv'
  BY DEF IInv, Sampled, DitherInv, gotoenc, park, enctrack, enconoff, trackdither, stop_scan
<1>3. on_position' \in {on_position, 0} /\ UNCHANGED <<on_to_off, off_to_off, top>>
  BY DEF gotoenc, park, enctrack, enconoff, trackdither, stop_scan
<1>4. OnOffLegs'
  BY <1>3, SMT DEF IInv, OnOffLegs
<1> QED  BY <1>1, <1>2, <1>4 DEF IInv

LEMMA Encdither == ASSUME IInv, encdither PROVE IInv'
<1>0. PICK r \in Ranges : start_el' = r[1] /\ stop_el' = r[2]
  BY DEF encdither
<1>1. TypeOK'
  BY <1>0, ScanAssumption, SMT DEF encdither, IInv, TypeOK, Commands, Flag, Scans
<1>2. range' \in Ranges
  <2>1. r = <<r[1], r[2]>>  BY ScanAssumption
  <2> QED  BY <2>1, <1>0
<1>3. clean' = 1 => at' \notin Scans /\ firsttime' = 1
  BY DEF encdither
<1>4. DitherInv'
  BY <1>1, <1>2, <1>3 DEF encdither, DitherInv, Sweeping, TypeOK, Scans
<1>5. Sampled' /\ OnOffLegs'
  BY DEF encdither, IInv, Sampled, OnOffLegs
<1> QED  BY <1>1, <1>4, <1>5 DEF IInv

-----------------------------------------------------------------------------
(* The dither *)

\* The two ends of a range of encdither.
LEMMA RangeEnds ==
    ASSUME range \in Ranges
    PROVE  /\ start_el \in Int /\ stop_el \in Int
           /\ RangeLow \in Int /\ RangeHigh \in Int
           /\ RangeHigh - RangeLow >= 2
<1>1. start_el \in Int /\ stop_el \in Int
      /\ (start_el - stop_el >= 2 \/ stop_el - start_el >= 2)
  BY ScanAssumption
<1> QED  BY <1>1, SMT DEF RangeLow, RangeHigh, Low, High

\* One iteration of the dither, type by type.
LEMMA DitherTypes ==
    ASSUME IInv, NEW a \in Int, NEW b \in Int, dither(a, b)
    PROVE  /\ scan_mode' \in Scans \cup {"NONE"}
           /\ scanning' \in Flag /\ firsttime' \in Flag /\ turnaround' \in Flag
           /\ start_to_stop' \in {-1, 1} /\ scan' \in 0 .. MaxScans
           /\ mode' \in {"VEL", "POS"} /\ vel' \in {-1, 0, 1} /\ dest' \in Int
           /\ on_target' = on_target /\ on_target_el' = on_target_el
<1> USE ScanAssumption DEF IInv, TypeOK, Flag, Scans
<1>1. CASE dither_approach(a, b)
  BY <1>1, SMT DEF dither_approach, go_to_enc
<1>2. CASE dither_begin(a, b)
  BY <1>2, SMT DEF dither_begin
<1>3. CASE dither_turn(a, b)
  BY <1>3, SMT DEF dither_turn, sweep_on, dither_end, nextscan
<1>4. CASE dither_go_on(a, b)
  BY <1>4, SMT DEF dither_go_on, sweep_on, dither_end
<1> QED  BY <1>1, <1>2, <1>3, <1>4 DEF dither

\* The heart of the argument: the iteration keeps the sweep on its part of the
\* way, because it turns at the first sample beyond the tolerance.
LEMMA SweepStep ==
    ASSUME IInv, do_enc_dither, clean = 1, Sweeping'
    PROVE  mode' = "VEL" /\ vel' = start_to_stop' /\ SweepPart'
<1>1. /\ at = "ENC_DITHER" /\ at' = "drive" /\ scanning = 1 /\ range \in Ranges
      /\ scan_mode = "ENC_DITHER" /\ curr_pos = pos /\ UNCHANGED <<pos, range>>
  BY DEF do_enc_dither, IInv, DitherInv, Sampled
<1>2. /\ start_el \in Int /\ stop_el \in Int /\ pos \in Int /\ curr_pos \in Int
      /\ RangeLow \in Int /\ RangeHigh \in Int /\ RangeHigh - RangeLow >= 2
      /\ RangeLow' = RangeLow /\ RangeHigh' = RangeHigh
      /\ RangeLow = Low(start_el, stop_el) /\ RangeHigh = High(start_el, stop_el)
      /\ Tol \in Nat /\ turnaround \in {0, 1} /\ start_to_stop \in {-1, 1}
  BY <1>1, RangeEnds, ScanAssumption
     DEF IInv, TypeOK, Position, RangeLow, RangeHigh, Flag
<1>3. CASE dither_begin(start_el, stop_el)
  BY <1>1, <1>2, <1>3, SMT
     DEF dither_begin, AtStart, SweepPart, Left, Beyond, RangeLow, RangeHigh, Low, High
<1>4. ASSUME firsttime = 0
      PROVE  mode = "VEL" /\ vel = start_to_stop /\ SweepPart
  BY <1>1, <1>4 DEF IInv, DitherInv, Sweeping
<1>5. CASE dither_turn(start_el, stop_el)
  <2>1. firsttime = 0 /\ mode' = "VEL" /\ vel' = start_to_stop'
    BY <1>4, <1>5 DEF dither_turn, sweep_on, dither_end, Sweeping
  <2>2. /\ turnaround = 0 /\ start_to_stop' = -start_to_stop /\ turnaround' = 1
        /\ pos > RangeHigh + Tol \/ pos < RangeLow - Tol
    BY <1>1, <1>2, <1>5 DEF dither_turn, Outside
  <2> QED  BY <1>1, <1>2, <1>4, <2>1, <2>2, SMT DEF SweepPart, Left, Beyond
<1>6. CASE dither_go_on(start_el, stop_el)
  <2>1. firsttime = 0 /\ mode' = "VEL" /\ vel' = start_to_stop'
    BY <1>4, <1>6 DEF dither_go_on, sweep_on, dither_end, Sweeping
  <2>2. /\ start_to_stop' = start_to_stop
        /\ ~((pos > RangeHigh + Tol \/ pos < RangeLow - Tol) /\ turnaround = 0)
        /\ turnaround' = IF ~(pos > RangeHigh + Tol \/ pos < RangeLow - Tol)
                            /\ RangeLow < pos /\ pos < RangeHigh
                         THEN 0 ELSE turnaround
    BY <1>1, <1>2, <1>6 DEF dither_go_on, Outside, Inside
  <2> QED  BY <1>1, <1>2, <1>4, <2>1, <2>2, SMT DEF SweepPart, Left, Beyond
<1>7. CASE dither_approach(start_el, stop_el)
  BY <1>7 DEF dither_approach, Sweeping
<1> QED  BY <1>3, <1>5, <1>6, <1>7 DEF do_enc_dither, dither

LEMMA DoEncDither == ASSUME IInv, do_enc_dither PROVE IInv'
<1>1. TypeOK'
  <2>1. start_el \in Int /\ stop_el \in Int  BY DEF IInv, TypeOK
  <2>2. dither(start_el, stop_el)  BY DEF do_enc_dither
  <2> QED  BY <2>1, <2>2, DitherTypes, SMT DEF do_enc_dither, IInv, TypeOK
<1>2. Sampled' /\ OnOffLegs'
  BY DEF do_enc_dither, IInv, Sampled, OnOffLegs
<1>3. ASSUME clean' = 1
      PROVE  /\ at' = "drive" /\ clean = 1
             /\ scanning' = 1 => scan_mode' = "ENC_DITHER" /\ range' \in Ranges
  <2>1. scanning' = 1 => UNCHANGED <<scan_mode, scanning>>
    BY DEF do_enc_dither, dither, dither_approach, dither_begin, dither_turn,
           dither_go_on, sweep_on, dither_end
  <2> QED  BY <1>3, <2>1 DEF do_enc_dither, IInv, DitherInv
<1>4. DitherInv'
  BY <1>3, SweepStep DEF DitherInv
<1> QED  BY <1>1, <1>2, <1>4 DEF IInv

-----------------------------------------------------------------------------
(* The rest of the iteration *)

LEMMA ReadAndTest == ASSUME IInv, read_motor_data \/ command_motor PROVE IInv'
<1>1. TypeOK'
  BY SMT DEF read_motor_data, command_motor, IInv, TypeOK, Scans
<1>2. Sampled' /\ OnOffLegs'
  BY DEF read_motor_data, command_motor, IInv, Sampled, OnOffLegs
<1>3. /\ UNCHANGED <<clean, scanning, scan_mode, range, firsttime, mode, vel,
                    start_to_stop, turnaround, pos>>
      /\ at \in {"read", "test"} /\ at' # "read"
      /\ at' = "drive" => at = "test" /\ ~(scanning = 1 /\ scan_mode \in Scans)
      /\ at' \in Scans => scanning = 1 /\ at' = scan_mode
      /\ at' \in {"test", "drive"} \cup Scans
  BY DEF read_motor_data, command_motor, IInv, TypeOK, Scans
<1>4. DitherInv'
  <2> SUFFICES ASSUME clean = 1 PROVE DitherInv'
    BY <1>3 DEF DitherInv
  <2>1. /\ scanning = 1 => scan_mode = "ENC_DITHER" /\ range \in Ranges
        /\ Sweeping =>
             mode = "VEL" /\ vel = start_to_stop /\ SweepPart
    BY DEF IInv, DitherInv
  <2>2. scanning = 1 => at' # "drive"
    BY <1>3, <2>1 DEF Scans
  <2>3. at' \in {"read", "test", "drive", "ENC_DITHER"} /\ (at' = "ENC_DITHER" => scanning = 1)
    BY <1>3, <2>1 DEF Scans
  <2>4. Sweeping' = Sweeping /\ RangeLow' = RangeLow /\ RangeHigh' = RangeHigh
    BY <1>3 DEF Sweeping, RangeLow, RangeHigh
  <2>5. Sweeping' => SweepPart'
    BY <1>3, <2>1, <2>2, <2>4 DEF SweepPart, Left, Beyond, Sweeping
  <2> QED  BY <1>3, <2>1, <2>3, <2>4, <2>5 DEF DitherInv
<1> QED  BY <1>1, <1>2, <1>4 DEF IInv

LEMMA OtherScans == ASSUME IInv, track \/ track_dither PROVE IInv'
<1>0. clean # 1
  BY DEF track, track_dither, IInv, DitherInv
<1>1. TypeOK'
  <2>1. CASE track
    BY <2>1, ScanAssumption, SMT DEF track, track_by, tracked, IInv, TypeOK, Flag, Scans
  <2>2. CASE track_dither
    <3>1. start_el' \in Int /\ stop_el' \in Int
      BY <2>2, ScanAssumption DEF track_dither, IInv, TypeOK
    <3>2. CASE dither(start_el', stop_el')
      BY <2>2, <3>1, <3>2, DitherTypes, SMT DEF track_dither, IInv, TypeOK
    <3>3. CASE ~dither(start_el', stop_el')
      BY <2>2, <3>1, <3>3, ScanAssumption, SMT
         DEF track_dither, dither_end, IInv, TypeOK, Flag, Scans
    <3> QED  BY <3>2, <3>3
  <2> QED  BY <2>1, <2>2
<1>2. Sampled' /\ OnOffLegs'
  BY DEF track, track_dither, IInv, Sampled, OnOffLegs
<1>3. DitherInv'
  BY <1>0 DEF track, track_dither, DitherInv
<1> QED  BY <1>1, <1>2, <1>3 DEF IInv

LEMMA OnOff == ASSUME IInv, enc_onoff PROVE IInv'
<1>0. clean # 1
  BY DEF enc_onoff, IInv, DitherInv
<1>1. onoff_offset \in Int
  BY ScanAssumption, SMT DEF onoff_offset, IInv, TypeOK
<1>2. dest' \in Int /\ mode' = "POS" /\ on_target' \in Flag /\ on_target_el' \in Flag
      /\ vel' = vel
  BY <1>1, ScanAssumption, SMT DEF enc_onoff, track_by, tracked, IInv, TypeOK, Flag
<1>3. /\ on_position' \in {-1, 0, 1} /\ on_to_off' \in {-1, 0, 1}
      /\ off_to_off' \in Flag /\ top' \in Flag /\ halves' \in 0 .. 2
      /\ scan' \in 0 .. MaxScans
  BY ScanAssumption, SMT
     DEF enc_onoff, onoff_approach, onoff_first, onoff_leave_off, onoff_leave_on,
         onoff_arrive, onoff_wait, nextscan, IInv, TypeOK, Flag
<1>4. TypeOK'
  BY <1>2, <1>3, SMT DEF enc_onoff, IInv, TypeOK, Scans
<1>5. OnOffLegs'
  BY SMT DEF enc_onoff, onoff_approach, onoff_first, onoff_leave_off, onoff_leave_on,
         onoff_arrive, onoff_wait, IInv, TypeOK, Flag, OnOffLegs
<1>6. Sampled' /\ DitherInv'
  BY <1>0 DEF enc_onoff, IInv, Sampled, DitherInv
<1> QED  BY <1>4, <1>5, <1>6 DEF IInv

LEMMA Drive == ASSUME IInv, NEW moves \in BOOLEAN, drive(moves) PROVE IInv'
<1>1. v_req \in {-1, 0, 1} /\ (mode = "VEL" => v_req = vel)
  BY DEF v_req, IInv, TypeOK
<1>2. pos' \in Position /\ (pos' = pos \/ pos' = pos + v_req)
  BY DEF drive, IInv, TypeOK
<1>3. TypeOK'
  BY <1>2, SMT DEF drive, IInv, TypeOK, Flag, Scans
<1>4. Sampled' /\ OnOffLegs'
  BY DEF drive, IInv, Sampled, OnOffLegs
<1>5. DitherInv'
  <2> SUFFICES ASSUME clean = 1 PROVE DitherInv'
    BY DEF drive, DitherInv
  <2>1. at = "drive" /\ at' = "read"
        /\ UNCHANGED <<clean, scanning, scan_mode, range, firsttime, mode, vel,
                       start_to_stop, turnaround>>
    BY DEF drive
  <2>2. /\ scanning = 1 => scan_mode = "ENC_DITHER" /\ range \in Ranges
        /\ Sweeping =>
             mode = "VEL" /\ vel = start_to_stop /\ SweepPart
    BY DEF IInv, DitherInv
  <2>3. Sweeping' = Sweeping /\ RangeLow' = RangeLow /\ RangeHigh' = RangeHigh
    BY <2>1 DEF Sweeping, RangeLow, RangeHigh
  <2>4. ASSUME Sweeping PROVE SweepPart'
    <3>1. /\ RangeLow \in Int /\ RangeHigh \in Int /\ RangeHigh - RangeLow >= 2
          /\ pos \in Int /\ pos' \in Int /\ Tol \in Nat
          /\ start_to_stop \in {-1, 1} /\ turnaround \in {0, 1}
      BY <2>2, <2>4, <1>2, RangeEnds, ScanAssumption
         DEF Sweeping, IInv, TypeOK, Position, Flag
    <3>2. mode = "VEL" /\ vel = start_to_stop /\ SweepPart  BY <2>2, <2>4
    <3>3. pos' = pos \/ pos' = pos + start_to_stop
      <4>1. v_req = start_to_stop  BY <1>1, <3>2
      <4> QED  BY <1>2, <4>1
    <3>4. /\ at = "drive" /\ at' = "read"
          /\ turnaround' = turnaround /\ start_to_stop' = start_to_stop
          /\ RangeLow' = RangeLow /\ RangeHigh' = RangeHigh
      BY <2>1, <2>3
    <3>5. Left \in Int /\ Beyond \in Int /\ Beyond < Left
      BY <3>1, SMT DEF Left, Beyond
    <3>6. /\ Left' = IF start_to_stop = 1 THEN pos' - RangeLow ELSE RangeHigh - pos'
          /\ Beyond' = IF start_to_stop = 1 THEN pos' - RangeHigh ELSE RangeLow - pos'
      BY <3>4 DEF Left, Beyond
    <3>7. \/ Left' = Left /\ Beyond' = Beyond
          \/ Left' = Left + 1 /\ Beyond' = Beyond + 1
      BY <3>1, <3>3, <3>6, SMT DEF Left, Beyond
    <3> QED  BY <3>1, <3>2, <3>4, <3>5, <3>7, SMT DEF SweepPart
  <2> QED  BY <2>1, <2>2, <2>3, <2>4 DEF DitherInv
<1> QED  BY <1>3, <1>4, <1>5 DEF IInv

LEMMA TimeAndSky == ASSUME IInv, Clock \/ Sky PROVE IInv'
<1>1. TypeOK'
  <2>1. CASE Clock  BY <2>1, SMT DEF Clock, IInv, TypeOK
  <2>2. CASE Sky
    <3>0. session.targets \subseteq Int  BY ScanAssumption DEF IInv, TypeOK
    <3>1. target' \in Int  BY <2>2, <3>0 DEF Sky
    <3> QED  BY <2>2, <3>1 DEF Sky, IInv, TypeOK
  <2> QED  BY <2>1, <2>2
<1>2. Sampled' /\ OnOffLegs'
  BY DEF Clock, Sky, IInv, Sampled, OnOffLegs
<1>3. DitherInv'
  BY DEF Clock, Sky, IInv, DitherInv, Sweeping, SweepPart, Left, Beyond, RangeLow, RangeHigh
<1> QED  BY <1>1, <1>2, <1>3 DEF IInv

-----------------------------------------------------------------------------
(* The theorems *)

LEMMA NextIInv == IInv /\ [Next]_vars => IInv'
<1> SUFFICES ASSUME IInv, [Next]_vars PROVE IInv'  OBVIOUS
<1>1. CASE UNCHANGED vars
  <2>1. TypeOK' /\ Sampled' /\ OnOffLegs'
    BY <1>1 DEF vars, IInv, TypeOK, Sampled, OnOffLegs
  <2>2. DitherInv'
    BY <1>1 DEF vars, IInv, DitherInv, Sweeping, SweepPart, Left, Beyond, RangeLow, RangeHigh
  <2> QED  BY <2>1, <2>2 DEF IInv
<1>2. CASE Next
  BY <1>2, OtherCommands, Encdither, DoEncDither, ReadAndTest, OtherScans, OnOff,
     Drive, TimeAndSky DEF Next, MotorStep
<1> QED  BY <1>1, <1>2

\* Every reachable state of the scans satisfies the inductive invariant.
THEOREM Invariance == Spec => []IInv
  BY InitIInv, NextIInv, PTL DEF Spec

\* A clean dither stays within its range and the tolerance, plus one step.
THEOREM DithersStay == Spec => []DitherInRange
<1>1. IInv => DitherInRange
  <2> SUFFICES ASSUME IInv, clean = 1, Sweeping
               PROVE  RangeLow - Tol - 1 <= pos /\ pos <= RangeHigh + Tol + 1
    BY DEF DitherInRange
  <2>1. /\ RangeLow \in Int /\ RangeHigh \in Int /\ RangeHigh - RangeLow >= 2
        /\ pos \in Int /\ Tol \in Nat
        /\ start_to_stop \in {-1, 1} /\ turnaround \in {0, 1}
    BY RangeEnds, ScanAssumption DEF IInv, DitherInv, Sweeping, TypeOK, Position, Flag
  <2>2. SweepPart
    BY DEF IInv, DitherInv
  <2> QED  BY <2>1, <2>2, SMT DEF SweepPart, Left, Beyond
<1> QED  BY <1>1, Invariance, PTL

\* enc_onoff is always on one leg of its cycle.
THEOREM OneLeg == Spec => []OnOffLegs
<1>1. IInv => OnOffLegs  BY DEF IInv
<1> QED  BY <1>1, Invariance, PTL

\* The scans of a clean dither are counted at alternate ends of the range.
THEOREM WholeSweeps == Spec => SweepsAreWhole
<1> DEFINE Whole == clean = 1 /\ Sweeping /\ scan' = scan + 1 =>
                       IF start_to_stop = 1 THEN curr_pos > RangeHigh + Tol
                                            ELSE curr_pos < RangeLow - Tol
<1>1. IInv /\ [Next]_vars => [Whole]_vars
  <2> SUFFICES ASSUME IInv, Next, clean = 1, Sweeping, scan' = scan + 1
               PROVE  Whole
    BY DEF Whole
  <2>1. scan \in Int /\ scan' # scan /\ scan' # 0
    BY SMT DEF IInv, TypeOK
  <2>2. at \in {"read", "test", "drive", "ENC_DITHER"} /\ range \in Ranges
    BY DEF IInv, DitherInv, Sweeping
  <2>3. do_enc_dither
    BY <2>1, <2>2 DEF Next, MotorStep, gotoenc, park, encdither, enctrack, enconoff,
       trackdither, stop_scan, read_motor_data, command_motor, track, track_dither,
       enc_onoff, drive, Clock, Sky
  <2>4. dither_turn(start_el, stop_el)
    BY <2>1, <2>3 DEF do_enc_dither, dither, dither_approach, dither_begin,
       dither_go_on, sweep_on, dither_end
  <2>5. turnaround = 0 /\ (curr_pos > RangeHigh + Tol \/ curr_pos < RangeLow - Tol)
    BY <2>4 DEF dither_turn, Outside, RangeLow, RangeHigh
  <2>6. /\ RangeLow \in Int /\ RangeHigh \in Int /\ RangeHigh - RangeLow >= 2
        /\ pos \in Int /\ curr_pos = pos /\ Tol \in Nat /\ start_to_stop \in {-1, 1}
    BY <2>2, <2>3, RangeEnds, ScanAssumption DEF do_enc_dither, IInv, Sampled, TypeOK, Position
  <2>7. SweepPart
    BY DEF IInv, DitherInv
  <2> QED  BY <2>5, <2>6, <2>7, SMT DEF SweepPart, Left, Beyond
<1> QED  BY <1>1, Invariance, PTL DEF Spec, SweepsAreWhole, Whole

=============================================================================

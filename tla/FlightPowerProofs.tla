-------------------------- MODULE FlightPowerProofs --------------------------
(***************************************************************************)
(* The flight system is an instance of the open specification SagPower, for *)
(* any sessions and configurations, and so the theorems about Saggitarius   *)
(* hold for it.  Those about Ophiuchus hold for it too: beside restarts, the *)
(* other computer does to Ophiuchus only what RemoteToggles says.           *)
(***************************************************************************)
EXTENDS FlightPower, OphPowerProofs

\* The theorems of SagPower, with the devices of Ophiuchus in the place of Others.
Theorems == INSTANCE SagPowerProofs WITH Others <- Device

-----------------------------------------------------------------------------
\* Both computers speak of the same relays.
LEMMA SameRelays == /\ Relay = Sag!SagRelay /\ Remote = Sag!SagDevice
                    /\ Device \ Sag!SagDevice = Device
BY OphPowerAssumption, FlightAssumption DEF Relay, Sag!SagRelay

\* What the main thread of Ophiuchus does to the boxes.
Harmless == \/ UNCHANGED power
            \/ \E R \in SUBSET Device : Boxes!Request(R)
            \/ Boxes!AskShutdown

LEMMA CommandsAreHarmless ==
    ASSUME Commands
    PROVE  \/ Harmless /\ main' # "aborted"
           \/ UNCHANGED power
<1>1. CASE receiver_start \/ receiver_stop
  BY <1>1 DEF receiver_start, receiver_stop, set_toggle, Harmless, Device
<1>2. CASE bvexcam_start \/ bvexcam_start_Fails
  BY <1>2 DEF bvexcam_start, bvexcam_start_Fails, set_toggle, Harmless, Device
<1>3. CASE bvexcam_stop
  BY <1>3 DEF bvexcam_stop, set_toggle, no_toggle, Harmless, Device
<1>4. CASE motor_start \/ motor_stop
  BY <1>4 DEF motor_start, motor_stop, set_toggle, no_toggle, Harmless, Device
<1>5. CASE lockpin_start \/ lockpin_stop
  BY <1>5 DEF lockpin_start, lockpin_stop, set_toggle, Harmless, Device
<1>6. CASE cmd_housekeeping_on \/ cmd_housekeeping_off
  BY <1>6 DEF cmd_housekeeping_on, cmd_housekeeping_off, set_toggle, no_toggle, Harmless, Device
<1>7. CASE bvexcam_start_Exits \/ bvexcam_stop_Crashes \/ motor_stop_Crashes
           \/ lockpin_start_Exits \/ cmd_housekeeping_off_Crashes \/ exit_both
           \/ housekeeping_thread_Crashes
  BY <1>7 DEF bvexcam_start_Exits, bvexcam_stop_Crashes, motor_stop_Crashes,
     lockpin_start_Exits, cmd_housekeeping_off_Crashes, exit_both, housekeeping_thread_Crashes,
     abort, no_toggle
<1> QED BY <1>1, <1>2, <1>3, <1>4, <1>5, <1>6, <1>7 DEF Commands

LEMMA ShutdownIsHarmless ==
    ASSUME Shutdown
    PROVE  \/ Harmless /\ main' # "aborted"
           \/ UNCHANGED power
<1>1. CASE shutdown_receiver \/ shutdown_bvexcam \/ shutdown_lockpin
  BY <1>1 DEF shutdown_receiver, shutdown_bvexcam, shutdown_lockpin, set_toggle, no_toggle,
     Harmless, Device
<1>2. CASE shutdown_motor
  BY <1>2 DEF shutdown_motor, abort, set_toggle, no_toggle, Harmless, Device
<1>3. CASE shutdown_housekeeping \/ join_pbob
  BY <1>3 DEF shutdown_housekeeping, join_pbob, abort, no_toggle
<1>4. CASE shutdown_pbob
  BY <1>4 DEF shutdown_pbob, Harmless
<1> QED BY <1>1, <1>2, <1>3, <1>4 DEF Shutdown

\* For Saggitarius, a step of the main thread is a toggle of others, the question
\* for the shutdown, a crash of the boxes or nothing.
LEMMA OphiuchusStep == ASSUME Ophiuchus PROVE [Sag!SagNext]_(Sag!sag_vars)
<1>1. \/ Harmless /\ main' # "aborted"
      \/ UNCHANGED power
  BY CommandsAreHarmless, ShutdownIsHarmless DEF Ophiuchus
<1>2. CASE main # "aborted" /\ main' = "aborted"
  <2>1. UNCHANGED power
    BY <1>1, <1>2
  <2>2. Sag!Unnoticed({d \in Sag!SagDevice : request[d]})
    BY <1>2, SameRelays DEF Ophiuchus, pending
  <2>3. Sag!BoxesCrash
    BY <2>1, <2>2 DEF Sag!BoxesCrash, Sag!boxes, power
  <2> QED BY <2>3 DEF Sag!SagNext
<1>3. CASE ~(main # "aborted" /\ main' = "aborted")
  <2>1. UNCHANGED sag
    BY <1>3 DEF Ophiuchus
  <2>2. UNCHANGED Sag!sag
    BY <2>1 DEF sag, Sag!sag, Sag!exchange, Sag!history
  <2>3. CASE UNCHANGED power
    BY <2>2, <2>3 DEF Sag!sag_vars, Sag!boxes, power
  <2>4. CASE Boxes!AskShutdown
    BY <2>2, <2>4 DEF Boxes!AskShutdown, Sag!SagBoxes!AskShutdown, Sag!AskShutdown, Sag!SagNext
  <2>5. CASE \E R \in SUBSET Device : Boxes!Request(R)
    <3>1. PICK R \in SUBSET Device : Boxes!Request(R)
      BY <2>5
    <3>2. Sag!SagBoxes!Request(R)
      BY <3>1, SameRelays DEF Boxes!Request, Sag!SagBoxes!Request
    <3>3. Sag!Unnoticed({})
      BY <2>1 DEF sag, Sag!Unnoticed, Sag!Doubt, Sag!exchange
    <3> QED BY <3>1, <3>2, <3>3, SameRelays DEF Sag!OthersToggle, Sag!SagNext
  <2> QED BY <1>1, <2>3, <2>4, <2>5 DEF Harmless
<1> QED BY <1>2, <1>3

LEMMA BoxesStep == ASSUME Flip \/ Refuse \/ End \/ OphRestart PROVE Sag!SagNext
<1>1. CASE Flip
  <2>1. PICK r \in Relay : Boxes!Apply(r)
    BY <1>1 DEF Flip, BoxFlips
  <2>2. Sag!SagBoxes!Apply(r)
    BY <2>1 DEF Boxes!Apply, Sag!SagBoxes!Apply
  <2>3. UNCHANGED Sag!sag
    BY <1>1 DEF Flip, sag, Sag!sag, Sag!exchange, Sag!history
  <2> QED BY <2>1, <2>2, <2>3, SameRelays DEF Sag!BoxFlips, Sag!SagNext
<1>2. CASE Refuse
  BY <1>2, SameRelays DEF Refuse, Sag!SagNext
<1>3. CASE End \/ OphRestart
  BY <1>3 DEF End, OphRestart, Sag!SagNext
<1> QED BY <1>1, <1>2, <1>3

-----------------------------------------------------------------------------
\* For Saggitarius, the power boxes with Ophiuchus behind them, which crashes, ends
\* and starts again, are the boxes SagPower speaks of (main_Oph.c, pbob.c).
THEOREM FlightImplements == FlightSpec => SagSpec
<1>1. FlightInit => Sag!SagBoxes!Init /\ Sag!SagInit
  BY SameRelays DEF FlightInit, Init, Boxes!Init, Sag!SagBoxes!Init
<1>2. [FlightNext]_flight => [Sag!SagNext]_(Sag!sag_vars)
  <2> SUFFICES ASSUME [FlightNext]_flight PROVE [Sag!SagNext]_(Sag!sag_vars)
    OBVIOUS
  <2>1. CASE Ophiuchus
    BY <2>1, OphiuchusStep
  <2>2. CASE Saggitarius \/ Answer
    BY <2>2 DEF Saggitarius, Answer, Sag!SagNext
  <2>3. CASE Flip \/ Refuse \/ End \/ OphRestart
    BY <2>3, BoxesStep
  <2>4. CASE UNCHANGED flight
    BY <2>4 DEF flight, vars, power, sag, Sag!sag_vars, Sag!sag, Sag!boxes, Sag!exchange,
       Sag!history
  <2> QED BY <2>1, <2>2, <2>3, <2>4 DEF FlightNext, Idle
<1> QED BY <1>1, <1>2, PTL DEF FlightSpec, SagSpec, Sag!SagSpec

-----------------------------------------------------------------------------
\* The module of the theorems speaks of the same system and the same properties.
LEMMA SameSystem ==
    /\ Sag!SagBoxes!Init /\ Sag!SagInit <=> Theorems!SagBoxes!Init /\ Theorems!SagInit
    /\ [Sag!SagNext]_(Sag!sag_vars) <=> [Theorems!SagNext]_(Theorems!sag_vars)
BY DEF Sag!SagBoxes!Init, Theorems!SagBoxes!Init, Sag!SagInit, Theorems!SagInit,
     Sag!PowerCommands, Sag!rfsoc_on, Sag!rfsoc_off, Sag!start_gps, Sag!stop_gps,
     Sag!start_backend, Sag!stop_backend, Sag!position_box_on, Sag!position_box_off,
     Sag!start_heater_box, Sag!start_timing_chain, Sag!stop_timing_chain,
     Sag!SagNext, Sag!Own, Sag!Commands, Sag!Continues, Sag!Server, Sag!PowerOn, 
     Sag!PowerOff, Sag!start_heaters, Sag!stop_heaters, Sag!exit_both, Sag!PowerDownNext, 
     Sag!ExitDone, Sag!Returned, Sag!Answered, Sag!Unanswered, Sag!Serve, Sag!ServeLate, 
     Sag!HeatersRun, Sag!HeatersFail, Sag!Restart, Sag!BoxFlips, Sag!BoxRefuses, 
     Sag!OthersToggle, Sag!AskShutdown, Sag!BoxesEnd, Sag!BoxesCrash, Sag!BoxesStart, 
     Sag!Unnoticed, Sag!Ask, Sag!Doubt, Sag!Level, Sag!Noted, Sag!Counted, Sag!boxes, 
     Sag!exchange, Sag!history, Sag!sag, Sag!sag_vars, Sag!SagDevice, Sag!SagRelay, 
     Sag!PowerDown,
     Theorems!PowerCommands, Theorems!rfsoc_on, Theorems!rfsoc_off, Theorems!start_gps,
     Theorems!stop_gps, Theorems!start_backend, Theorems!stop_backend,
     Theorems!position_box_on, Theorems!position_box_off, Theorems!start_heater_box,
     Theorems!start_timing_chain, Theorems!stop_timing_chain,
     Theorems!SagNext, Theorems!Own, Theorems!Commands, Theorems!Continues, 
     Theorems!Server, Theorems!PowerOn, Theorems!PowerOff, Theorems!start_heaters, 
     Theorems!stop_heaters, Theorems!exit_both, Theorems!PowerDownNext, Theorems!ExitDone, 
     Theorems!Returned, Theorems!Answered, Theorems!Unanswered, Theorems!Serve, 
     Theorems!ServeLate, Theorems!HeatersRun, Theorems!HeatersFail, Theorems!Restart, 
     Theorems!BoxFlips, Theorems!BoxRefuses, Theorems!OthersToggle, Theorems!AskShutdown, 
     Theorems!BoxesEnd, Theorems!BoxesCrash, Theorems!BoxesStart, Theorems!Unnoticed, 
     Theorems!Ask, Theorems!Doubt, Theorems!Level, Theorems!Noted, Theorems!Counted, 
     Theorems!boxes, Theorems!exchange, Theorems!history, Theorems!sag, Theorems!sag_vars, 
     Theorems!SagDevice, Theorems!SagRelay, Theorems!PowerDown, Sag!SagBoxes!Request, 
     Sag!SagBoxes!Apply, Sag!SagBoxes!Drop, Sag!SagBoxes!AskShutdown, Sag!SagBoxes!Finish, 
     Theorems!SagBoxes!Request, Theorems!SagBoxes!Apply, Theorems!SagBoxes!Drop, 
     Theorems!SagBoxes!AskShutdown, Theorems!SagBoxes!Finish

LEMMA SameProperties ==
    /\ Sag!SagFlagsTellPower <=> Theorems!SagFlagsTellPower
    /\ Sag!SagExitSwitchesOff <=> Theorems!SagExitSwitchesOff
    /\ Sag!SagIInv <=> Theorems!SagIInv
BY DEF Sag!SagIInv, Theorems!SagIInv, Sag!SagTypeOK, Theorems!SagTypeOK,
     Sag!SagBoxes!TypeOK, Theorems!SagBoxes!TypeOK, Sag!SagRelay, Theorems!SagRelay,
     Sag!ExchangeOK, Theorems!ExchangeOK, Sag!PowerDownOK, Theorems!PowerDownOK,
     Sag!PowerDown, Theorems!PowerDown,
      Sag!SagFlagsTellPower, Theorems!SagFlagsTellPower, Sag!SagExitSwitchesOff,
     Theorems!SagExitSwitchesOff, Sag!Level, Theorems!Level, Sag!Counted, Theorems!Counted,
     Sag!Noted, Theorems!Noted, Sag!SagDevice, Theorems!SagDevice

\* Whatever both computers do, crash and start again, a flag of Saggitarius tells
\* what the relay is or will be, unless the device is in doubt (cli_Sag.c).
THEOREM FlightFlagsAreRight == FlightSpec => []SagFlagsTellPower
<1>1. Theorems!SagSpec => []Theorems!SagFlagsTellPower
  BY Theorems!SagFlagsAreRight
<1> QED BY <1>1, FlightImplements, SameSystem, SameProperties, PTL
        DEF SagSpec, Sag!SagSpec, Theorems!SagSpec, SagFlagsTellPower

\* The exit of Saggitarius leaves nothing on that it reached, but for a heater box
\* that stop_heaters has toggled, whatever Ophiuchus does (cli_Sag.c).
THEOREM FlightExitIsOff == FlightSpec => []SagExitSwitchesOff
<1>1. Theorems!SagSpec => []Theorems!SagExitSwitchesOff
  BY Theorems!SagExitIsOff
<1> QED BY <1>1, FlightImplements, SameSystem, SameProperties, PTL
        DEF SagSpec, Sag!SagSpec, Theorems!SagSpec, SagExitSwitchesOff
-----------------------------------------------------------------------------
(* Ophiuchus in the flight system *)

LEMMA OwnLeavesBoxes == Sag!Own => UNCHANGED power
BY DEF
   Sag!PowerCommands, Sag!rfsoc_on, Sag!rfsoc_off, Sag!start_gps, Sag!stop_gps,
   Sag!start_backend, Sag!stop_backend, Sag!position_box_on, Sag!position_box_off,
   Sag!start_heater_box, Sag!start_timing_chain, Sag!stop_timing_chain,
   Sag!Own, Sag!Commands, Sag!Continues, Sag!PowerOn, Sag!PowerOff, Sag!start_heaters,
   Sag!stop_heaters, Sag!exit_both, Sag!PowerDownNext, Sag!ExitDone, Sag!Answered,
   Sag!Unanswered, Sag!HeatersRun, Sag!HeatersFail, Sag!Restart, Sag!Ask, Sag!boxes, power

\* What the UDP server does is what the main thread of Ophiuchus calls a remote
\* toggle.
LEMMA AnswerIsRemote == ASSUME Answer, device \in Remote PROVE RemoteToggles
<1>1. CASE Sag!Serve
  <2>1. message # message' /\ late' = late /\ Sag!SagBoxes!Request({device})
    BY <1>1 DEF Sag!Serve
  <2>2. missed' = missed \cup {d \in {device} : request[d]}
    BY <2>1 DEF Answer
  <2>3. set_toggle({device})
    BY <2>1, <2>2, SameRelays DEF set_toggle, Boxes!Request, Sag!SagBoxes!Request
  <2> QED BY <2>3 DEF RemoteToggles, Answer, oph_idle
<1>2. CASE \E d \in Sag!SagDevice : Sag!ServeLate(d)
  <2>1. PICK d \in Remote : Sag!ServeLate(d)
    BY <1>2, SameRelays
  <2>2. message' = message /\ late \ late' = {d} /\ Sag!SagBoxes!Request({d})
    BY <2>1 DEF Sag!ServeLate, Sag!exchange
  <2>3. missed' = missed \cup {e \in {d} : request[e]}
    BY <2>2 DEF Answer
  <2>4. set_toggle({d})
    BY <2>2, <2>3, SameRelays DEF set_toggle, Boxes!Request, Sag!SagBoxes!Request
  <2> QED BY <2>1, <2>4 DEF RemoteToggles, Answer, oph_idle
<1> QED BY <1>1, <1>2 DEF Answer, Sag!Server

LEMMA BoxesAreBoxes == ASSUME Refuse \/ End PROVE BoxRefuses \/ BoxEnds
<1>1. CASE Refuse
  BY <1>1, SameRelays DEF Refuse, Sag!BoxRefuses, Sag!SagBoxes!Drop, Boxes!Drop, BoxRefuses,
     oph_idle
<1>2. CASE End
  BY <1>2, SameRelays DEF End, Sag!BoxesEnd, Sag!SagBoxes!Finish, Boxes!Finish, BoxEnds,
     oph_idle
<1> QED BY <1>1, <1>2

\* The program of Ophiuchus starts with every relay off.
LEMMA RestartStep == ASSUME IInv, OphRestart PROVE IInv'
<1>1. /\ on' = [r \in Relay |-> FALSE] /\ request' = on'
      /\ asked' = FALSE /\ ended' = FALSE
  BY SameRelays DEF OphRestart, Sag!BoxesStart
<1>2. TypeOK'
  BY <1>1 DEF OphRestart, IInv, TypeOK, Boxes!TypeOK
<1>3. FlagsTellPower'
  BY <1>1 DEF OphRestart, FlagsTellPower, believed, Device, Relay
<1>4. StagesDone'
  BY DEF OphRestart, StagesDone
<1> QED BY <1>2, <1>3, <1>4 DEF IInv

\* The main thread of Ophiuchus never leaves its inductive invariant, with the
\* other computer and with restarts (main_Oph.c, cli_Oph.c).
THEOREM FlightInvariance == FlightSpec => []IInv
<1>1. FlightInit => IInv
  BY InitIInv DEF FlightInit
<1>2. IInv /\ Sag!SagIInv /\ [FlightNext]_flight => IInv'
  <2> SUFFICES ASSUME IInv, Sag!SagIInv, [FlightNext]_flight PROVE IInv'
    OBVIOUS
  <2>1. CASE Ophiuchus
    BY <2>1, NextIInv DEF Ophiuchus, Next
  <2>2. CASE Saggitarius
    BY <2>2, OwnLeavesBoxes, NextIInv DEF Saggitarius, oph_idle, vars, power
  <2>3. CASE Answer
    BY <2>3, AnswerIsRemote, SameRelays, NextIInv DEF Next, Sag!SagIInv, Sag!SagTypeOK
  <2>4. CASE Flip
    BY <2>4, NextIInv DEF Flip, Next
  <2>5. CASE Refuse \/ End
    BY <2>5, BoxesAreBoxes, NextIInv DEF Next
  <2>6. CASE OphRestart
    BY <2>6, RestartStep
  <2>7. CASE UNCHANGED flight
    BY <2>7, NextIInv DEF flight
  <2> QED BY <2>1, <2>2, <2>3, <2>4, <2>5, <2>6, <2>7 DEF FlightNext, Idle
<1>3. Sag!SagIInv <=> Theorems!SagIInv
  BY SameProperties
<1>4. Theorems!SagSpec => []Theorems!SagIInv
  BY Theorems!SagInvariant
<1> QED BY <1>1, <1>2, <1>3, <1>4, FlightImplements, SameSystem, PTL
        DEF FlightSpec, SagSpec, Sag!SagSpec, Theorems!SagSpec

\* The flags of Ophiuchus tell what its relays are or will be, with the other
\* computer and with restarts.
THEOREM FlightFlagsOph == FlightSpec => []FlagsTellPower
<1>1. IInv => FlagsTellPower
  BY DEF IInv
<1> QED BY <1>1, FlightInvariance, PTL

\* The shutdown of Ophiuchus leaves no device of its own on but the housekeeping
\* board, whatever Saggitarius does meanwhile.
THEOREM FlightShutdownOff == FlightSpec => []ExitSwitchesOff
BY FlightInvariance, OffWhenPast, PTL
=============================================================================

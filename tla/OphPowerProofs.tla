--------------------------- MODULE OphPowerProofs ---------------------------
(* Proofs about the main thread and the power of its devices, for any set of *)
(* enabled devices and any relays of other computers.                        *)
EXTENDS OphPower, TLAPS

\* What a step leaves alone if it is not a step of the boxes.
LEMMA AbortStep == ASSUME IInv, abort PROVE IInv'
BY DEF IInv, abort, no_toggle, TypeOK, FlagsTellPower, StagesDone, receiver_enabled, power, flags,
       Boxes!TypeOK, Stage

\* set_toggle keeps the types of the boxes, and a request that is not missed
\* changes what the relay is or will be.
LEMMA ToggleStep ==
    ASSUME TypeOK, NEW R \in SUBSET Relay, set_toggle(R)
    PROVE  /\ Boxes!TypeOK' /\ missed' \subseteq Relay
           /\ missed \subseteq missed'
           /\ on' = on
           /\ \A d \in R : d \notin missed' => request'[d] /\ ~request[d]
           /\ \A d \in Relay \ R : request'[d] = request[d]
<1>1. request' = [r \in Relay |-> r \in R \/ request[r]]
  BY DEF set_toggle, Boxes!Request
<1>2. request' \in [Relay -> BOOLEAN]
  BY <1>1, Zenon
<1>3. /\ UNCHANGED <<on, asked, ended>>
      /\ missed' = missed \cup {r \in R : request[r]}
  BY DEF set_toggle, Boxes!Request
<1>4. Boxes!TypeOK'
  BY <1>2, <1>3 DEF TypeOK, Boxes!TypeOK
<1>5. \A d \in R : d \notin missed' => request'[d] /\ ~request[d]
  BY <1>1, <1>3
<1>6. \A d \in Relay \ R : request'[d] = request[d]
  BY <1>1 DEF TypeOK, Boxes!TypeOK
<1> QED BY <1>3, <1>4, <1>5, <1>6 DEF TypeOK

\* A step that toggles the relays R keeps flags and relays in step if it turns
\* over what is believed of the devices in R and of no other.
LEMMA ToggleFlags ==
    ASSUME TypeOK, FlagsTellPower, main # "aborted", NEW R \in SUBSET Relay, set_toggle(R),
           \A d \in Device \ R : believed(d)' = believed(d),
           \A d \in Device \cap R : believed(d)' <=> ~believed(d)
    PROVE  FlagsTellPower'
<1> SUFFICES ASSUME NEW d \in Device, d \notin missed'
             PROVE  believed(d)' <=> (on'[d] # request'[d])
  BY DEF FlagsTellPower
<1>1. d \notin missed /\ d \in Relay /\ on' = on
  BY ToggleStep DEF Relay
<1>2. believed(d) <=> (on[d] # request[d])
  BY <1>1 DEF FlagsTellPower
<1>3. on[d] \in BOOLEAN /\ request[d] \in BOOLEAN
  BY <1>1 DEF TypeOK, Boxes!TypeOK
<1>4. CASE d \in R
  <2>1. request'[d] /\ ~request[d]
    BY <1>4, ToggleStep
  <2> QED BY <2>1, <1>1, <1>2, <1>3, <1>4
<1>5. CASE d \notin R
  <2>1. request'[d] = request[d]
    BY <1>1, <1>5, ToggleStep
  <2> QED BY <2>1, <1>1, <1>2, <1>5
<1> QED BY <1>4, <1>5

\* A step that toggles nothing and leaves what is believed alone.
LEMMA NoToggleFlags ==
    ASSUME FlagsTellPower, main # "aborted", no_toggle,
           \A d \in Device : believed(d)' = believed(d)
    PROVE  FlagsTellPower'
BY DEF FlagsTellPower, no_toggle, power

-----------------------------------------------------------------------------
(* The commands and the stages of the shutdown, one device after the other *)

LEMMA ReceiverStep ==
    ASSUME IInv, receiver_start \/ receiver_stop \/ shutdown_receiver
    PROVE  IInv'
<1> USE DEF IInv, Device, Relay
<1>1. CASE set_toggle({"lna", "mixer"}) /\ receiver_on' = ~receiver_on
  <2>1. TypeOK'
    BY <1>1, ToggleStep DEF TypeOK, Stage, receiver_start, receiver_stop, shutdown_receiver
  <2>0. /\ UNCHANGED <<enabled, bvexcam_on, stop, lockpin_on, housekeeping_on, log>>
        /\ PastLockpin' = PastLockpin
    BY DEF PastLockpin, receiver_start, receiver_stop, shutdown_receiver
  <2>a. \A d \in Device \ {"lna", "mixer"} : believed(d)' = believed(d)
    BY <2>0 DEF believed
  <2>b. \A d \in {"lna", "mixer"} : believed(d) = receiver_on /\ believed(d)' = receiver_on'
    BY DEF believed
  <2>2. /\ \A d \in Device \ {"lna", "mixer"} : believed(d)' = believed(d)
        /\ \A d \in {"lna", "mixer"} : believed(d)' <=> ~believed(d)
    BY <1>1, <2>a, <2>b
  <2>3. FlagsTellPower'
    BY <1>1, <2>2, ToggleFlags DEF receiver_start, receiver_stop, shutdown_receiver
  <2>4. StagesDone'
    BY <1>1 DEF StagesDone, receiver_enabled, receiver_start, receiver_stop, shutdown_receiver
  <2> QED BY <2>1, <2>3, <2>4
<1>2. CASE no_toggle /\ shutdown_receiver /\ ~(receiver_enabled /\ receiver_on)
  <2>1. TypeOK'
    BY <1>2 DEF TypeOK, Boxes!TypeOK, Stage, shutdown_receiver, no_toggle, power
  <2>2. FlagsTellPower'
    BY <1>2, NoToggleFlags DEF believed, PastLockpin, shutdown_receiver
  <2>3. StagesDone'
    BY <1>2 DEF StagesDone, receiver_enabled, shutdown_receiver, TypeOK
  <2> QED BY <2>1, <2>2, <2>3
<1> QED BY <1>1, <1>2 DEF receiver_start, receiver_stop, shutdown_receiver, TypeOK

\* fopen and fclose keep the type of the logs and touch one of them.
LEMMA LogType ==
    ASSUME TypeOK, NEW d \in {"bvexcam", "motor", "housekeeping"}, fopen(d) \/ fclose(d)
    PROVE  /\ log' \in [{"bvexcam", "motor", "housekeeping"} -> {"null", "open", "closed"}]
           /\ \A e \in {"bvexcam", "motor", "housekeeping"} \ {d} : log'[e] = log[e]
           /\ fclose(d) => log'[d] = "closed"
           /\ fopen(d) => log'[d] # "closed"
BY DEF TypeOK, fopen, fclose

LEMMA CameraStep ==
    ASSUME IInv,
           bvexcam_start \/ bvexcam_start_Fails \/ bvexcam_stop \/ shutdown_bvexcam
    PROVE  IInv'
<1> USE DEF IInv, Device, Relay
<1>1. /\ \/ bvexcam_on' = ~bvexcam_on /\ set_toggle({"bvexcam"})
         \/ bvexcam_start_Fails
         \/ bvexcam_on' = bvexcam_on /\ no_toggle
      /\ fopen("bvexcam") \/ fclose("bvexcam") \/ UNCHANGED log
      /\ UNCHANGED <<enabled, receiver_on, stop, lockpin_on, housekeeping_on>>
  BY DEF bvexcam_start, bvexcam_start_Fails, bvexcam_stop, shutdown_bvexcam, flags, TypeOK
<1>2. /\ log' \in [{"bvexcam", "motor", "housekeeping"} -> {"null", "open", "closed"}]
      /\ log'["motor"] = log["motor"]
  BY <1>1, LogType DEF TypeOK
<1>3. /\ main \in {"commands", "bvexcam"}
      /\ main' = main \/ main' = "motor"
      /\ main' = "motor" => ~bvexcam_on'
  BY DEF bvexcam_start, bvexcam_start_Fails, bvexcam_stop, shutdown_bvexcam, StagesDone, receiver_enabled
<1>4. \A d \in Device \ {"bvexcam"} : believed(d)' = believed(d)
  BY <1>1, <1>2, <1>3 DEF believed, PastLockpin
<1>5. believed("bvexcam") = bvexcam_on /\ believed("bvexcam")' = bvexcam_on'
  BY DEF believed
<1>6. StagesDone'
  BY <1>1, <1>3 DEF StagesDone, receiver_enabled, bvexcam_start, bvexcam_start_Fails,
      bvexcam_stop, shutdown_bvexcam, flags
<1>7. bvexcam_on' \in BOOLEAN /\ main' \in {"commands", "bvexcam", "motor"}
  BY <1>1, <1>3 DEF TypeOK, bvexcam_start_Fails, flags
<1>8. CASE bvexcam_on' = ~bvexcam_on /\ set_toggle({"bvexcam"})
  <2>1. TypeOK'
    BY <1>1, <1>2, <1>7, <1>8, ToggleStep DEF TypeOK, Stage
  <2>2. FlagsTellPower'
    BY <1>3, <1>4, <1>5, <1>8, ToggleFlags
  <2> QED BY <2>1, <2>2, <1>6
<1>9. CASE bvexcam_start_Fails
  <2>1. /\ request' = [r \in Relay |-> r \in {"bvexcam"} \/ request[r]]
        /\ UNCHANGED <<on, asked, ended>>
        /\ missed' = missed \cup {"bvexcam"}
    BY <1>9 DEF bvexcam_start_Fails, Boxes!Request
  <2>2. request' \in [Relay -> BOOLEAN]
    BY <2>1, Zenon
  <2>3. TypeOK'
    BY <1>1, <1>2, <1>7, <2>1, <2>2 DEF TypeOK, Boxes!TypeOK, Stage
  <2>4. \A d \in Device \ {"bvexcam"} : request'[d] = request[d]
    BY <2>1 DEF TypeOK, Boxes!TypeOK
  <2>5. FlagsTellPower'
    BY <1>3, <1>4, <2>1, <2>4 DEF FlagsTellPower
  <2> QED BY <2>3, <2>5, <1>6
<1>10. CASE bvexcam_on' = bvexcam_on /\ no_toggle
  <2>1. TypeOK'
    BY <1>1, <1>2, <1>7, <1>10 DEF TypeOK, Boxes!TypeOK, Stage, no_toggle, power
  <2>2. FlagsTellPower'
    BY <1>3, <1>4, <1>5, <1>10, NoToggleFlags
  <2> QED BY <2>1, <2>2, <1>6
<1> QED BY <1>1, <1>8, <1>9, <1>10

LEMMA MotorStep ==
    ASSUME IInv, motor_start \/ motor_stop \/ (shutdown_motor /\ main' # "aborted")
    PROVE  IInv'
<1> USE DEF IInv, Device, Relay
<1>1. /\ UNCHANGED <<enabled, receiver_on, bvexcam_on, lockpin_on, housekeeping_on>>
      /\ fopen("motor") \/ fclose("motor") \/ UNCHANGED log
  BY DEF motor_start, motor_stop, shutdown_motor, flags, abort
<1>2. log' \in [{"bvexcam", "motor", "housekeeping"} -> {"null", "open", "closed"}]
  BY <1>1, LogType DEF TypeOK
<1>3. /\ main \in {"commands", "motor"}
      /\ main' = main \/ (main = "motor" /\ main' = "lockpin")
      /\ main' = "lockpin" => stop'
      /\ stop' \in BOOLEAN
      /\ ~stop' => "motor" \in enabled
  BY DEF motor_start, motor_stop, shutdown_motor, StagesDone, receiver_enabled, TypeOK, flags, abort
<1>4. \A d \in Device \ {"motor"} : believed(d)' = believed(d)
  BY <1>1, <1>3 DEF believed, PastLockpin
<1>5. StagesDone'
  BY <1>1, <1>3 DEF StagesDone, receiver_enabled
<1>6. \/ set_toggle({"motor"}) /\ (believed("motor")' <=> ~believed("motor"))
      \/ no_toggle /\ believed("motor")' = believed("motor")
  BY <1>2 DEF believed, motor_start, motor_stop, shutdown_motor, fclose, fopen, flags,
      TypeOK, abort
<1>7. CASE set_toggle({"motor"}) /\ (believed("motor")' <=> ~believed("motor"))
  <2>1. TypeOK'
    BY <1>1, <1>2, <1>3, <1>7, ToggleStep DEF TypeOK, Stage
  <2>2. FlagsTellPower'
    BY <1>3, <1>4, <1>7, ToggleFlags
  <2> QED BY <2>1, <2>2, <1>5
<1>8. CASE no_toggle /\ believed("motor")' = believed("motor")
  <2>1. TypeOK'
    BY <1>1, <1>2, <1>3, <1>8 DEF TypeOK, Boxes!TypeOK, Stage, no_toggle, power
  <2>2. FlagsTellPower'
    BY <1>3, <1>4, <1>8, NoToggleFlags
  <2> QED BY <2>1, <2>2, <1>5
<1> QED BY <1>6, <1>7, <1>8

LEMMA LockpinStep ==
    ASSUME IInv, lockpin_start \/ lockpin_stop \/ shutdown_lockpin
    PROVE  IInv'
<1> USE DEF IInv, Device, Relay
<1>1. /\ UNCHANGED <<enabled, receiver_on, bvexcam_on, stop, housekeeping_on, log>>
      /\ main' = main \/ (main = "lockpin" /\ main' = "housekeeping")
      /\ main \in {"commands", "lockpin"}
      /\ lockpin_on' \in BOOLEAN /\ (lockpin_on' => "lockpin" \in enabled)
  <2>1. lockpin_on' \in BOOLEAN
    BY DEF lockpin_start, lockpin_stop, shutdown_lockpin, flags, TypeOK
  <2>2. lockpin_on' => "lockpin" \in enabled
    BY DEF lockpin_start, lockpin_stop, shutdown_lockpin, flags, StagesDone, receiver_enabled
  <2> QED BY <2>1, <2>2 DEF lockpin_start, lockpin_stop, shutdown_lockpin, flags
<1>2. \A d \in Device \ {"lockpin"} : believed(d)' = believed(d)
  BY <1>1 DEF believed
<1>3. /\ believed("lockpin") = (lockpin_on /\ ~PastLockpin)
      /\ believed("lockpin")' = (lockpin_on' /\ ~PastLockpin')
  BY DEF believed
<1>4. \/ set_toggle({"lockpin"}) /\ (believed("lockpin")' <=> ~believed("lockpin"))
      \/ no_toggle /\ believed("lockpin")' = believed("lockpin")
  BY <1>1, <1>3 DEF PastLockpin, lockpin_start, lockpin_stop, shutdown_lockpin, flags,
      StagesDone, receiver_enabled, TypeOK
<1>5. StagesDone'
  BY <1>1 DEF StagesDone, receiver_enabled
<1>6. CASE set_toggle({"lockpin"}) /\ (believed("lockpin")' <=> ~believed("lockpin"))
  <2>1. TypeOK'
    BY <1>1, <1>6, ToggleStep DEF TypeOK, Stage
  <2>2. FlagsTellPower'
    BY <1>1, <1>2, <1>6, ToggleFlags
  <2> QED BY <2>1, <2>2, <1>5
<1>7. CASE no_toggle /\ believed("lockpin")' = believed("lockpin")
  <2>1. TypeOK'
    BY <1>1, <1>7 DEF TypeOK, Boxes!TypeOK, Stage, no_toggle, power
  <2>2. FlagsTellPower'
    BY <1>1, <1>2, <1>7, NoToggleFlags
  <2> QED BY <2>1, <2>2, <1>5
<1> QED BY <1>4, <1>6, <1>7

LEMMA HousekeepingStep ==
    ASSUME IInv,
           \/ cmd_housekeeping_on \/ cmd_housekeeping_off
           \/ shutdown_housekeeping /\ main' # "aborted"
    PROVE  IInv'
<1> USE DEF IInv, Device, Relay
<1>1. /\ UNCHANGED <<enabled, receiver_on, bvexcam_on, stop, lockpin_on>>
      /\ main' = main \/ (main = "housekeeping" /\ main' = "pbob")
      /\ main \in {"commands", "housekeeping"}
      /\ housekeeping_on' \in BOOLEAN
      /\ fopen("housekeeping") \/ fclose("housekeeping") \/ UNCHANGED log
      /\ PastLockpin' = PastLockpin
  <2>1. housekeeping_on' \in BOOLEAN
    BY DEF cmd_housekeeping_on, cmd_housekeeping_off, shutdown_housekeeping, flags,
        TypeOK, abort
  <2>2. main' = main \/ (main = "housekeeping" /\ main' = "pbob")
    BY DEF cmd_housekeeping_on, cmd_housekeeping_off, shutdown_housekeeping, abort
  <2>3. PastLockpin' = PastLockpin
    BY <2>2 DEF PastLockpin
  <2> QED BY <2>1, <2>2, <2>3 DEF cmd_housekeeping_on, cmd_housekeeping_off,
      shutdown_housekeeping, flags, abort
<1>2. /\ log' \in [{"bvexcam", "motor", "housekeeping"} -> {"null", "open", "closed"}]
      /\ log'["motor"] = log["motor"]
  BY <1>1, LogType DEF TypeOK
<1>3. \A d \in Device \ {"housekeeping"} : believed(d)' = believed(d)
  BY <1>1, <1>2 DEF believed
<1>4. /\ believed("housekeeping") = housekeeping_on
      /\ believed("housekeeping")' = housekeeping_on'
  BY DEF believed
<1>5. \/ set_toggle({"housekeeping"}) /\ housekeeping_on' = ~housekeeping_on
      \/ no_toggle /\ housekeeping_on' = housekeeping_on
  BY DEF cmd_housekeeping_on, cmd_housekeeping_off, shutdown_housekeeping, flags,
      TypeOK, abort
<1>6. StagesDone'
  BY <1>1 DEF StagesDone, receiver_enabled
<1>7. CASE set_toggle({"housekeeping"}) /\ housekeeping_on' = ~housekeeping_on
  <2>1. TypeOK'
    BY <1>1, <1>2, <1>7, ToggleStep DEF TypeOK, Stage
  <2>2. FlagsTellPower'
    BY <1>1, <1>3, <1>4, <1>7, ToggleFlags
  <2> QED BY <2>1, <2>2, <1>6
<1>8. CASE no_toggle /\ housekeeping_on' = housekeeping_on
  <2>1. TypeOK'
    BY <1>1, <1>2, <1>8 DEF TypeOK, Boxes!TypeOK, Stage, no_toggle, power
  <2>2. FlagsTellPower'
    BY <1>1, <1>3, <1>4, <1>8, NoToggleFlags
  <2> QED BY <2>1, <2>2, <1>6
<1> QED BY <1>5, <1>7, <1>8

\* A handler that ends the program.
LEMMA CrashStep ==
    ASSUME IInv,
           \/ bvexcam_start_Exits \/ bvexcam_stop_Crashes \/ motor_stop_Crashes
           \/ lockpin_start_Exits \/ cmd_housekeeping_off_Crashes \/ housekeeping_thread_Crashes
           \/ (shutdown_motor \/ shutdown_housekeeping) /\ main' = "aborted"
    PROVE  IInv'
<1>1. abort
  BY DEF bvexcam_start_Exits, bvexcam_stop_Crashes, motor_stop_Crashes,
      lockpin_start_Exits, cmd_housekeeping_off_Crashes, housekeeping_thread_Crashes,
      shutdown_motor, shutdown_housekeeping
<1> QED BY <1>1, AbortStep

\* The beginning and the end of the shutdown, and steps that change nothing.
LEMMA MainStep ==
    ASSUME IInv, exit_both \/ shutdown_pbob \/ join_pbob \/ UNCHANGED vars
    PROVE  IInv'
<1> USE DEF IInv
<1>1. /\ UNCHANGED <<on, request, ended, flags, log, missed>>
      /\ asked' \in BOOLEAN
      /\ \/ main = "commands" /\ main' = "receiver"
         \/ main = "pbob" /\ main' = "join"
         \/ main = "join" /\ main' = "done"
         \/ main' = main
  BY DEF exit_both, shutdown_pbob, join_pbob, vars, power, no_toggle, Boxes!AskShutdown,
      TypeOK, Boxes!TypeOK
<1>2. TypeOK'
  BY <1>1 DEF TypeOK, Boxes!TypeOK, Stage, flags
<1>3. FlagsTellPower'
  <2>1. \A d \in Device : believed(d)' = believed(d)
    BY <1>1 DEF believed, PastLockpin, flags, Device
  <2> QED BY <1>1, <2>1 DEF FlagsTellPower
<1>4. StagesDone'
  BY <1>1 DEF StagesDone, receiver_enabled, flags
<1> QED BY <1>2, <1>3, <1>4

-----------------------------------------------------------------------------
(* The boxes *)

\* A confirmed flip keeps what the relay is and will be.
LEMMA FlipStep == ASSUME IInv, BoxFlips PROVE IInv'
<1> USE DEF IInv
<1> PICK r \in Relay : Boxes!Apply(r)
  BY DEF BoxFlips
<1>1. /\ on' = [on EXCEPT ![r] = ~@] /\ request' = [request EXCEPT ![r] = FALSE]
      /\ request[r]
      /\ UNCHANGED <<asked, ended, main, flags, log, missed>>
  BY DEF Boxes!Apply, BoxFlips
<1>2. TypeOK' /\ StagesDone'
  BY <1>1 DEF TypeOK, StagesDone, receiver_enabled, Boxes!TypeOK, Stage, flags
<1>3. \A d \in Relay : (on'[d] # request'[d]) <=> (on[d] # request[d])
  BY <1>1 DEF TypeOK, Boxes!TypeOK
<1>4. FlagsTellPower'
  <2>1. \A d \in Device : believed(d)' = believed(d)
    BY <1>1 DEF believed, PastLockpin, flags, Device
  <2> QED BY <1>1, <1>3, <2>1 DEF FlagsTellPower, Relay
<1> QED BY <1>2, <1>4

LEMMA RefuseStep == ASSUME IInv, BoxRefuses PROVE IInv'
<1> USE DEF IInv
<1> PICK r \in Relay : Boxes!Drop({r}) /\ missed' = missed \cup {r}
  BY DEF BoxRefuses
<1>1. /\ request' = [x \in Relay |-> x \notin {r} /\ request[x]]
      /\ UNCHANGED <<on, asked, ended, main, flags, log>>
  BY DEF Boxes!Drop, BoxRefuses
<1>2. request' \in [Relay -> BOOLEAN]
  BY <1>1, Zenon
<1>3. \A d \in Relay \ {r} : request'[d] = request[d]
  BY <1>1 DEF TypeOK, Boxes!TypeOK
<1>4. TypeOK' /\ StagesDone'
  BY <1>1, <1>2 DEF TypeOK, StagesDone, receiver_enabled, Boxes!TypeOK, Stage, flags
<1>5. FlagsTellPower'
  <2>1. \A d \in Device : believed(d)' = believed(d)
    BY <1>1 DEF believed, PastLockpin, flags, Device
  <2> QED BY <1>1, <1>3, <2>1 DEF FlagsTellPower, Relay
<1> QED BY <1>4, <1>5

LEMMA EndAndRemoteStep == ASSUME IInv, BoxEnds \/ RemoteToggles PROVE IInv'
<1> USE DEF IInv
<1>1. UNCHANGED <<main, flags, log>> /\ \A d \in Device : believed(d)' = believed(d)
  BY DEF BoxEnds, RemoteToggles, believed, PastLockpin, flags, Device
<1>2. StagesDone'
  BY <1>1 DEF StagesDone, receiver_enabled, flags
<1>3. CASE BoxEnds
  <2>1. TypeOK'
    BY <1>1, <1>3 DEF BoxEnds, Boxes!Finish, TypeOK, Boxes!TypeOK, Stage, flags
  <2>2. FlagsTellPower'
    BY <1>1, <1>3 DEF BoxEnds, Boxes!Finish, FlagsTellPower
  <2> QED BY <2>1, <2>2, <1>2
<1>4. CASE RemoteToggles
  <2> PICK r \in Remote : set_toggle({r})
    BY <1>4 DEF RemoteToggles
  <2>1. {r} \in SUBSET Relay /\ r \notin Device
    BY OphPowerAssumption DEF Relay
  <2>2. TypeOK'
    BY <1>1, <2>1, ToggleStep DEF TypeOK, Stage, flags
  <2>3. FlagsTellPower'
    BY <1>1, <1>4, <2>1, ToggleFlags DEF RemoteToggles, alive
  <2> QED BY <2>2, <2>3, <1>2
<1> QED BY <1>3, <1>4

-----------------------------------------------------------------------------
LEMMA InitIInv == Init => IInv
<1> SUFFICES ASSUME Init PROVE IInv
  OBVIOUS
<1>1. TypeOK
  BY DEF Init, Boxes!Init, TypeOK, Boxes!TypeOK
<1>2. FlagsTellPower
  BY DEF Init, Boxes!Init, FlagsTellPower, believed, Device, Relay
<1>3. StagesDone
  BY DEF Init, StagesDone
<1> QED BY <1>1, <1>2, <1>3 DEF IInv

\* Every step preserves the invariant.
LEMMA NextIInv == IInv /\ [Next]_vars => IInv'
<1> SUFFICES ASSUME IInv, [Next]_vars PROVE IInv'
  OBVIOUS
<1>1. CASE Commands
  BY <1>1, ReceiverStep, CameraStep, MotorStep, LockpinStep, HousekeepingStep,
     CrashStep, MainStep DEF Commands
<1>2. CASE Shutdown
  BY <1>2, ReceiverStep, CameraStep, MotorStep, LockpinStep, HousekeepingStep,
     CrashStep, MainStep DEF Shutdown
<1>3. CASE BoxFlips \/ BoxRefuses \/ BoxEnds \/ RemoteToggles
  BY <1>3, FlipStep, RefuseStep, EndAndRemoteStep
<1>4. CASE BoxPolls \/ Terminated \/ UNCHANGED vars
  BY <1>4, MainStep DEF BoxPolls, Terminated
<1> QED BY <1>1, <1>2, <1>3, <1>4 DEF Next

\* The main thread never leaves the inductive invariant.
THEOREM Invariance == Spec => []IInv
BY InitIInv, NextIInv, PTL DEF Spec

\* Every variable keeps its type.
THEOREM TypeCorrect == Spec => []TypeOK
<1>1. IInv => TypeOK
  BY DEF IInv
<1> QED BY <1>1, Invariance, PTL

\* A device's flag tells what its relay is or will be, whatever the commands.
THEOREM FlagsAreRight == Spec => []FlagsTellPower
<1>1. IInv => FlagsTellPower
  BY DEF IInv
<1> QED BY <1>1, Invariance, PTL

\* What the invariant says of the stages after the last device.
LEMMA OffWhenPast == IInv => ExitSwitchesOff
<1> SUFFICES ASSUME IInv, main \in {"pbob", "join", "done"},
                    NEW d \in Device, d \notin missed, d # "housekeeping"
             PROVE  on[d] = request[d]
  BY DEF ExitSwitchesOff
<1>1. ~receiver_on /\ ~bvexcam_on /\ stop /\ PastLockpin
  BY DEF IInv, StagesDone, PastLockpin, TypeOK
<1>2. ~believed(d)
  BY <1>1 DEF believed, Device
<1>3. on[d] \in BOOLEAN /\ request[d] \in BOOLEAN
  BY DEF IInv, TypeOK, Boxes!TypeOK, Relay
<1> QED BY <1>2, <1>3 DEF IInv, FlagsTellPower

\* The shutdown leaves every device but the housekeeping board off or going off.
THEOREM ShutdownSwitchesOff == Spec => []ExitSwitchesOff
BY Invariance, OffWhenPast, PTL

=============================================================================

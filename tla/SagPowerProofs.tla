--------------------------- MODULE SagPowerProofs ---------------------------
(* Proofs about the command thread of Saggitarius and the power of its        *)
(* devices, for any relays of Ophiuchus and any commands.                     *)
EXTENDS SagPower, TLAPS

\* The power down visits every device once.
LEMMA PowerDownDevices ==
    /\ \A k \in 1 .. 6 : PowerDown[k] \in SagDevice
    /\ SagDevice = {PowerDown[k] : k \in 1 .. 6}
<1>1. \A k \in 1 .. 6 : k = 1 \/ k = 2 \/ k = 3 \/ k = 4 \/ k = 5 \/ k = 6
  OBVIOUS
<1>2. \A k \in 1 .. 6 : PowerDown[k] \in SagDevice
  BY <1>1 DEF PowerDown, SagDevice
<1>3. /\ PowerDown[1] = "rfsoc" /\ PowerDown[2] = "gps" /\ PowerDown[3] = "ticc"
      /\ PowerDown[4] = "backend" /\ PowerDown[5] = "heaters"
      /\ PowerDown[6] = "position_sensors"
  BY DEF PowerDown
<1>4. \A d \in SagDevice : \E k \in 1 .. 6 : PowerDown[k] = d
  BY <1>3 DEF SagDevice
<1> QED BY <1>2, <1>4

-----------------------------------------------------------------------------
(* Levels and flags *)

\* A request turns over the level of the relays it is new to.
LEMMA RequestStep ==
    ASSUME SagTypeOK, NEW R \in SUBSET SagRelay, SagBoxes!Request(R)
    PROVE  /\ SagBoxes!TypeOK'
           /\ \A d \in SagRelay \ R : Level(d)' <=> Level(d)
           /\ \A d \in R : ~request[d] => (Level(d)' <=> ~Level(d))
<1>1. /\ request' = [r \in SagRelay |-> r \in R \/ request[r]]
      /\ UNCHANGED <<on, asked, ended>>
  BY DEF SagBoxes!Request
<1>2. request' \in [SagRelay -> BOOLEAN]
  BY <1>1, Zenon
<1>3. \A d \in SagRelay \ R : request'[d] <=> request[d]
  BY <1>1 DEF SagTypeOK, SagBoxes!TypeOK
<1>4. \A d \in R : request'[d]
  BY <1>1
<1>5. SagBoxes!TypeOK'
  BY <1>1, <1>2 DEF SagTypeOK, SagBoxes!TypeOK
<1>6. \A d \in SagRelay \ R : Level(d)' <=> Level(d)
  BY <1>1, <1>3 DEF Level
<1>7. \A d \in R : ~request[d] => (Level(d)' <=> ~Level(d))
  BY <1>1, <1>4 DEF Level
<1> QED BY <1>5, <1>6, <1>7

\* Flags and relays stay in step if a device that is not in doubt after the step
\* is turned over in both or in neither.
LEMMA FlagsFollow ==
    ASSUME SagFlagsTellPower, unsure \subseteq unsure',
           \A d \in SagDevice \ unsure' :
               (Counted(d)' <=> Counted(d)) <=> (Level(d)' <=> Level(d))
    PROVE  SagFlagsTellPower'
BY DEF SagFlagsTellPower

\* A step that leaves the boxes, the flags and the exchange alone.
LEMMA FlagsStay ==
    ASSUME SagFlagsTellPower, unsure \subseteq unsure',
           \A d \in SagDevice \ unsure' : Level(d)' <=> Level(d),
           UNCHANGED <<powered, uncounted, message, device>>
    PROVE  SagFlagsTellPower'
<1>1. \A d \in SagDevice : Counted(d)' <=> Counted(d)
  BY DEF Counted, Noted
<1> QED BY <1>1, FlagsFollow

-----------------------------------------------------------------------------
(* The command thread *)

LEMMA AskStep ==
    ASSUME SagIInv, NEW d \in SagDevice, NEW c \in {"on", "off", "stop"},
           command = "none", Ask(c, d), stage' = stage, uncounted' = uncounted,
           heaters' \in {"none", "starting", "running"},
           unsure \subseteq unsure', unsure' \subseteq SagDevice,
           (c = "on" /\ d \notin unsure') => ~Counted(d),
           (c = "off" /\ d \notin unsure') => Counted(d),
           c = "off" => d # "heaters",
           c = "stop" => d = "heaters"
    PROVE  SagIInv'
<1> USE DEF SagIInv
<1>1. message = "none"
  BY DEF ExchangeOK, SagTypeOK
<1>2. /\ command' = c /\ device' = d /\ message' = "sent"
      /\ UNCHANGED <<on, request, asked, ended, session, powered, late, failed>>
  BY DEF Ask, boxes
<1>3. SagTypeOK'
  BY <1>2 DEF SagTypeOK, SagBoxes!TypeOK
<1>4. \A e \in SagDevice : /\ Noted(e)' <=> Noted(e)
                           /\ Counted(e)' <=> Noted(e)
                           /\ Counted(e) <=> Noted(e)
  BY <1>1, <1>2 DEF Noted, Counted
<1>5. \A e \in SagDevice : Level(e)' <=> Level(e)
  BY <1>2 DEF Level
<1>6. SagFlagsTellPower'
  BY <1>4, <1>5, FlagsFollow
<1>7. ExchangeOK'
  BY <1>2, <1>4 DEF ExchangeOK
<1>8. PowerDownOK'
  BY <1>2 DEF PowerDownOK
<1> QED BY <1>3, <1>6, <1>7, <1>8

LEMMA CommandStep ==
    ASSUME SagIInv, Commands
    PROVE  SagIInv'
<1> USE DEF SagIInv
<1>1. ASSUME NEW d \in SagDevice, PowerOn(d) PROVE SagIInv'
  <2>1. /\ command = "none" /\ Ask("on", d)
        /\ UNCHANGED <<heaters, stage, uncounted>>
        /\ unsure' = unsure \cup ((IF Counted(d) THEN {d} ELSE {}) \cap SagDevice)
    BY <1>1 DEF PowerOn, Doubt
  <2> QED BY <2>1, AskStep DEF SagTypeOK
<1>2. ASSUME NEW d \in SagDevice \ {"heaters"}, PowerOff(d) PROVE SagIInv'
  <2>1. /\ command = "none" /\ Ask("off", d) /\ d # "heaters"
        /\ UNCHANGED <<heaters, stage, uncounted>>
        /\ unsure' = unsure \cup ((IF Counted(d) THEN {} ELSE {d}) \cap SagDevice)
    BY <1>2 DEF PowerOff, Doubt
  <2> QED BY <2>1, AskStep DEF SagTypeOK
<1>3. CASE stop_heaters
  <2>1. /\ command = "none" /\ Ask("stop", "heaters") /\ heaters' = "none"
        /\ UNCHANGED <<stage, unsure, uncounted>>
    BY <1>3 DEF stop_heaters
  <2> QED BY <2>1, AskStep DEF SagTypeOK, SagDevice
<1>4. CASE start_heaters
  <2>1. /\ UNCHANGED <<on, request, asked, ended, session, powered, command, stage, device,
                       message, late, unsure, failed, uncounted>>
        /\ heaters' = "starting"
    BY <1>4 DEF start_heaters, boxes, exchange, history
  <2>2. SagTypeOK' /\ ExchangeOK' /\ PowerDownOK'
    BY <2>1 DEF SagTypeOK, SagBoxes!TypeOK, ExchangeOK, PowerDownOK, Noted
  <2>3. SagFlagsTellPower'
    BY <2>1, FlagsStay DEF Level
  <2> QED BY <2>2, <2>3
<1>5. CASE exit_both
  <2>1. /\ UNCHANGED <<on, request, asked, ended, session, powered, device,
                       message, late, unsure, failed, uncounted>>
        /\ command = "none" /\ command' = "exit" /\ stage' = 1
        /\ heaters' \in {"none", "starting", "running"}
    BY <1>5 DEF exit_both, boxes, exchange, history, SagTypeOK
  <2>2. message = "none"
    BY <2>1 DEF ExchangeOK, SagTypeOK
  <2>3. SagTypeOK' /\ ExchangeOK'
    BY <2>1, <2>2 DEF SagTypeOK, SagBoxes!TypeOK, ExchangeOK, Noted
  <2>4. PowerDownOK'
    BY <2>1, PowerDownDevices DEF PowerDownOK, SagTypeOK
  <2>5. SagFlagsTellPower'
    BY <2>1, FlagsStay DEF Level
  <2> QED BY <2>3, <2>4, <2>5
<1>6. CASE PowerCommands
  <2>1. ASSUME rfsoc_on \/ start_gps \/ start_backend \/ position_box_on
               \/ start_heater_box \/ start_timing_chain
        PROVE  \E d \in SagDevice : PowerOn(d)
    BY <2>1 DEF rfsoc_on, start_gps, start_backend, position_box_on, start_heater_box,
                start_timing_chain, SagDevice
  <2>2. ASSUME rfsoc_off \/ stop_gps \/ stop_backend \/ position_box_off
               \/ stop_timing_chain
        PROVE  \E d \in SagDevice \ {"heaters"} : PowerOff(d)
    BY <2>2 DEF rfsoc_off, stop_gps, stop_backend, position_box_off, stop_timing_chain,
                SagDevice
  <2> QED BY <1>1, <1>2, <1>6, <2>1, <2>2 DEF PowerCommands
<1> QED BY <1>3, <1>4, <1>5, <1>6 DEF Commands

\* The power down asks for the next device, or passes one whose flag is down.
LEMMA PowerDownStep ==
    ASSUME SagIInv, PowerDownNext \/ ExitDone
    PROVE  SagIInv'
<1> USE DEF SagIInv
<1>1. CASE PowerDownNext /\ PowerDown[stage] \in powered
  <2>1. /\ command = "exit" /\ message = "none" /\ stage \in 1 .. 6
        /\ command' = "exit" /\ device' = PowerDown[stage] /\ message' = "sent"
        /\ UNCHANGED <<on, request, asked, ended, session, powered, late, failed, stage,
                       heaters, unsure, uncounted>>
    BY <1>1 DEF PowerDownNext, Ask, boxes
  <2>2. device' \in SagDevice
    BY <2>1, PowerDownDevices
  <2>3. SagTypeOK'
    BY <2>1, <2>2 DEF SagTypeOK, SagBoxes!TypeOK
  <2>4. ExchangeOK' /\ PowerDownOK'
    BY <1>1, <2>1 DEF ExchangeOK, PowerDownOK
  <2>5. \A d \in SagDevice : (Counted(d)' <=> Counted(d)) /\ (Level(d)' <=> Level(d))
    BY <2>1 DEF Counted, Noted, Level
  <2> QED BY <2>1, <2>3, <2>4, <2>5, FlagsFollow
<1>2. CASE PowerDownNext /\ PowerDown[stage] \notin powered
  <2>1. /\ command = "exit" /\ message = "none" /\ stage \in 1 .. 6 /\ stage' = stage + 1
        /\ UNCHANGED <<on, request, asked, ended, session, powered, command, device, message,
                       late, failed, heaters, unsure, uncounted>>
    BY <1>2 DEF PowerDownNext, boxes, exchange
  <2>2. SagTypeOK'
    BY <2>1 DEF SagTypeOK, SagBoxes!TypeOK
  <2>3. ExchangeOK'
    BY <2>1 DEF ExchangeOK
  <2>4. PowerDownOK'
    BY <1>2, <2>1 DEF PowerDownOK
  <2>5. SagFlagsTellPower'
    BY <2>1, FlagsStay DEF Level
  <2> QED BY <2>2, <2>3, <2>4, <2>5
<1>3. CASE ExitDone
  <2>1. /\ message = "none" /\ stage = 7 /\ command = "exit" /\ command' = "exited"
        /\ UNCHANGED <<on, request, asked, ended, session, powered, stage, device, message,
                       late, failed, heaters, unsure, uncounted>>
    BY <1>3 DEF ExitDone, boxes, exchange, history
  <2>2. SagTypeOK' /\ ExchangeOK' /\ PowerDownOK'
    BY <2>1 DEF SagTypeOK, SagBoxes!TypeOK, ExchangeOK, PowerDownOK
  <2>3. SagFlagsTellPower'
    BY <2>1, FlagsStay DEF Level
  <2> QED BY <2>2, <2>3
<1> QED BY <1>1, <1>2, <1>3 DEF PowerDownNext

\* The answer turns over the flag, or what is noted beside it, at the moment at
\* which the request stops being the box's secret.
LEMMA AnsweredStep ==
    ASSUME SagIInv, Answered
    PROVE  SagIInv'
<1> USE DEF SagIInv
<1>1. /\ message = "served" /\ message' = "none"
      /\ command \in {"on", "off", "stop", "exit"} /\ device \in SagDevice
      /\ UNCHANGED <<on, request, asked, ended, session, heaters, late, unsure, failed, device>>
  BY DEF Answered, Returned, ExchangeOK, SagTypeOK, boxes
<1>2. CASE command = "exit"
  <2>1. /\ powered' = powered \ {device} /\ UNCHANGED <<uncounted, command>>
        /\ stage \in 1 .. 6 /\ stage' = stage + 1
        /\ device = PowerDown[stage] /\ device \in powered
    BY <1>1, <1>2 DEF Answered, Returned, ExchangeOK
  <2>2. SagTypeOK'
    BY <1>1, <2>1 DEF SagTypeOK, SagBoxes!TypeOK
  <2>3. ExchangeOK'
    BY <1>1, <1>2, <2>1 DEF ExchangeOK
  <2>4. PowerDownOK'
    BY <1>1, <1>2, <2>1 DEF PowerDownOK
  <2>5. \A d \in SagDevice : Counted(d)' <=> Counted(d)
    BY <1>1, <2>1 DEF Counted, Noted
  <2>6. SagFlagsTellPower'
    BY <1>1, <2>5, FlagsFollow DEF Level
  <2> QED BY <2>2, <2>3, <2>4, <2>6
<1>3. CASE command # "exit"
  <2>1. /\ command' = "none" /\ stage' = stage
        /\ powered' \subseteq SagDevice /\ uncounted' \in BOOLEAN
    BY <1>1, <1>3 DEF Answered, Returned, SagTypeOK
  <2>2. SagTypeOK' /\ ExchangeOK' /\ PowerDownOK'
    BY <1>1, <2>1 DEF SagTypeOK, SagBoxes!TypeOK, ExchangeOK, PowerDownOK
  <2>3. \A d \in SagDevice \ unsure : Counted(d)' <=> Counted(d)
    <3>1. CASE command = "on"
      BY <1>1, <3>1 DEF Answered, Counted, Noted, ExchangeOK
    <3>2. CASE command = "off"
      BY <1>1, <3>2 DEF Answered, Counted, Noted, ExchangeOK
    <3>3. CASE command = "stop"
      BY <1>1, <3>3 DEF Answered, Counted, Noted, ExchangeOK
    <3> QED BY <1>1, <1>3, <3>1, <3>2, <3>3
  <2>4. SagFlagsTellPower'
    BY <1>1, <2>3, FlagsFollow DEF Level
  <2> QED BY <2>2, <2>4
<1> QED BY <1>2, <1>3

\* Without an answer the flag stays, and the device is in doubt if the box has, or
\* will have, the request.
LEMMA UnansweredStep ==
    ASSUME SagIInv, Unanswered
    PROVE  SagIInv'
<1> USE DEF SagIInv
<1>1. /\ message # "none" /\ message' = "none"
      /\ command \in {"on", "off", "stop", "exit"} /\ device \in SagDevice
      /\ UNCHANGED <<on, request, asked, ended, session, powered, heaters, uncounted, device>>
  BY DEF Unanswered, Returned, ExchangeOK, SagTypeOK, boxes
<1>2. /\ unsure \subseteq unsure' /\ unsure' \subseteq SagDevice
      /\ late' \subseteq unsure' /\ late' \subseteq SagDevice
      /\ message = "served" => device \in unsure'
  BY <1>1 DEF Unanswered, Doubt, SagTypeOK, ExchangeOK
<1>3. /\ failed' \subseteq SagDevice /\ failed \subseteq failed'
      /\ command = "exit" => device \in failed'
  BY <1>1 DEF Unanswered, SagTypeOK
<1>4. \A d \in SagDevice \ unsure' : Counted(d)' <=> Counted(d)
  BY <1>1, <1>2 DEF Counted, Noted
<1>5. SagFlagsTellPower'
  BY <1>1, <1>2, <1>4, FlagsFollow DEF Level
<1>6. CASE command = "exit"
  <2>1. /\ command' = "exit" /\ stage \in 1 .. 6 /\ stage' = stage + 1
        /\ device = PowerDown[stage]
    BY <1>1, <1>6 DEF Unanswered, Returned, ExchangeOK
  <2>2. SagTypeOK' /\ ExchangeOK'
    BY <1>1, <1>2, <1>3, <2>1 DEF SagTypeOK, SagBoxes!TypeOK, ExchangeOK
  <2>3. PowerDownOK'
    BY <1>1, <1>3, <1>6, <2>1 DEF PowerDownOK
  <2> QED BY <2>2, <2>3, <1>5
<1>7. CASE command # "exit"
  <2>1. command' = "none" /\ stage' = stage
    BY <1>1, <1>7 DEF Unanswered, Returned
  <2>2. SagTypeOK' /\ ExchangeOK' /\ PowerDownOK'
    BY <1>1, <1>2, <1>3, <2>1 DEF SagTypeOK, SagBoxes!TypeOK, ExchangeOK, PowerDownOK
  <2> QED BY <2>2, <1>5
<1> QED BY <1>6, <1>7

-----------------------------------------------------------------------------
(* The server, the heater thread, restarts and the boxes *)

LEMMA ServeStep ==
    ASSUME SagIInv, Serve
    PROVE  SagIInv'
<1> USE DEF SagIInv
<1>1. /\ message = "sent" /\ message' = "served" /\ device \in SagDevice
      /\ SagBoxes!Request({device})
      /\ unsure' = unsure \cup ((IF request[device] \/ ended THEN {device} ELSE {}) \cap SagDevice)
      /\ UNCHANGED <<session, powered, heaters, command, stage, device, late, failed, uncounted>>
  BY DEF Serve, Doubt, SagTypeOK
<1>2. /\ SagBoxes!TypeOK'
      /\ \A d \in SagRelay \ {device} : Level(d)' <=> Level(d)
      /\ ~request[device] => (Level(device)' <=> ~Level(device))
  BY <1>1, RequestStep DEF SagRelay
<1>3. SagTypeOK'
  BY <1>1, <1>2 DEF SagTypeOK
<1>4. ExchangeOK' /\ PowerDownOK'
  BY <1>1 DEF ExchangeOK, PowerDownOK, Noted
<1>5. /\ \A d \in SagDevice \ {device} : Counted(d)' <=> Counted(d)
      /\ Counted(device)' <=> ~Counted(device)
  BY <1>1 DEF Counted, Noted
<1>6. SagFlagsTellPower'
  BY <1>1, <1>2, <1>5, FlagsFollow DEF SagRelay
<1> QED BY <1>3, <1>4, <1>6

LEMMA ServeLateStep ==
    ASSUME SagIInv, NEW d \in SagDevice, ServeLate(d)
    PROVE  SagIInv'
<1> USE DEF SagIInv
<1>1. /\ d \in unsure /\ late' = late \ {d} /\ SagBoxes!Request({d})
      /\ UNCHANGED <<session, powered, heaters, command, stage, device, message,
                     unsure, failed, uncounted>>
  BY DEF ServeLate, exchange, history, ExchangeOK
<1>2. /\ SagBoxes!TypeOK'
      /\ \A e \in SagRelay \ {d} : Level(e)' <=> Level(e)
  BY <1>1, RequestStep DEF SagRelay
<1>3. SagTypeOK' /\ ExchangeOK' /\ PowerDownOK'
  BY <1>1, <1>2 DEF SagTypeOK, ExchangeOK, PowerDownOK, Noted
<1>4. SagFlagsTellPower'
  BY <1>1, <1>2, FlagsStay DEF SagRelay
<1> QED BY <1>3, <1>4

LEMMA HeaterThreadStep ==
    ASSUME SagIInv, HeatersRun \/ HeatersFail
    PROVE  SagIInv'
<1> USE DEF SagIInv
<1>1. /\ UNCHANGED <<on, request, asked, ended, session, powered, command, stage, device,
                     message, late, unsure, failed, uncounted>>
      /\ heaters' \in {"none", "running"}
  BY DEF HeatersRun, HeatersFail, boxes, exchange, history
<1>2. SagTypeOK' /\ ExchangeOK' /\ PowerDownOK'
  BY <1>1 DEF SagTypeOK, SagBoxes!TypeOK, ExchangeOK, PowerDownOK, Noted
<1>3. SagFlagsTellPower'
  BY <1>1, FlagsStay DEF Level
<1> QED BY <1>2, <1>3

\* After a restart no flag is up, and what is on is in doubt.
LEMMA RestartStep ==
    ASSUME SagIInv, Restart
    PROVE  SagIInv'
<1> USE DEF SagIInv
<1>1. /\ powered' = {} /\ heaters' = "none" /\ command' = "none" /\ stage' = 1
      /\ message' = "none" /\ device' = "rfsoc" /\ failed' = {} /\ uncounted' = FALSE
      /\ late' \subseteq SagDevice
      /\ unsure' = unsure \cup (({d \in SagDevice : Level(d)} \cup late') \cap SagDevice)
      /\ UNCHANGED <<on, request, asked, ended, session>>
  BY DEF Restart, Doubt, boxes, SagTypeOK
<1>a. "rfsoc" \in SagDevice /\ 1 \in 1 .. 7
  BY DEF SagDevice
<1>b. unsure' \subseteq SagDevice /\ late' \subseteq unsure'
  BY <1>1 DEF SagTypeOK
<1>c. SagBoxes!TypeOK'
  BY <1>1 DEF SagTypeOK, SagBoxes!TypeOK
<1>d. SagTypeOK'
  BY <1>1, <1>a, <1>b, <1>c DEF SagTypeOK
<1>e. ExchangeOK' /\ PowerDownOK'
  BY <1>1, <1>b DEF ExchangeOK, PowerDownOK
<1>2. SagTypeOK' /\ ExchangeOK' /\ PowerDownOK'
  BY <1>d, <1>e
<1>3. \A d \in SagDevice \ unsure' : ~Counted(d)' /\ ~Level(d)'
  BY <1>1 DEF Counted, Noted, Level
<1>4. SagFlagsTellPower'
  BY <1>3 DEF SagFlagsTellPower
<1> QED BY <1>2, <1>4

\* What happens to the boxes alone keeps the flags right if the level of every
\* device that is not in doubt after it stays.
LEMMA BoxStep ==
    ASSUME SagIInv, SagBoxes!TypeOK',
           UNCHANGED <<session, powered, heaters, command, stage, device, message, late,
                       failed, uncounted>>,
           unsure \subseteq unsure', unsure' \subseteq SagDevice,
           \A d \in SagDevice \ unsure' : Level(d)' <=> Level(d)
    PROVE  SagIInv'
<1> USE DEF SagIInv
<1>1. SagTypeOK' /\ ExchangeOK' /\ PowerDownOK'
  BY DEF SagTypeOK, ExchangeOK, PowerDownOK, Noted
<1>2. SagFlagsTellPower'
  BY FlagsStay
<1> QED BY <1>1, <1>2

LEMMA UnnoticedFrame ==
    ASSUME SagTypeOK, NEW D, Unnoticed(D)
    PROVE  /\ UNCHANGED <<session, powered, heaters, command, stage, device, message, late,
                          failed, uncounted>>
           /\ unsure \subseteq unsure' /\ unsure' \subseteq SagDevice
           /\ D \cap SagDevice \subseteq unsure'
BY DEF Unnoticed, Doubt, exchange, SagTypeOK

\* A flip answers the request: the level of its relay stays.
LEMMA FlipStep ==
    ASSUME SagIInv, BoxFlips
    PROVE  SagIInv'
<1>1. PICK r \in SagRelay : SagBoxes!Apply(r)
  BY DEF BoxFlips
<1>2. /\ request[r] /\ UNCHANGED <<asked, ended>>
      /\ on' = [on EXCEPT ![r] = ~@] /\ request' = [request EXCEPT ![r] = FALSE]
      /\ on \in [SagRelay -> BOOLEAN] /\ request \in [SagRelay -> BOOLEAN]
  BY <1>1 DEF SagBoxes!Apply, SagIInv, SagTypeOK, SagBoxes!TypeOK
<1>3. /\ on' \in [SagRelay -> BOOLEAN] /\ request' \in [SagRelay -> BOOLEAN]
      /\ on'[r] <=> ~on[r]
      /\ ~request'[r]
      /\ \A d \in SagRelay \ {r} : (on'[d] <=> on[d]) /\ (request'[d] <=> request[d])
  BY <1>2, Zenon
<1>4. SagBoxes!TypeOK'
  BY <1>2, <1>3 DEF SagBoxes!TypeOK, SagIInv, SagTypeOK
<1>5. \A d \in SagDevice : Level(d)' <=> Level(d)
  BY <1>2, <1>3 DEF Level, SagRelay
<1> QED BY <1>4, <1>5, BoxStep DEF BoxFlips, sag, exchange, history, SagIInv, SagTypeOK

\* A dropped request leaves its device in doubt.
LEMMA RefuseStep ==
    ASSUME SagIInv, NEW r \in SagRelay, BoxRefuses(r)
    PROVE  SagIInv'
<1>1. /\ request' = [d \in SagRelay |-> d \notin {r} /\ request[d]]
      /\ UNCHANGED <<on, asked, ended>> /\ Unnoticed({r})
  BY DEF BoxRefuses, SagBoxes!Drop
<1>2. request' \in [SagRelay -> BOOLEAN]
  BY <1>1, Zenon
<1>3. SagBoxes!TypeOK'
  BY <1>1, <1>2 DEF SagIInv, SagTypeOK, SagBoxes!TypeOK
<1>4. \A d \in SagRelay \ {r} : request'[d] <=> request[d]
  BY <1>1
<1>5. \A d \in SagDevice \ unsure' : Level(d)' <=> Level(d)
  BY <1>1, <1>4, UnnoticedFrame DEF Level, SagRelay, SagIInv
<1> QED BY <1>1, <1>3, <1>5, BoxStep, UnnoticedFrame DEF SagIInv

\* Ophiuchus toggles relays of its own.
LEMMA OthersStep ==
    ASSUME SagIInv, NEW R \in SUBSET (Others \ SagDevice), OthersToggle(R)
    PROVE  SagIInv'
<1>1. /\ SagBoxes!Request(R) /\ Unnoticed({}) /\ R \in SUBSET SagRelay
  BY DEF OthersToggle, SagRelay
<1>2. /\ SagBoxes!TypeOK'
      /\ \A d \in SagDevice : Level(d)' <=> Level(d)
  BY <1>1, RequestStep DEF SagIInv, SagRelay
<1> QED BY <1>1, <1>2, BoxStep, UnnoticedFrame DEF SagIInv

LEMMA ProgramStep ==
    ASSUME SagIInv, AskShutdown \/ BoxesEnd \/ BoxesCrash \/ BoxesStart
    PROVE  SagIInv'
<1>1. CASE AskShutdown \/ BoxesEnd \/ BoxesCrash
  <2>1. /\ UNCHANGED <<on, request>> /\ asked' \in BOOLEAN /\ ended' \in BOOLEAN
        /\ UNCHANGED sag \/ \E D : Unnoticed(D)
    BY <1>1 DEF AskShutdown, BoxesEnd, BoxesCrash, SagBoxes!AskShutdown, SagBoxes!Finish, boxes,
        SagIInv, SagTypeOK, SagBoxes!TypeOK
  <2>2. SagBoxes!TypeOK' /\ \A d \in SagDevice : Level(d)' <=> Level(d)
    BY <2>1 DEF Level, SagIInv, SagTypeOK, SagBoxes!TypeOK
  <2>3. /\ UNCHANGED <<session, powered, heaters, command, stage, device, message, late,
                       failed, uncounted>>
        /\ unsure \subseteq unsure' /\ unsure' \subseteq SagDevice
    BY <2>1, UnnoticedFrame DEF sag, exchange, history, SagIInv, SagTypeOK
  <2> QED BY <2>2, <2>3, BoxStep
<1>2. CASE BoxesStart
  <2>1. /\ on' = [r \in SagRelay |-> FALSE] /\ request' = on'
        /\ asked' = FALSE /\ ended' = FALSE
        /\ Unnoticed({d \in SagDevice : Level(d)})
    BY <1>2 DEF BoxesStart
  <2>2. SagBoxes!TypeOK'
    BY <2>1 DEF SagBoxes!TypeOK
  <2>3. \A d \in SagDevice : ~Level(d)'
    BY <2>1 DEF Level
  <2>4. \A d \in SagDevice \ unsure' : ~Level(d)
    BY <2>1, UnnoticedFrame DEF SagIInv
  <2> QED BY <2>1, <2>2, <2>3, <2>4, BoxStep, UnnoticedFrame DEF SagIInv
<1> QED BY <1>1, <1>2

-----------------------------------------------------------------------------
(* The theorems *)

LEMMA InitStep == SagBoxes!Init /\ SagInit => SagIInv
<1> SUFFICES ASSUME SagBoxes!Init, SagInit PROVE SagIInv
  OBVIOUS
<1>a. "rfsoc" \in SagDevice /\ 1 \in 1 .. 7
  BY DEF SagDevice
<1>b. SagBoxes!TypeOK
  BY DEF SagBoxes!Init, SagBoxes!TypeOK
<1>c. SagTypeOK
  BY <1>a, <1>b DEF SagInit, SagTypeOK
<1>1. SagTypeOK /\ ExchangeOK /\ PowerDownOK
  BY <1>c DEF SagInit, ExchangeOK, PowerDownOK
<1>2. SagFlagsTellPower
  BY DEF SagInit, SagBoxes!Init, SagFlagsTellPower, Counted, Noted, Level, SagRelay
<1> QED BY <1>1, <1>2 DEF SagIInv

LEMMA StutterStep == ASSUME SagIInv, UNCHANGED sag_vars PROVE SagIInv'
<1>1. UNCHANGED <<on, request, asked, ended, session, powered, heaters, command, stage, device,
                  message, late, unsure, failed, uncounted>>
  BY DEF sag_vars, sag, boxes, exchange, history
<1>2. SagBoxes!TypeOK' /\ \A d \in SagDevice : Level(d)' <=> Level(d)
  BY <1>1 DEF SagIInv, SagTypeOK, SagBoxes!TypeOK, Level
<1> QED BY <1>1, <1>2, BoxStep DEF SagIInv, SagTypeOK

\* The inductive invariant holds for any sets of commanded devices.
THEOREM SagInvariant == SagSpec => []SagIInv
<1>1. SagIInv /\ [SagNext]_sag_vars => SagIInv'
  <2> SUFFICES ASSUME SagIInv, [SagNext]_sag_vars PROVE SagIInv'
    OBVIOUS
  <2>1. CASE Own
    BY <2>1, CommandStep, PowerDownStep, AnsweredStep, UnansweredStep, HeaterThreadStep,
       RestartStep DEF Own, Continues
  <2>2. CASE Server
    BY <2>2, ServeStep, ServeLateStep DEF Server
  <2>3. CASE BoxFlips \/ \E r \in SagRelay : BoxRefuses(r)
    BY <2>3, FlipStep, RefuseStep
  <2>4. CASE \E R \in SUBSET (Others \ SagDevice) : OthersToggle(R)
    BY <2>4, OthersStep
  <2>5. CASE AskShutdown \/ BoxesEnd \/ BoxesCrash \/ BoxesStart
    BY <2>5, ProgramStep
  <2>6. CASE UNCHANGED sag_vars
    BY <2>6, StutterStep
  <2> QED BY <2>1, <2>2, <2>3, <2>4, <2>5, <2>6 DEF SagNext
<1> QED BY <1>1, InitStep, PTL DEF SagSpec

\* Through every order of commands, replies that are lost or late, restarts of
\* either computer and writes that the boxes refuse, the flag of a device that is
\* not in doubt tells what its relay is or will be (cli_Sag.c, pbob_client.c).
THEOREM SagFlagsAreRight == SagSpec => []SagFlagsTellPower
<1>1. SagIInv => SagFlagsTellPower
  BY DEF SagIInv
<1> QED BY <1>1, SagInvariant, PTL

\* At the end of exit, what was reached is off or asked to go off; the heater box
\* may be on if stop_heaters toggled it (the power down of exec_command).
THEOREM SagExitIsOff == SagSpec => []SagExitSwitchesOff
<1>1. SagIInv => SagExitSwitchesOff
  <2> SUFFICES ASSUME SagIInv, command = "exited",
                      NEW d \in SagDevice, d \notin unsure, d \notin failed, Level(d)
               PROVE  d = "heaters" /\ uncounted
    BY DEF SagExitSwitchesOff
  <2>1. message = "none" /\ d \notin powered
    BY DEF SagIInv, SagTypeOK, ExchangeOK, PowerDownOK
  <2>2. Counted(d)
    BY DEF SagIInv, SagFlagsTellPower
  <2> QED BY <2>1, <2>2 DEF Counted, Noted
<1> QED BY <1>1, SagInvariant, PTL
=============================================================================

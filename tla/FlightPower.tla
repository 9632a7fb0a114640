---------------------------- MODULE FlightPower ----------------------------
(***************************************************************************)
(* The power of the whole payload: the main thread of Ophiuchus (OphPower)  *)
(* and the command thread of Saggitarius (SagPower) over the same power     *)
(* boxes (RelayPower).  The polling thread and the UDP server of the boxes  *)
(* are threads of Ophiuchus: they end with its program, and its shutdown    *)
(* waits for the relays of both computers.                                  *)
(***************************************************************************)
EXTENDS OphPower

CONSTANTS Sessions,   \* BOUND: the devices of Saggitarius that get commands
          Together    \* BOUND: what is enabled and commanded in one behaviour

VARIABLES session, powered, heaters, command, stage, device, message, late,
          unsure, failed, uncounted     \* Saggitarius, see SagPower

Sag == INSTANCE SagPower WITH Others <- Device

\* The relays that other computers toggle are those of Saggitarius.
ASSUME FlightAssumption == Remote = Sag!SagDevice

sag == <<session, powered, heaters, command, stage, device, message, late,
         unsure, failed, uncounted>>
flight == <<vars, sag>>

FlightInit == /\ Init /\ Sag!SagInit
              /\ <<enabled, session>> \in Together

-----------------------------------------------------------------------------
pending == {d \in Remote : request[d]}

oph_idle == UNCHANGED <<main, flags, log>>

\* BOUND: a computer without a device in the session is sent no commands, and a
\* device of Saggitarius that is in doubt, of which nothing is said, no more.
oph_used == enabled # {}
sag_used == /\ session # {}
            /\ (command = "none" /\ message' = "sent") => device' \notin unsure

\* A crash of the main thread takes the polling thread with it.
Ophiuchus == /\ oph_used
             /\ Commands \/ Shutdown
             /\ IF main # "aborted" /\ main' = "aborted" THEN Sag!Unnoticed(pending)
                                                        ELSE UNCHANGED sag

Saggitarius == Sag!Own /\ sag_used /\ oph_idle /\ UNCHANGED missed

\* The UDP server runs set_toggle as the main thread does.
Answer ==
    LET served == (IF message = message' THEN {} ELSE {device}) \cup (late \ late')
    IN /\ alive /\ Sag!Server
       /\ missed' = missed \cup {d \in served : request[d]}
       /\ oph_idle

Flip == BoxFlips /\ UNCHANGED sag

Refuse == /\ alive
          /\ \E r \in Relay : Sag!BoxRefuses(r) /\ missed' = missed \cup {r}
          /\ oph_idle

End == alive /\ Sag!BoxesEnd /\ oph_idle /\ UNCHANGED missed

\* The program of Ophiuchus is started again.
OphRestart ==
    /\ Sag!BoxesStart
    /\ main' = "commands"
    /\ receiver_on' = FALSE /\ bvexcam_on' = FALSE /\ stop' = TRUE
    /\ lockpin_on' = FALSE /\ housekeeping_on' = FALSE
    /\ log' = [d \in {"bvexcam", "motor", "housekeeping"} |-> "null"]
    /\ missed' = {}
    /\ UNCHANGED enabled

\* Nothing happens any more until a program is started again.
Idle == UNCHANGED flight

FlightNext == Ophiuchus \/ Saggitarius \/ Answer \/ Flip \/ Refuse \/ End
              \/ OphRestart \/ Idle

\* Both shutdowns run on by themselves, a call of pbob_send_command returns in
\* time, and the polling thread gets to every flag (Pbob, RequestApplied).
FlightSpec == /\ FlightInit /\ [][FlightNext]_flight
              /\ WF_flight(Shutdown /\ Ophiuchus)
              /\ WF_flight(Sag!Continues /\ Saggitarius)
              /\ WF_flight(End)
              /\ \A r \in Relay : WF_flight(Boxes!Apply(r) /\ Flip)

-----------------------------------------------------------------------------
(* Properties.  TypeOK, FlagsTellPower and ExitSwitchesOff of OphPower hold here
   too, with Saggitarius in the place of its RemoteToggles and with restarts. *)

\* See SagPower: with Ophiuchus as it really is, which crashes, ends and starts
\* again, a flag of Saggitarius still tells what the relay is.
SagFlagsTellPower == Sag!SagFlagsTellPower

\* See SagPower: exit of Saggitarius switches off what it reached.
SagExitSwitchesOff == Sag!SagExitSwitchesOff

\* The composition is an instance of what SagPower says of its environment, so
\* that its theorems hold for it.
SagSpec == Sag!SagSpec

\* The join of the shutdown of Ophiuchus returns, unless a flip was missed,
\* housekeeping was left on, or a device of Saggitarius is on.
JoinReturns ==
    (main = "join") ~> \/ main # "join"
                       \/ missed # {}
                       \/ housekeeping_on
                       \/ \E d \in Remote : on[d] \/ request[d]

\* The command exit_both goes to both computers.  Ophiuchus then waits for all
\* relays, those of Saggitarius too, and only the exit of Saggitarius can switch
\* them off: both programs end, whichever comes first and whatever is under way,
\* unless a flip was missed, a request was lost, a device was left on without a
\* command that switches it off (housekeeping, the heater box), a command had been
\* repeated, or a computer is started again.
BothExitsEnd ==
    (main = "join" /\ command = "exit") ~>
        \/ main = "done" /\ command = "exited"
        \/ missed # {} \/ unsure # {} \/ failed # {}
        \/ housekeeping_on \/ uncounted
        \/ main = "commands" \/ command = "none"
=============================================================================

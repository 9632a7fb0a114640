------------------------------ MODULE SagPower ------------------------------
(***************************************************************************)
(* The command thread of Saggitarius and the power of its devices           *)
(* (exec_command of cli_Sag.c over pbob_send_command of pbob_client.c),     *)
(* composed with the power boxes, of which it uses what RelayPower says.    *)
(*                                                                         *)
(* The boxes hang on the other computer: a toggle is a UDP request and a    *)
(* reply, either of which can be lost or late.  The command thread sends    *)
(* the same request for on and for off and keeps one flag per device, so    *)
(* flag and relay stay in step only while every request is answered and the *)
(* commands of a device alternate.                                          *)
(***************************************************************************)
EXTENDS Integers

CONSTANTS Others,       \* the relays that Ophiuchus toggles itself
          Sessions,     \* BOUND: the sets of devices that are sent commands
          LabJackFails  \* whether the boxes may refuse a write

\* The power down of the command exit, in its order.
PowerDown == <<"rfsoc", "gps", "ticc", "backend", "heaters", "position_sensors">>

SagDevice == {"rfsoc", "gps", "ticc", "backend", "heaters", "position_sensors"}

\* The configuration gives every device a relay of its own, which has its name.
SagRelay == SagDevice \cup Others

VARIABLES
    on, request, asked, ended,  \* the power boxes, see RelayPower
    session,        \* the devices that get commands
    powered,        \* the devices with <device>_powered_on_this_session
    heaters,        \* main_heaters_thread: none, starting, or heaters_running
    command, stage, \* what the command thread does, and the step of PowerDown
    device,         \* whose relay pbob_send_command is about
    message,        \* none, sent: the request is under way, served: the reply is
    late,           \* requests under way that nobody waits for any more
    unsure,         \* history: devices whose flag may be wrong, see Doubt
    failed,         \* history: devices that exit could not reach
    uncounted       \* history: stop_heaters toggled the heater box and left the flag

SagBoxes == INSTANCE RelayPower WITH Relay <- SagRelay
boxes    == <<on, request, asked, ended>>
exchange == <<device, message>>
history  == <<unsure, failed, uncounted>>
sag      == <<session, powered, heaters, command, stage, exchange, late, history>>
sag_vars == <<boxes, sag>>

-----------------------------------------------------------------------------
SagInit == /\ session \in Sessions
           /\ powered = {} /\ heaters = "none"
           /\ command = "none" /\ stage = 1
           /\ device = "rfsoc" /\ message = "none" /\ late = {}
           /\ unsure = {} /\ failed = {} /\ uncounted = FALSE

\* What the relay is once the request on its way is met.
Level(d) == ~(on[d] <=> request[d])

\* What the flag of a device stands for, corrected by what stop_heaters did to the
\* box, and by the request that the box has and the command thread does not know of.
Noted(d)   == IF d = "heaters" /\ uncounted THEN d \notin powered ELSE d \in powered
Counted(d) == IF message = "served" /\ device = d THEN ~Noted(d) ELSE Noted(d)

\* The flag of a device is in doubt from the moment on at which a request was
\* not answered, not met or raised upon another one, or a command was repeated.
Doubt(D) == unsure' = unsure \cup (D \cap SagDevice)

-----------------------------------------------------------------------------
(* exec_command: every handler calls pbob_send_command, which makes a socket of
   its own, and goes on with what it returned. *)

Ask(c, d) == /\ command' = c /\ device' = d /\ message' = "sent"
             /\ UNCHANGED <<boxes, session, powered, late, failed>>

\* None of the commands that switch on looks at the flag: a second one switches off.
PowerOn(d) ==
    /\ command = "none" /\ d \in session \cap SagDevice
    /\ Ask("on", d)
    /\ Doubt(IF Counted(d) THEN {d} ELSE {})
    /\ UNCHANGED <<heaters, stage, uncounted>>

PowerOff(d) ==
    /\ command = "none" /\ d \in session \cap SagDevice
    /\ Ask("off", d)
    /\ Doubt(IF Counted(d) THEN {} ELSE {d})
    /\ UNCHANGED <<heaters, stage, uncounted>>

rfsoc_on         == PowerOn("rfsoc")
rfsoc_off        == PowerOff("rfsoc")
start_gps        == PowerOn("gps")
stop_gps         == PowerOff("gps")
start_backend    == PowerOn("backend")
stop_backend     == PowerOff("backend")
position_box_on  == PowerOn("position_sensors")
position_box_off == PowerOff("position_sensors")
start_heater_box == PowerOn("heaters")      \* there is no command to switch it off

\* The timing chain is what the TICC needs.
start_timing_chain == PowerOn("ticc")
stop_timing_chain  == PowerOff("ticc")

PowerCommands ==
    \/ rfsoc_on \/ start_gps \/ start_backend \/ position_box_on \/ start_heater_box
    \/ start_timing_chain
    \/ rfsoc_off \/ stop_gps \/ stop_backend \/ position_box_off \/ stop_timing_chain

start_heaters ==
    /\ command = "none" /\ "heaters" \in session
    /\ heaters = "none" /\ heaters' = "starting"
    /\ UNCHANGED <<boxes, session, powered, command, stage, exchange, late, history>>

\* The thread is told to stop and joined, then the box is switched off.
stop_heaters ==
    /\ command = "none" /\ heaters = "running" /\ heaters' = "none"
    /\ Ask("stop", "heaters")
    /\ UNCHANGED <<stage, unsure, uncounted>>

\* Phase 1 of exit_both stops the services; of them only the heaters matter here.
exit_both ==
    /\ command = "none" /\ command' = "exit" /\ stage' = 1
    /\ heaters' = IF heaters = "running" THEN "none" ELSE heaters
    /\ UNCHANGED <<boxes, session, powered, exchange, late, history>>

\* Mutant: the first device whose flag is down ends the power down.
PowerDownNext_Breaks ==
    /\ command = "exit" /\ message = "none" /\ stage \in 1 .. 6
    /\ IF PowerDown[stage] \in powered
       THEN Ask("exit", PowerDown[stage]) /\ UNCHANGED stage
       ELSE stage' = 7 /\ UNCHANGED <<boxes, session, powered, command, exchange,
                                      late, failed>>
    /\ UNCHANGED <<heaters, unsure, uncounted>>

\* Phase 2: one device after the other, only those whose flag is up.
PowerDownNext ==
    /\ command = "exit" /\ message = "none" /\ stage \in 1 .. 6
    /\ IF PowerDown[stage] \in powered
       THEN Ask("exit", PowerDown[stage]) /\ UNCHANGED stage
       ELSE stage' = stage + 1 /\ UNCHANGED <<boxes, session, powered, command, exchange,
                                              late, failed>>
    /\ UNCHANGED <<heaters, unsure, uncounted>>

ExitDone ==
    /\ command = "exit" /\ message = "none" /\ stage = 7 /\ command' = "exited"
    /\ UNCHANGED <<boxes, session, powered, heaters, stage, exchange, late, history>>

-----------------------------------------------------------------------------
(* pbob_send_command *)

\* Where the command thread goes when pbob_send_command has returned.
Returned == /\ message' = "none" /\ UNCHANGED device
            /\ IF command = "exit" THEN stage' = stage + 1 /\ UNCHANGED command
                                   ELSE command' = "none" /\ UNCHANGED stage

\* Mutant: the commands that switch off leave the flag up.
Answered_FlagStays ==
    /\ message = "served" /\ Returned
    /\ powered' = IF command = "on" THEN powered \cup {device} ELSE powered
    /\ uncounted' = CASE command = "on" /\ device = "heaters" -> FALSE
                      [] command = "stop" -> ~uncounted
                      [] OTHER -> uncounted
    /\ UNCHANGED <<boxes, session, heaters, late, unsure, failed>>

\* The reply is there.  Every command but stop_heaters keeps the flag.
Answered ==
    /\ message = "served" /\ Returned
    /\ powered' = CASE command = "on"   -> powered \cup {device}
                    [] command = "stop" -> powered
                    [] OTHER            -> powered \ {device}
    /\ uncounted' = CASE command = "on" /\ device = "heaters" -> FALSE
                      [] command = "stop" -> ~uncounted
                      [] OTHER -> uncounted
    /\ UNCHANGED <<boxes, session, heaters, late, unsure, failed>>

\* The timeout, or an error of the socket: the request was lost, or will come
\* late, or the reply is lost or will find the socket closed.
Unanswered ==
    /\ message # "none" /\ Returned
    /\ \/ message = "sent" /\ UNCHANGED <<late, unsure>>
       \/ message = "sent" /\ late' = late \cup {device} /\ Doubt({device})
       \/ message = "served" /\ UNCHANGED late /\ Doubt({device})
    /\ failed' = IF command = "exit" THEN failed \cup {device} ELSE failed
    /\ UNCHANGED <<boxes, session, powered, heaters, uncounted>>

-----------------------------------------------------------------------------
(* do_server_pbob on Ophiuchus *)

\* A request raised upon another one makes no flip, nor does one that comes when
\* the polling thread has ended.
Serve ==
    /\ message = "sent" /\ message' = "served"
    /\ SagBoxes!Request({device})
    /\ Doubt(IF request[device] \/ ended THEN {device} ELSE {})
    /\ UNCHANGED <<session, powered, heaters, command, stage, device, late, failed, uncounted>>

ServeLate(d) ==
    /\ d \in late /\ late' = late \ {d}
    /\ SagBoxes!Request({d})
    /\ UNCHANGED <<session, powered, heaters, command, stage, exchange, history>>

-----------------------------------------------------------------------------
(* The heater thread and the program *)

\* open_labjack finds a box that has power only.
HeatersRun ==
    /\ heaters = "starting" /\ on["heaters"] /\ heaters' = "running"
    /\ UNCHANGED <<boxes, session, powered, command, stage, exchange, late, history>>

HeatersFail ==
    /\ heaters = "starting" /\ heaters' = "none"
    /\ UNCHANGED <<boxes, session, powered, command, stage, exchange, late, history>>

\* The program ends, by a crash, by exit() in open_labjack or after the command
\* exit, and is started again: no flag is up, whatever is on.
Restart ==
    /\ powered' = {} /\ heaters' = "none" /\ command' = "none" /\ stage' = 1
    /\ message' = "none" /\ device' = "rfsoc"
    /\ late' \in {late, late \cup (IF message = "sent" THEN {device} ELSE {})}
    /\ Doubt({d \in SagDevice : Level(d)} \cup late')
    /\ failed' = {} /\ uncounted' = FALSE
    /\ UNCHANGED <<boxes, session>>

-----------------------------------------------------------------------------
(* The power boxes and the other computer *)

BoxFlips == /\ \E r \in SagRelay : SagBoxes!Apply(r)
            /\ UNCHANGED sag

\* What happens to the boxes beside flips leaves devices in doubt, and nothing
\* else of Saggitarius takes part in it.
Unnoticed(D) ==
    /\ Doubt(D)
    /\ UNCHANGED <<session, powered, heaters, command, stage, exchange, late, failed, uncounted>>

BoxRefuses(r) == LabJackFails /\ SagBoxes!Drop({r}) /\ Unnoticed({r})

OthersToggle(R) == SagBoxes!Request(R) /\ Unnoticed({})

AskShutdown == SagBoxes!AskShutdown /\ UNCHANGED sag

\* all_relays_off does not look at the requests.
BoxesEnd == SagBoxes!Finish /\ Unnoticed({d \in SagDevice : request[d]})

\* Ophiuchus crashes: what was asked for is forgotten.
BoxesCrash == Unnoticed({d \in SagDevice : request[d]}) /\ UNCHANGED boxes

\* The program of Ophiuchus starts, and initialize_relays switches all off.
BoxesStart == /\ on' = [r \in SagRelay |-> FALSE] /\ request' = on'
              /\ asked' = FALSE /\ ended' = FALSE
              /\ Unnoticed({d \in SagDevice : Level(d)})

-----------------------------------------------------------------------------
Commands == \/ PowerCommands
            \/ start_heaters \/ stop_heaters \/ exit_both

Continues == PowerDownNext \/ ExitDone \/ Answered \/ Unanswered

Own == Commands \/ Continues \/ HeatersRun \/ HeatersFail \/ Restart

Server == Serve \/ \E d \in SagDevice : ServeLate(d)

SagNext == \/ Own \/ Server
           \/ BoxFlips \/ \E r \in SagRelay : BoxRefuses(r)
           \/ \E R \in SUBSET (Others \ SagDevice) : OthersToggle(R)
           \/ AskShutdown \/ BoxesEnd \/ BoxesCrash \/ BoxesStart

SagSpec == SagBoxes!Init /\ SagInit /\ [][SagNext]_sag_vars

-----------------------------------------------------------------------------
(* Properties *)

SagTypeOK ==
    /\ SagBoxes!TypeOK
    /\ session \in Sessions /\ powered \subseteq SagDevice
    /\ heaters \in {"none", "starting", "running"}
    /\ command \in {"none", "on", "off", "stop", "exit", "exited"}
    /\ stage \in 1 .. 7 /\ device \in SagDevice
    /\ message \in {"none", "sent", "served"}
    /\ late \subseteq SagDevice /\ unsure \subseteq SagDevice /\ failed \subseteq SagDevice
    /\ uncounted \in BOOLEAN

\* Through every sequence of commands, restarts and losses on the network, the
\* flag of a device tells what its relay is, or will be when the request on its
\* way is met, as long as its requests were answered and its commands alternated.
SagFlagsTellPower ==
    \A d \in SagDevice \ unsure : Counted(d) <=> Level(d)

\* What a call of pbob_send_command is about.
ExchangeOK ==
    /\ message # "none" => command \in {"on", "off", "stop", "exit"}
    /\ (command = "on" /\ device \notin unsure) => ~Noted(device)
    /\ (command = "off" /\ device \notin unsure) => Noted(device)
    /\ command = "off" => device # "heaters"
    /\ command = "stop" => device = "heaters"
    /\ (command = "exit" /\ message # "none") =>
          stage \in 1 .. 6 /\ device = PowerDown[stage] /\ device \in powered
    /\ late \subseteq unsure

\* What the power down has still to do.
PowerDownOK ==
    /\ command \in {"exit", "exited"} =>
          powered \subseteq failed \cup {PowerDown[k] : k \in stage .. 6}
    /\ command = "exited" => stage = 7

\* What every step preserves: the inductive invariant of SagPowerProofs.
SagIInv == SagTypeOK /\ SagFlagsTellPower /\ ExchangeOK /\ PowerDownOK

\* When exit has come to its end, every device that it reached is off or asked to
\* go off; but not the heater box, if stop_heaters has been at it before.
SagExitSwitchesOff ==
    command = "exited" =>
        \A d \in SagDevice \ (unsure \cup failed) :
            Level(d) => d = "heaters" /\ uncounted

\* "All services stopped and subsystems powered down": the same, for the heater
\* box as for the others.
NothingLeftOn ==
    command = "exited" => \A d \in SagDevice \ (unsure \cup failed) : ~Level(d)
=============================================================================

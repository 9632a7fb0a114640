------------------------------ MODULE OphPower ------------------------------
(***************************************************************************)
(* The main thread of Ophiuchus and the power of its devices                *)
(* (exec_command of cli_Oph.c and the shutdown sequence of main_Oph.c),     *)
(* composed with the power boxes, of which it uses what RelayPower says.    *)
(*                                                                         *)
(* The main thread cannot read a relay.  It remembers in one flag per       *)
(* device whether the device is on, and a relay can only be toggled, so the *)
(* flag and the relay have to stay in step.  A command is one action: while *)
(* it runs, the only other writer of these variables is the polling thread  *)
(* of the boxes, and its steps commute with the rest of the command.        *)
(***************************************************************************)
EXTENDS Integers

CONSTANTS Remote,       \* relays that other computers toggle over UDP
          Configured,   \* BOUND: the sets of devices a configuration may enable
          LabJackFails  \* whether the boxes may refuse a write

Device == {"lna", "mixer", "bvexcam", "motor", "lockpin", "housekeeping"}

\* The configuration gives every device a relay of its own, which has its name.
Relay == Device \cup Remote

ASSUME OphPowerAssumption ==
    /\ Remote \cap Device = {}
    /\ Configured \subseteq SUBSET Device
    /\ LabJackFails \in BOOLEAN

VARIABLES
    on, request, asked, ended,      \* the power boxes, see RelayPower
    enabled,        \* the devices with config.<device>.enabled
    main,           \* where the main thread is
    receiver_on, bvexcam_on, stop, lockpin_on, housekeeping_on,
    log,            \* bvexcam_log, motor_log and housekeeping_log
    missed          \* history: relays with a set_toggle that made no flip, or
                    \* toggled for a device whose start then failed

Boxes == INSTANCE RelayPower
power == <<on, request, asked, ended>>
flags == <<enabled, receiver_on, bvexcam_on, stop, lockpin_on, housekeeping_on>>
vars  == <<power, main, flags, log, missed>>

-----------------------------------------------------------------------------
\* The steps of the shutdown, in the order of main_Oph.c.
Stage == {"receiver", "bvexcam", "motor", "lockpin", "housekeeping", "pbob", "join"}

\* A crash or an exit() in a handler ends every thread of the program.
alive == main \notin {"aborted", "done"}

Init == /\ Boxes!Init
        /\ enabled \in Configured
        /\ main = "commands"    \* main waits for pbob_ready before that
        /\ receiver_on = FALSE /\ bvexcam_on = FALSE /\ stop = TRUE
        /\ lockpin_on = FALSE /\ housekeeping_on = FALSE
        /\ log = [d \in {"bvexcam", "motor", "housekeeping"} |-> "null"]
        /\ missed = {}

\* set_toggle returns nothing: a request on top of one not yet met is missed.
set_toggle(R) == /\ Boxes!Request(R)
                 /\ missed' = missed \cup {r \in R : request[r]}

no_toggle == UNCHANGED <<power, missed>>

fopen(d)  == \E l \in {"open", "null"} : log' = [log EXCEPT ![d] = l]

\* fclose of NULL crashes; closing twice may crash or may go unnoticed.
fclose(d) == log[d] # "null" /\ log' = [log EXCEPT ![d] = "closed"]
fcloseCrashes(d) == log[d] # "open"

\* A handler that does not survive: what it did before does not matter any
\* more, the polling thread is gone with it.
abort == main' = "aborted" /\ no_toggle /\ UNCHANGED <<flags, log>>

-----------------------------------------------------------------------------
(* exec_command *)

receiver_enabled == {"lna", "mixer"} \subseteq enabled

\* Mutant: the mixer is forgotten.
receiver_stop_OneRelay ==
    /\ main = "commands" /\ receiver_enabled /\ receiver_on
    /\ set_toggle({"lna"})
    /\ receiver_on' = FALSE
    /\ UNCHANGED <<enabled, main, bvexcam_on, stop, lockpin_on, housekeeping_on, log>>

receiver_start ==
    /\ main = "commands" /\ receiver_enabled /\ ~receiver_on
    /\ set_toggle({"lna", "mixer"})
    /\ receiver_on' = TRUE
    /\ UNCHANGED <<enabled, main, bvexcam_on, stop, lockpin_on, housekeeping_on, log>>

receiver_stop ==
    /\ main = "commands" /\ receiver_enabled /\ receiver_on
    /\ set_toggle({"lna", "mixer"})
    /\ receiver_on' = FALSE
    /\ UNCHANGED <<enabled, main, bvexcam_on, stop, lockpin_on, housekeeping_on, log>>

\* The relay is toggled before the log is opened and the camera initialised.
bvexcam_start ==
    /\ main = "commands" /\ "bvexcam" \in enabled /\ ~bvexcam_on
    /\ fopen("bvexcam")
    /\ log'["bvexcam"] = "open"
    /\ set_toggle({"bvexcam"})
    /\ bvexcam_on' = TRUE
    /\ UNCHANGED <<enabled, main, receiver_on, stop, lockpin_on, housekeeping_on>>

\* Without a log or a thread the camera counts as off, with its relay toggled.
bvexcam_start_Fails ==
    /\ main = "commands" /\ "bvexcam" \in enabled /\ ~bvexcam_on
    /\ fopen("bvexcam")
    /\ Boxes!Request({"bvexcam"}) /\ missed' = missed \cup {"bvexcam"}
    /\ UNCHANGED <<main, flags>>

\* init_bvexcam ends the program when the camera or its port is not there.
bvexcam_start_Exits ==
    main = "commands" /\ "bvexcam" \in enabled /\ ~bvexcam_on /\ abort

\* The thread is joined and the relay toggled if the camera is on; the log is
\* closed in any case.
bvexcam_stop ==
    /\ main = "commands"
    /\ fclose("bvexcam")
    /\ IF "bvexcam" \in enabled /\ bvexcam_on
       THEN set_toggle({"bvexcam"}) /\ bvexcam_on' = FALSE
       ELSE no_toggle /\ UNCHANGED bvexcam_on
    /\ UNCHANGED <<enabled, main, receiver_on, stop, lockpin_on, housekeeping_on>>

bvexcam_stop_Crashes == main = "commands" /\ fcloseCrashes("bvexcam") /\ abort

\* stop is cleared first; whether the drive then starts makes no difference to
\* the flags, and without a log neither the relay nor the thread is started.
motor_start ==
    /\ main = "commands" /\ "motor" \in enabled /\ stop
    /\ stop' = FALSE
    /\ fopen("motor")
    /\ IF log'["motor"] = "open" THEN set_toggle({"motor"}) ELSE no_toggle
    /\ UNCHANGED <<enabled, main, receiver_on, bvexcam_on, lockpin_on, housekeeping_on>>

\* Mutant: the flag is not put down.
motor_stop_FlagStays ==
    /\ main = "commands" /\ "motor" \in enabled /\ ~stop
    /\ log["motor"] = "open"
    /\ set_toggle({"motor"})
    /\ UNCHANGED <<main, flags, log>>

motor_stop ==
    /\ main = "commands" /\ "motor" \in enabled /\ ~stop
    /\ log["motor"] = "open" /\ fclose("motor")
    /\ stop' = TRUE
    /\ set_toggle({"motor"})
    /\ UNCHANGED <<enabled, main, receiver_on, bvexcam_on, lockpin_on, housekeeping_on>>

\* No log, no thread: there is nothing to join and NULL is closed.
motor_stop_Crashes ==
    /\ main = "commands" /\ "motor" \in enabled /\ ~stop
    /\ fcloseCrashes("motor")
    /\ abort

lockpin_start ==
    /\ main = "commands" /\ "lockpin" \in enabled /\ ~lockpin_on
    /\ set_toggle({"lockpin"})
    /\ lockpin_on' = TRUE
    /\ UNCHANGED <<enabled, main, receiver_on, bvexcam_on, stop, housekeeping_on, log>>

\* start of lockpin.c ends the program when it cannot open its log.
lockpin_start_Exits ==
    main = "commands" /\ "lockpin" \in enabled /\ ~lockpin_on /\ abort

lockpin_stop ==
    /\ main = "commands" /\ "lockpin" \in enabled /\ lockpin_on
    /\ set_toggle({"lockpin"})
    /\ lockpin_on' = FALSE
    /\ UNCHANGED <<enabled, main, receiver_on, bvexcam_on, stop, housekeeping_on, log>>

\* The log is opened anew even when the power is on already.
cmd_housekeeping_on ==
    /\ main = "commands" /\ "housekeeping" \in enabled
    /\ fopen("housekeeping")
    /\ IF housekeeping_on THEN no_toggle ELSE set_toggle({"housekeeping"})
    /\ housekeeping_on' = TRUE
    /\ UNCHANGED <<enabled, main, receiver_on, bvexcam_on, stop, lockpin_on>>

cmd_housekeeping_off ==
    /\ main = "commands" /\ "housekeeping" \in enabled /\ housekeeping_on
    /\ fclose("housekeeping")
    /\ set_toggle({"housekeeping"})
    /\ housekeeping_on' = FALSE
    /\ UNCHANGED <<enabled, main, receiver_on, bvexcam_on, stop, lockpin_on>>

cmd_housekeeping_off_Crashes ==
    /\ main = "commands" /\ "housekeeping" \in enabled /\ housekeeping_on
    /\ fcloseCrashes("housekeeping")
    /\ abort

\* The start of the data collection and its thread write to the log unchecked.
housekeeping_thread_Crashes ==
    /\ alive /\ housekeeping_on /\ log["housekeeping"] = "null"
    /\ abort

exit_both == /\ main = "commands"
             /\ main' = "receiver"
             /\ no_toggle /\ UNCHANGED <<flags, log>>

-----------------------------------------------------------------------------
(* The shutdown sequence of main *)

shutdown_receiver ==
    /\ main = "receiver" /\ main' = "bvexcam"
    /\ IF receiver_enabled /\ receiver_on
       THEN set_toggle({"lna", "mixer"}) /\ receiver_on' = FALSE
       ELSE no_toggle /\ UNCHANGED receiver_on
    /\ UNCHANGED <<enabled, bvexcam_on, stop, lockpin_on, housekeeping_on, log>>

shutdown_bvexcam ==
    /\ main = "bvexcam" /\ main' = "motor"
    /\ IF "bvexcam" \in enabled /\ bvexcam_on
       THEN set_toggle({"bvexcam"}) /\ bvexcam_on' = FALSE /\ fclose("bvexcam")
       ELSE no_toggle /\ UNCHANGED <<bvexcam_on, log>>
    /\ UNCHANGED <<enabled, receiver_on, stop, lockpin_on, housekeeping_on>>

shutdown_motor ==
    /\ main = "motor"
    /\ IF "motor" \in enabled /\ ~stop
       THEN \/ log["motor"] = "open" /\ main' = "lockpin"
               /\ set_toggle({"motor"}) /\ stop' = TRUE /\ fclose("motor")
               /\ UNCHANGED <<enabled, receiver_on, bvexcam_on, lockpin_on, housekeeping_on>>
            \/ fcloseCrashes("motor") /\ abort
       ELSE main' = "lockpin" /\ no_toggle /\ UNCHANGED <<flags, log>>

\* Mutant: the shutdown switches every relay, not only its own.
shutdown_lockpin_All ==
    /\ main = "lockpin" /\ main' = "housekeeping"
    /\ IF "lockpin" \in enabled /\ lockpin_on THEN set_toggle(Relay) ELSE no_toggle
    /\ UNCHANGED <<flags, log>>

shutdown_lockpin ==
    /\ main = "lockpin" /\ main' = "housekeeping"
    /\ IF "lockpin" \in enabled /\ lockpin_on
       THEN set_toggle({"lockpin"})     \* lockpin_on keeps its value here
       ELSE no_toggle
    /\ UNCHANGED <<flags, log>>

\* Mutant: the shutdown switches the housekeeping board off as well, and forgets
\* to put the flag down.
shutdown_housekeeping_Toggles ==
    /\ main = "housekeeping" /\ main' = "pbob"
    /\ IF "housekeeping" \in enabled THEN set_toggle({"housekeeping"}) ELSE no_toggle
    /\ UNCHANGED <<flags, log>>

\* With the board on its thread is joined and the cleanup writes to the log, which
\* crashes without one; the relay stays as it is.  The log is closed whenever the
\* pointer is set, also when cmd_housekeeping_off has closed it.
shutdown_housekeeping ==
    /\ main = "housekeeping"
    /\ CASE "housekeeping" \in enabled /\ log["housekeeping"] # "null" ->
                \/ main' = "pbob" /\ fclose("housekeeping") /\ no_toggle /\ UNCHANGED flags
                \/ fcloseCrashes("housekeeping") /\ abort
         [] "housekeeping" \in enabled /\ log["housekeeping"] = "null" /\ housekeeping_on ->
                abort
         [] OTHER -> main' = "pbob" /\ no_toggle /\ UNCHANGED <<flags, log>>

shutdown_pbob ==
    /\ main = "pbob" /\ main' = "join"
    /\ Boxes!AskShutdown
    /\ UNCHANGED <<flags, log, missed>>

join_pbob == /\ main = "join" /\ ended
             /\ main' = "done"
             /\ no_toggle /\ UNCHANGED <<flags, log>>

-----------------------------------------------------------------------------
(* The power boxes *)

BoxFlips == /\ alive
            /\ \E r \in Relay : Boxes!Apply(r)
            /\ UNCHANGED <<main, flags, log, missed>>

\* The write of one relay is refused and its request dropped.
BoxRefuses == /\ alive /\ LabJackFails
              /\ \E r \in Relay : Boxes!Drop({r}) /\ missed' = missed \cup {r}
              /\ UNCHANGED <<main, flags, log>>

BoxEnds == /\ alive /\ Boxes!Finish
           /\ UNCHANGED <<main, flags, log, missed>>

\* Saggitarius toggles a relay of its own devices.
RemoteToggles == /\ alive
                 /\ \E r \in Remote : set_toggle({r})
                 /\ UNCHANGED <<main, flags, log>>

-----------------------------------------------------------------------------
Commands == \/ receiver_start \/ receiver_stop
            \/ bvexcam_start \/ bvexcam_start_Fails \/ bvexcam_start_Exits
            \/ bvexcam_stop \/ bvexcam_stop_Crashes
            \/ motor_start \/ motor_stop \/ motor_stop_Crashes
            \/ lockpin_start \/ lockpin_start_Exits \/ lockpin_stop
            \/ cmd_housekeeping_on \/ cmd_housekeeping_off
            \/ cmd_housekeeping_off_Crashes \/ housekeeping_thread_Crashes
            \/ exit_both

Shutdown == \/ shutdown_receiver \/ shutdown_bvexcam \/ shutdown_motor
            \/ shutdown_lockpin \/ shutdown_housekeeping
            \/ shutdown_pbob \/ join_pbob

\* The polling thread goes its rounds although no flag is up.
BoxPolls == alive /\ UNCHANGED vars

Terminated == ~alive /\ UNCHANGED vars

Next == \/ Commands \/ Shutdown
        \/ BoxFlips \/ BoxRefuses \/ BoxEnds \/ BoxPolls \/ RemoteToggles
        \/ Terminated

Spec == Init /\ [][Next]_vars

\* The shutdown sequence runs on by itself, and the polling thread gets to
\* every flag (Pbob, RequestApplied); nobody has to send commands.
FairSpec == /\ Spec
            /\ WF_vars(Shutdown) /\ WF_vars(BoxEnds)
            /\ \A r \in Relay : WF_vars(alive /\ Boxes!Apply(r)
                                        /\ UNCHANGED <<main, flags, log, missed>>)

-----------------------------------------------------------------------------
(* Properties *)

TypeOK ==
    /\ Boxes!TypeOK
    /\ enabled \in Configured
    /\ main \in {"commands", "done", "aborted"} \cup Stage
    /\ receiver_on \in BOOLEAN /\ bvexcam_on \in BOOLEAN /\ stop \in BOOLEAN
    /\ lockpin_on \in BOOLEAN /\ housekeeping_on \in BOOLEAN
    /\ log \in [{"bvexcam", "motor", "housekeeping"} -> {"null", "open", "closed"}]
    /\ missed \subseteq Relay

\* The shutdown of the lock pin leaves its flag up: past that stage it is over.
PastLockpin == main \in {"housekeeping", "pbob", "join", "done"}

\* What the main thread believes of the power of a device.
believed(d) == CASE d \in {"lna", "mixer"}  -> receiver_on
                 [] d = "bvexcam"           -> bvexcam_on
                 [] d = "motor"             -> ~stop /\ log["motor"] = "open"
                 [] d = "lockpin"           -> lockpin_on /\ ~PastLockpin
                 [] d = "housekeeping"      -> housekeeping_on

\* The flag of a device tells what its relay is, or will be once the request on
\* its way is met, through every sequence of commands and through the shutdown,
\* as long as every set_toggle of that relay made a flip.
FlagsTellPower ==
    main # "aborted" =>
        \A d \in Device \ missed : believed(d) <=> (on[d] # request[d])

\* When the shutdown gets to wait for the power boxes, the relay of every device
\* but the housekeeping board is off or asked to go off: nothing of what the main
\* thread switched on keeps all_relays_off from becoming true.
ExitSwitchesOff ==
    main \in {"pbob", "join", "done"} =>
        \A d \in Device \ (missed \cup {"housekeeping"}) : on[d] = request[d]

\* A device is on only if it is enabled, and off once its stage is over.
StagesDone ==
    /\ receiver_on => receiver_enabled /\ main \in {"commands", "receiver", "aborted"}
    /\ bvexcam_on  => /\ "bvexcam" \in enabled
                      /\ main \in {"commands", "receiver", "bvexcam", "aborted"}
    /\ ~stop       => /\ "motor" \in enabled
                      /\ main \in {"commands", "receiver", "bvexcam", "motor", "aborted"}
    /\ lockpin_on  => "lockpin" \in enabled

\* What every step preserves: the inductive invariant of OphPowerProofs.
IInv == TypeOK /\ FlagsTellPower /\ StagesDone

\* "exit: exits the command prompt and shuts down various components": the
\* program ends if it did not crash and no flip was missed.
ShutdownEnds ==
    (main = "receiver") ~> (main \in {"done", "aborted"} \/ missed # {})

=============================================================================

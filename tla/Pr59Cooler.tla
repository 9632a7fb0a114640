------------------------------ MODULE Pr59Cooler ------------------------------
(* The cooler of the receiver: the controller process (Sag/PR59/tec_control_3.c), *)
(* its shared memory with the flight program (Sag/src/pr59_interface.c), and the  *)
(* commands of cli_Sag.c that start, stop and set it. How the process is forked   *)
(* and reaped is in SagChildren.                                                  *)
EXTENDS Naturals

CONSTANTS
    Terms,          \* gains that are set, of kp, ki and kd
    MaxSets,        \* bound: set_pr59 commands of a behaviour
    Fine,           \* gains with more than three decimals
    Pr59Sessions    \* bounds of a behaviour: [sets, starts, fans |-> commands of
                    \* each kind, reads |-> the telemetry server asks, losses |-> times
                    \* that something the serial line should carry is lost]

Unset == 0          \* a gain of the configuration; 1, 2, ... is that of a command
Gain == 0..MaxSets
\* %.3f of a gain; what is left of one of "Fine" is a number of its own.
to_three_decimals(g) == IF g \in Fine THEN g + MaxSets + 1 ELSE g
DeviceGain == 0..(MaxSets + MaxSets + 1)
AUTO == 2
FanModes == 0..2    \* off, on, automatic
Loop == {"get", "update", "truncate", "save", "clear", "fan", "override", "fan_set", "publish", "sleep"}
Phases == Loop \cup {"none", "forked", "ramp", "stabilizing", "leaving", "cleanup"}
Waiters == {"cmd", "tel", "tec"}
Same(p, q) == p = q \/ {p, q} = {"cmd", "tel"}      \* threads of one process

ASSUME Pr59Assumption ==
    /\ Terms \cap {"idle", "stop", "fan", "on", "off"} = {}
    /\ MaxSets \in Nat /\ Fine \subseteq Gain
    /\ Pr59Sessions \subseteq [sets : 0..MaxSets, starts : Nat, fans : Nat, reads : BOOLEAN,
                              losses : Nat]

VARIABLES
    pr59_session,       \* the bounds of this behaviour
    tec,                \* where the controller is
    keep_running, fan_override,                 \* what its signal handlers set
    applied,            \* last_override_state: the override of the fan registers
    regulating, fan_mode, gains, config, saved, \* the device; the gains of the
                        \* configuration; the file pr59_runtime.config
    fetched,            \* the update the controller works on
    pending, pid_update, pr59_shown, fresh,     \* the shared memory
    pr59_owner, contended, sleeper,                  \* its mutex; who sleeps, or was woken
    cmd, pr59_running, tel,                     \* the command thread (the gain it sets,
                        \* or the stop), the telemetry thread
    sets, starts, fans, losses,                 \* commands, and losses, so far
    unheard,            \* history: what the device was told last and did not hear, or, for
                        \* the fan, was not told: gains, the fan, regulation on and off
    wanted, overtaken, torn, killed, forgotten  \* history: the last command for each
                        \* gain; gains whose update another one replaced; a file half
                        \* written; SIGKILL; a wake-up of another process

tec_vars == <<tec, keep_running, applied, regulating, fan_mode, gains, config, saved, fetched>>
shm_vars == <<pending, pid_update, pr59_shown, fresh>>
mutex_vars == <<pr59_owner, contended, sleeper, forgotten>>
main_vars == <<cmd, pr59_running, sets, starts, fans, wanted>>
file_history == <<overtaken, torn, killed>>
serial_vars == <<losses, unheard>>
past_vars == <<file_history, serial_vars>>
pr59_moves == <<tec_vars, fan_override, shm_vars, mutex_vars, main_vars, tel, past_vars>>
pr59_vars == <<pr59_session, pr59_moves>>

Pr59TypeOK ==
    /\ pr59_session \in Pr59Sessions
    /\ tec \in Phases /\ keep_running \in BOOLEAN
    /\ fan_override \in FanModes /\ applied \in FanModes
    /\ regulating \in BOOLEAN /\ fan_mode \in FanModes
    /\ gains \in [Terms -> DeviceGain] /\ config \in [Terms -> Gain] /\ saved \in [Terms -> Gain]
    /\ fetched \in [Terms -> Gain] /\ pid_update \in [Terms -> Gain]
    /\ wanted \in [Terms -> Gain]
    /\ pending \in BOOLEAN /\ pr59_shown \in BOOLEAN /\ fresh \in BOOLEAN
    /\ pr59_owner \in Waiters \cup {"free", "dead"} /\ contended \in BOOLEAN
    /\ sleeper \in [Waiters -> {"no", "asleep", "woken"}] /\ forgotten \subseteq Waiters
    /\ cmd \in {"idle", "stop"} \cup Terms /\ pr59_running \in BOOLEAN
    /\ tel \in {"idle", "asks"}
    /\ sets \in 0..MaxSets /\ starts \in Nat /\ fans \in Nat
    /\ overtaken \subseteq Terms /\ torn \in BOOLEAN /\ killed \in BOOLEAN
    /\ losses \in Nat /\ unheard \subseteq Terms \cup {"fan", "on", "off"}

NoGain == [t \in Terms |-> Unset]

\* The first start: pr59_interface_init of the flight program makes the memory.
Pr59Init ==
    /\ pr59_session \in Pr59Sessions
    /\ tec = "none" /\ keep_running = TRUE /\ fan_override = AUTO /\ applied = AUTO
    /\ regulating = FALSE /\ fan_mode = 0
    /\ gains = NoGain /\ config = NoGain /\ saved = NoGain /\ fetched = NoGain
    /\ pending = FALSE /\ pid_update = NoGain /\ pr59_shown = FALSE /\ fresh = FALSE
    /\ pr59_owner = "free" /\ contended = FALSE /\ forgotten = {}
    /\ sleeper = [p \in Waiters |-> "no"]
    /\ cmd = "idle" /\ pr59_running = FALSE /\ tel = "idle"
    /\ sets = 0 /\ starts = 0 /\ fans = 0
    /\ wanted = NoGain /\ overtaken = {} /\ torn = FALSE /\ killed = FALSE
    /\ losses = 0 /\ unheard = {}

-----------------------------------------------------------------------------
(* The mutex. pr59_interface_init makes it process-shared and then clears the     *)
(* memory it lies in, which makes it a private one that is free: a thread that    *)
(* finds it locked sleeps, and an unlock wakes a sleeper of its own process only. *)

Needs(p) ==
    CASE p = "cmd" -> cmd \in Terms
      [] p = "tel" -> tel = "asks"
      [] OTHER -> tec \in {"get", "clear", "fan", "publish", "cleanup"}

pthread_mutex_lock(p) ==
    /\ Needs(p) /\ pr59_owner # p /\ sleeper[p] # "asleep"
    /\ \/ /\ pr59_owner = "free" /\ pr59_owner' = p
          /\ contended' = (sleeper[p] = "woken")
          /\ sleeper' = [sleeper EXCEPT ![p] = "no"]
       \/ /\ pr59_owner # "free" /\ contended' = TRUE
          /\ sleeper' = [sleeper EXCEPT ![p] = "asleep"]
          /\ UNCHANGED pr59_owner
    /\ UNCHANGED forgotten
    /\ UNCHANGED <<tec_vars, fan_override, shm_vars, main_vars, tel, past_vars>>

Asleep == {q \in Waiters : sleeper[q] = "asleep"}
wakes(p) == {q \in Asleep : Same(p, q)}
unlocks(p) ==
    /\ pr59_owner' = "free" /\ contended' = FALSE
    /\ \/ /\ contended
          /\ \E q \in wakes(p) : /\ sleeper' = [sleeper EXCEPT ![q] = "woken"]
                                /\ forgotten' = (forgotten \cup Asleep) \ {q}
       \/ /\ ~contended \/ wakes(p) = {}
          /\ forgotten' = forgotten \cup Asleep
          /\ UNCHANGED sleeper

-----------------------------------------------------------------------------
(* The controller. *)

load_bcp_config == NoGain
load_runtime_config == [t \in Terms |-> IF saved[t] # Unset THEN saved[t] ELSE load_bcp_config[t]]

\* send_command: commands about these things, some of which may get lost. Nobody looks.
send_command(things) ==
    \E gone \in SUBSET things :
        /\ unheard' = (unheard \ things) \cup gone
        /\ \/ gone = {} /\ UNCHANGED losses
           \/ gone # {} /\ losses < pr59_session.losses /\ losses' = losses + 1
set_fan_mode(mode) == fan_mode' = IF "fan" \in unheard' THEN fan_mode ELSE mode
sets_gains(told) ==
    gains' = [t \in Terms |-> IF t \in unheard' THEN gains[t] ELSE told[t]]
\* Regulation is stopped and started again, "$Q" and "$W".
regulates_again ==
    regulating' = IF "on" \notin unheard' THEN TRUE ELSE regulating /\ "off" \in unheard'

clear_all_registers == sets_gains(NoGain) /\ set_fan_mode(0)

\* main: configuration, signal handlers, registers, and the device on in power mode.
tec_starts ==
    /\ tec = "forked" /\ tec' = "ramp"
    /\ config' = load_runtime_config
    /\ keep_running' = TRUE /\ applied' = AUTO /\ fetched' = NoGain
    /\ send_command(Terms \cup {"fan", "on", "off"})
    /\ clear_all_registers /\ regulates_again
    /\ UNCHANGED <<saved, fan_override, shm_vars, mutex_vars, main_vars, tel, file_history>>

\* No memory, no configuration, no device: it ends before it touches the device.
tec_cannot_start ==
    /\ tec = "forked" /\ tec' \in {"none", "cleanup"}
    /\ UNCHANGED <<keep_running, applied, regulating, fan_mode, gains, config, saved, fetched,
                   fan_override, shm_vars, mutex_vars, main_vars, tel, past_vars>>

\* The ramp is over: off, the gains with three decimals, on again in PID mode. Then it
\* waits for a stable current, however long that takes and whatever signal comes.
tec_pid_mode ==
    /\ tec = "ramp" /\ tec' = "stabilizing"
    /\ send_command(Terms \cup {"on", "off"})
    /\ sets_gains([t \in Terms |-> to_three_decimals(config[t])]) /\ regulates_again
    /\ UNCHANGED <<keep_running, applied, fan_mode, config, saved, fetched,
                   fan_override, shm_vars, mutex_vars, main_vars, tel, file_history>>

tec_stable ==
    /\ tec = "stabilizing" /\ tec' = "sleep"
    /\ send_command({"fan"}) /\ set_fan_mode(AUTO)
    /\ UNCHANGED <<keep_running, applied, regulating, gains, config, saved, fetched,
                   fan_override, shm_vars, mutex_vars, main_vars, tel, file_history>>

\* The loop: readings, then the pending update, if there is one.
tec_loops ==
    /\ tec = "sleep" /\ tec' = IF keep_running THEN "get" ELSE "leaving"
    /\ UNCHANGED <<keep_running, applied, regulating, fan_mode, gains, config, saved, fetched,
                   fan_override, shm_vars, mutex_vars, main_vars, tel, past_vars>>

\* A mutant of "pr59_get_pid_update": what is fetched is no longer pending.
pr59_get_pid_update_Takes ==
    /\ tec = "get" /\ pr59_owner = "tec" /\ unlocks("tec")
    /\ tec' = IF pending THEN "update" ELSE "fan"
    /\ fetched' = IF pending THEN pid_update ELSE fetched
    /\ pending' = FALSE /\ pid_update' = NoGain
    /\ UNCHANGED <<keep_running, applied, regulating, fan_mode, gains, config, saved,
                   fan_override, pr59_shown, fresh, main_vars, tel, past_vars>>

pr59_get_pid_update ==
    /\ tec = "get" /\ pr59_owner = "tec" /\ unlocks("tec")
    /\ tec' = IF pending THEN "update" ELSE "fan"
    /\ fetched' = IF pending THEN pid_update ELSE fetched
    /\ UNCHANGED <<keep_running, applied, regulating, fan_mode, gains, config, saved,
                   fan_override, shm_vars, main_vars, tel, past_vars>>

\* Regulation off, the gains to the device, all their six decimals, on again ...
update_pid_parameters ==
    /\ tec = "update" /\ tec' = "truncate"
    /\ send_command({t \in Terms : fetched[t] # Unset} \cup {"on", "off"})
    /\ config' = [t \in Terms |-> IF fetched[t] # Unset THEN fetched[t] ELSE config[t]]
    /\ sets_gains([t \in Terms |-> IF fetched[t] # Unset THEN fetched[t] ELSE gains[t]])
    /\ regulates_again
    /\ UNCHANGED <<keep_running, applied, fan_mode, saved, fetched,
                   fan_override, shm_vars, mutex_vars, main_vars, tel, file_history>>

\* ... and to the file, which is opened empty and then written, or cannot be opened.
save_runtime_config ==
    /\ \/ tec = "truncate" /\ tec' = "save" /\ saved' = NoGain /\ UNCHANGED torn
       \/ tec = "truncate" /\ tec' = "clear" /\ torn' = TRUE /\ UNCHANGED saved
       \/ tec = "save" /\ tec' = "clear" /\ saved' = config /\ UNCHANGED torn
    /\ UNCHANGED <<keep_running, applied, regulating, fan_mode, gains, config, fetched,
                   fan_override, shm_vars, mutex_vars, main_vars, tel, overtaken, killed,
                   serial_vars>>

\* Whatever is in the memory now is cleared.
pr59_clear_pid_update ==
    /\ tec = "clear" /\ pr59_owner = "tec" /\ unlocks("tec")
    /\ tec' = "fan"
    /\ pending' = FALSE /\ pid_update' = NoGain
    /\ overtaken' = overtaken \cup {t \in Terms : pid_update[t] \notin {Unset, fetched[t]}}
    /\ UNCHANGED <<keep_running, applied, regulating, fan_mode, gains, config, saved, fetched,
                   fan_override, pr59_shown, fresh, main_vars, tel, torn, killed, serial_vars>>

process_pid_updates ==
    \/ pr59_get_pid_update \/ update_pid_parameters \/ save_runtime_config
    \/ pr59_clear_pid_update

\* The status of the fan is published, and in every fifth round its override applied.
pr59_update_fan_status ==
    /\ tec = "fan" /\ pr59_owner = "tec" /\ unlocks("tec")
    /\ tec' \in {"publish", "override"}
    /\ UNCHANGED <<keep_running, applied, regulating, fan_mode, gains, config, saved, fetched,
                   fan_override, shm_vars, main_vars, tel, past_vars>>

\* An override that has changed is written to the device, in half a second, and then read
\* once more: what is taken for applied is whatever it is by then.
apply_fan_override ==
    /\ tec = "override"
    /\ \/ /\ fan_override # applied /\ tec' = "fan_set"
          /\ send_command({"fan"}) /\ set_fan_mode(fan_override)
       \/ /\ fan_override = applied /\ tec' = "publish"
          /\ UNCHANGED <<fan_mode, serial_vars>>
    /\ UNCHANGED <<keep_running, applied, regulating, gains, config, saved, fetched,
                   fan_override, shm_vars, mutex_vars, main_vars, tel, file_history>>
last_override_state ==
    /\ tec = "fan_set" /\ tec' = "publish" /\ applied' = fan_override
    /\ UNCHANGED <<keep_running, regulating, fan_mode, gains, config, saved, fetched,
                   fan_override, shm_vars, mutex_vars, main_vars, tel, past_vars>>

pr59_update_data ==
    /\ tec = "publish" /\ pr59_owner = "tec" /\ unlocks("tec")
    /\ tec' = "sleep" /\ pr59_shown' = TRUE /\ fresh' = TRUE
    /\ UNCHANGED <<keep_running, applied, regulating, fan_mode, gains, config, saved, fetched,
                   fan_override, pending, pid_update, main_vars, tel, past_vars>>

\* After the loop: regulation off, then the mark in the memory.
cleanup ==
    /\ tec = "leaving" /\ tec' = "cleanup"
    /\ send_command({"off"}) /\ regulating' = (regulating /\ "off" \in unheard')
    /\ UNCHANGED <<keep_running, applied, fan_mode, gains, config, saved, fetched,
                   fan_override, shm_vars, mutex_vars, main_vars, tel, file_history>>

pr59_interface_cleanup ==
    /\ tec = "cleanup" /\ pr59_owner = "tec" /\ unlocks("tec")
    /\ tec' = "none" /\ pr59_shown' = FALSE
    /\ UNCHANGED <<keep_running, applied, regulating, fan_mode, gains, config, saved, fetched,
                   fan_override, pending, pid_update, fresh, main_vars, tel, past_vars>>

\* Ten seconds without new data.
DataAges ==
    /\ fresh /\ fresh' = FALSE
    /\ UNCHANGED <<tec_vars, fan_override, pending, pid_update, pr59_shown, mutex_vars,
                   main_vars, tel, past_vars>>

-----------------------------------------------------------------------------
(* The flight program. *)

start_pr59 ==
    /\ cmd = "idle" /\ ~pr59_running /\ starts < pr59_session.starts
    /\ starts' = starts + 1 /\ pr59_running' = TRUE
    /\ tec' = "forked" /\ fan_override' = AUTO
    /\ UNCHANGED <<keep_running, applied, regulating, fan_mode, gains, config, saved, fetched,
                   shm_vars, mutex_vars, cmd, sets, fans, wanted, tel, past_vars>>

\* A signal ends a process that has not installed its handlers, and wakes one that sleeps.
signalled ==
    /\ sleeper' = [sleeper EXCEPT !["tec"] = IF @ = "asleep" THEN "woken" ELSE @]
    /\ forgotten' = forgotten \ {"tec"}
    /\ tec' = IF tec = "forked" THEN "none" ELSE tec

stop_pr59 ==
    /\ cmd = "idle" /\ pr59_running
    /\ pr59_running' = FALSE /\ cmd' = "stop"
    /\ signalled /\ keep_running' = (keep_running /\ tec \in {"none", "forked"})
    /\ UNCHANGED <<applied, regulating, fan_mode, gains, config, saved, fetched, fan_override,
                   shm_vars, pr59_owner, contended, sets, starts, fans, wanted, tel,
                   past_vars>>

\* The process has ended, or ten seconds have passed: SIGKILL, wherever it is.
stop_returns ==
    /\ cmd = "stop" /\ cmd' = "idle"
    /\ tec' = "none"
    /\ sleeper' = [sleeper EXCEPT !["tec"] = "no"] /\ forgotten' = forgotten \ {"tec"}
    /\ pr59_owner' = IF pr59_owner = "tec" THEN "dead" ELSE pr59_owner
    /\ killed' = (killed \/ tec # "none") /\ torn' = (torn \/ tec = "save")
    /\ UNCHANGED <<keep_running, applied, regulating, fan_mode, gains, config, saved, fetched,
                   fan_override, shm_vars, contended, pr59_running, sets,
                   starts, fans, wanted, tel, overtaken, serial_vars>>

\* start_pr59_fan and stop_pr59_fan: SIGUSR1 and SIGUSR2, after which the device is told,
\* unless the controller is between the writes of an override and its second look.
pr59_fan(mode) ==
    /\ cmd = "idle" /\ pr59_running /\ fans < pr59_session.fans
    /\ fans' = fans + 1
    /\ signalled
    /\ fan_override' = IF tec \in {"none", "forked"} THEN fan_override ELSE mode
    /\ unheard' = IF tec = "fan_set" /\ mode # fan_override THEN unheard \cup {"fan"} ELSE unheard
    /\ UNCHANGED <<keep_running, applied, regulating, fan_mode, gains, config, saved, fetched,
                   shm_vars, pr59_owner, contended, cmd, pr59_running, sets, starts,
                   wanted, tel, file_history, losses>>

\* set_pr59_P, set_pr59_I, set_pr59_D: into the memory, in place of what is pending.
set_pr59 ==
    /\ cmd = "idle" /\ pr59_running /\ sets < pr59_session.sets
    /\ cmd' \in Terms /\ sets' = sets + 1
    /\ UNCHANGED <<tec_vars, fan_override, shm_vars, mutex_vars, pr59_running, starts, fans,
                   wanted, tel, past_vars>>

pr59_set_pid_update ==
    /\ cmd \in Terms /\ pr59_owner = "cmd" /\ unlocks("cmd")
    /\ cmd' = "idle" /\ wanted' = [wanted EXCEPT ![cmd] = sets]
    /\ pending' = TRUE /\ pid_update' = [NoGain EXCEPT ![cmd] = sets]
    /\ overtaken' = (overtaken \ {cmd}) \cup
                    {t \in Terms \ {cmd} : pid_update[t] # Unset}
    /\ UNCHANGED <<tec_vars, fan_override, pr59_shown, fresh, pr59_running, sets,
                   starts, fans, tel, torn, killed, serial_vars>>

\* A request of the telemetry server for a datum of the cooler.
telemetry_asks ==
    /\ pr59_session.reads /\ tel = "idle" /\ tel' = "asks"
    /\ UNCHANGED <<tec_vars, fan_override, shm_vars, mutex_vars, main_vars, past_vars>>

pr59_get_data ==
    /\ tel = "asks" /\ pr59_owner = "tel" /\ unlocks("tel")
    /\ tel' = "idle" /\ pr59_shown' = (pr59_shown /\ fresh)
    /\ UNCHANGED <<tec_vars, fan_override, pending, pid_update, fresh, main_vars, past_vars>>

-----------------------------------------------------------------------------
tec_steps ==
    \/ tec_starts \/ tec_cannot_start \/ tec_pid_mode \/ tec_stable \/ tec_loops
    \/ process_pid_updates \/ pr59_update_fan_status \/ apply_fan_override
    \/ last_override_state \/ pr59_update_data \/ cleanup \/ pr59_interface_cleanup

Pr59Step ==
    \/ \E p \in Waiters : pthread_mutex_lock(p)
    \/ tec_steps \/ DataAges
    \/ start_pr59 \/ stop_pr59 \/ stop_returns \/ \E mode \in {0, 1} : pr59_fan(mode)
    \/ set_pr59 \/ pr59_set_pid_update \/ telemetry_asks \/ pr59_get_data
Pr59Next == Pr59Step /\ UNCHANGED pr59_session

\* Processes and threads run, and one that is woken tries the mutex again. The current
\* need not become stable, and no command need come.
Pr59Fair ==
    /\ \A p \in Waiters : WF_pr59_moves(pthread_mutex_lock(p))
    /\ WF_pr59_moves(tec_steps /\ tec # "stabilizing")
    /\ SF_pr59_moves(pr59_update_fan_status /\ tec' = "override")
    /\ WF_pr59_moves(stop_returns) /\ WF_pr59_moves(pr59_set_pid_update)
    /\ WF_pr59_moves(pr59_get_data)

Pr59Spec == Pr59Init /\ [][Pr59Next]_pr59_vars /\ Pr59Fair

-----------------------------------------------------------------------------
\* Between two rounds of its loop the controller and the file have the same gains, whatever
\* was killed and restarted, unless a save failed or was cut short. The device has them too,
\* unless the line failed, or but for their last decimals: a start sends three of the six.
GainsAgree ==
    tec = "sleep" =>
        /\ torn \/ saved = config
        /\ \A t \in Terms \ unheard : gains[t] \in {config[t], to_three_decimals(config[t])}

\* A gain that was commanded is in the file or still pending, also over a SIGKILL and a
\* restart, unless another command replaced it in the memory or was cleared with it.
UpdatesKept ==
    torn \/ \A t \in Terms \ overtaken :
        wanted[t] # Unset => \/ saved[t] = wanted[t]
                             \/ pending /\ pid_update[t] = wanted[t]
                             \/ tec = "save" /\ config[t] = wanted[t]

\* A controller that was never killed leaves the device off, unless the line failed for
\* that very command, and says that it ended.
LeavesItOff ==
    tec = "none" /\ ~killed => (~regulating \/ "off" \in unheard) /\ ~pr59_shown

\* An override of the fan reaches the device, unless the controller stops, another command
\* comes, the controller sleeps on the mutex for ever, or the device does not hear of it:
\* the line fails, or the signal comes after the writes of another override and before the
\* second look at it.
FanWaits == /\ fan_override # AUTO /\ fan_mode # fan_override
            /\ tec \in Loop /\ "tec" \notin forgotten /\ "fan" \notin unheard
FanFollows == FanWaits ~> ~FanWaits

\* The telemetry server gets its answer, unless a process was killed with the mutex or
\* the unlock of the other process did not wake it.
AnswerWaits == tel = "asks" /\ "tel" \notin forgotten /\ ~killed
TelemetryAnswers == AnswerWaits ~> ~AnswerWaits

\* The same without the exception for the wake-up: the mutex works between processes.
MutexIsShared == tel = "asks" ~> (tel = "idle" \/ killed)
=============================================================================

---------------------------- MODULE TelemetryServer ----------------------------
(* The telemetry server of Saggitarius (Sag/src/telemetry_server.c), the system     *)
(* monitor it reads (system_monitor.c), the status it is sent by the monitor of the *)
(* recorder (aquila_system_monitor.c, aquila_status.c), and their end in main.      *)
EXTENDS Naturals, Sequences

CONSTANTS
    Askers,         \* ground programs that ask
    Channels,       \* families of channels that are asked for, of AllChannels
    MaxStatuses,    \* bound: messages of the recorder's monitor
    TelSessions     \* bounds of a behaviour: [asks |-> subset of Channels,
                    \* statuses |-> messages of the recorder]

AllChannels == {"aquila", "system", "position", "heater", "unknown"}
Parts == {"ssd1", "ssd2", "system"}
Statuses == 1..MaxStatuses
NoRequest == [from |-> "nobody", id |-> "none"]
Requests == [from : Askers, id : Channels]

ASSUME TelAssumption ==
    /\ Channels \subseteq AllChannels /\ MaxStatuses \in Nat
    /\ TelSessions \subseteq [asks : SUBSET Channels, statuses : 0..MaxStatuses]

VARIABLES
    tel_session,                        \* the bounds of this behaviour
    tel_server_running, stop_telemetry_server, tel_thread, tel_log,
    inbox, request, reply,              \* datagrams; tel_client_addr with the
                                        \* request; the last answer
    aquila_sent, datagrams, aquila_status, data_valid, recent, aquila_mutex,
    sys_thread, system_monitor_running, stop_system_monitor, sys_owner, sys_mutex, sys_log,
    pos_initialized, pos_mutex,         \* of position_sensors.c
    main, early                         \* history: exit before a thread was up

tel_vars == <<tel_server_running, stop_telemetry_server, tel_thread, tel_log>>
ask_vars == <<inbox, request, reply>>
aquila_vars == <<aquila_sent, datagrams, aquila_status, data_valid, recent, aquila_mutex>>
sys_vars == <<sys_thread, system_monitor_running, stop_system_monitor, sys_owner, sys_mutex,
              sys_log>>
source_vars == <<pos_initialized, pos_mutex>>
end_vars == <<main, early>>
tel_moves == <<tel_vars, ask_vars, aquila_vars, sys_vars, source_vars, end_vars>>
telemetry_vars == <<tel_session, tel_moves>>

Stages == <<"commands", "sensors", "uninitialize", "telemetry", "tel_join", "tel_cleanup",
            "system", "sys_join", "sys_cleanup", "done">>
After(s) == Stages[1 + CHOOSE i \in 1..9 : Stages[i] = s]

TelTypeOK ==
    /\ tel_session \in TelSessions
    /\ tel_server_running \in BOOLEAN /\ stop_telemetry_server \in BOOLEAN
    /\ tel_thread \in {"socket", "bind", "loop", "locks", "answers", "ended"}
    /\ tel_log \in BOOLEAN
    /\ inbox \in Seq(Requests) /\ request \in Requests \cup {NoRequest}
    /\ reply \in [to : Askers \cup {"nobody"}, id : Channels \cup {"none"}, data : BOOLEAN]
    /\ aquila_sent \in 0..MaxStatuses /\ datagrams \subseteq Statuses
    /\ aquila_status \in [Parts -> 0..MaxStatuses]
    /\ data_valid \in BOOLEAN /\ recent \in BOOLEAN /\ aquila_mutex \in BOOLEAN
    /\ sys_thread \in {"starting", "opened", "locks", "writes", "sleeps",
                       "ending", "ended"}
    /\ system_monitor_running \in BOOLEAN /\ stop_system_monitor \in BOOLEAN
    /\ sys_owner \in {"nobody", "tel", "sys"} /\ sys_mutex \in BOOLEAN /\ sys_log \in BOOLEAN
    /\ pos_initialized \in BOOLEAN /\ pos_mutex \in BOOLEAN
    /\ main \in {Stages[i] : i \in 1..10} /\ early \in BOOLEAN

\* main has initialized the modules and created both threads.
TelInit ==
    /\ tel_session \in TelSessions
    /\ tel_server_running = FALSE /\ stop_telemetry_server = FALSE
    /\ tel_thread = "socket" /\ tel_log = TRUE
    /\ inbox = <<>> /\ request = NoRequest
    /\ reply = [to |-> "nobody", id |-> "none", data |-> FALSE]
    /\ aquila_sent = 0 /\ datagrams = {} /\ aquila_status = [p \in Parts |-> 0]
    /\ data_valid = FALSE /\ recent = FALSE /\ aquila_mutex = TRUE
    /\ sys_thread = "starting" /\ system_monitor_running = FALSE
    /\ stop_system_monitor = FALSE /\ sys_owner = "nobody" /\ sys_mutex = TRUE
    /\ sys_log = FALSE
    /\ pos_initialized = TRUE /\ pos_mutex = TRUE
    /\ main = "commands" /\ early = FALSE

-----------------------------------------------------------------------------
(* The server thread. *)

telemetry_init_socket ==
    /\ \/ /\ tel_thread = "socket"
          /\ \/ tel_thread' = "bind" /\ tel_server_running' = TRUE
             \/ tel_thread' = "ended" /\ UNCHANGED tel_server_running     \* no socket
       \/ /\ tel_thread = "bind"
          /\ \/ tel_thread' = "loop" /\ UNCHANGED tel_server_running
             \/ tel_thread' = "ended" /\ tel_server_running' = FALSE      \* no port
    /\ UNCHANGED <<stop_telemetry_server, tel_log, ask_vars, aquila_vars, sys_vars,
                   source_vars, end_vars>>

\* A datagram of a ground program; its sender goes to tel_client_addr.
telemetry_sock_listen ==
    /\ tel_thread = "loop" /\ ~stop_telemetry_server
    /\ inbox # <<>> /\ inbox' = Tail(inbox) /\ request' = Head(inbox)
    /\ tel_thread' = "locks"
    /\ UNCHANGED <<tel_server_running, stop_telemetry_server, tel_log, reply, aquila_vars,
                   sys_vars, source_vars, end_vars>>

\* A datagram of the recorder's monitor: the parts it has replace the stored ones.
aquila_status_update_from_json ==
    /\ tel_thread = "loop" /\ ~stop_telemetry_server
    /\ \E n \in datagrams : /\ datagrams' = datagrams \ {n}
                            /\ aquila_status' = [p \in Parts |-> n]
    /\ data_valid' = TRUE /\ recent' = TRUE
    /\ UNCHANGED <<tel_vars, ask_vars, aquila_sent, aquila_mutex, sys_vars, source_vars,
                   end_vars>>

\* telemetry_send_metric: what it asks of the module, with a mutex where it has one.
looks_up(answers) ==
    /\ tel_thread = "locks" /\ tel_thread' = "answers"
    /\ answers
    /\ UNCHANGED <<tel_server_running, stop_telemetry_server, tel_log, ask_vars, aquila_vars,
                   sys_thread, system_monitor_running, stop_system_monitor, sys_mutex,
                   sys_log, source_vars, end_vars>>
system_channels == request.id = "system" /\ looks_up(
    \/ ~system_monitor_running /\ UNCHANGED sys_owner
    \/ system_monitor_running /\ sys_owner = "nobody" /\ sys_owner' = "tel")
position_channels == request.id = "position" /\ looks_up(pos_initialized /\ UNCHANGED sys_owner)
aquila_channels == request.id = "aquila" /\ looks_up(UNCHANGED sys_owner)
\* No mutex: heaters_running and temp_valid are read as they are.
heater_channels == request.id = "heater" /\ looks_up(UNCHANGED sys_owner)
unknown_channel == request.id = "unknown" /\ looks_up(UNCHANGED sys_owner)

\* The position sensors are not initialized: no datum, no mutex.
position_not_available ==
    /\ tel_thread = "locks" /\ request.id = "position" /\ ~pos_initialized
    /\ tel_thread' = "loop" /\ request' = NoRequest
    /\ reply' = [to |-> request.from, id |-> request.id, data |-> FALSE]
    /\ UNCHANGED <<tel_server_running, stop_telemetry_server, tel_log, inbox, aquila_vars,
                   sys_vars, source_vars, end_vars>>

aquila_status_get_data == data_valid /\ recent

\* The answer: the datum, or that there is none.
telemetry_send_metric ==
    /\ tel_thread = "answers" /\ tel_thread' = "loop" /\ request' = NoRequest
    /\ \E d \in CASE request.id = "aquila" -> {aquila_status_get_data}
                  [] request.id = "system" -> {sys_owner = "tel"}
                  [] request.id \in {"position", "heater"} -> BOOLEAN
                  [] OTHER -> {FALSE} :
           reply' = [to |-> request.from, id |-> request.id, data |-> d]
    /\ sys_owner' = IF sys_owner = "tel" THEN "nobody" ELSE sys_owner
    /\ UNCHANGED <<tel_server_running, stop_telemetry_server, tel_log, inbox, aquila_vars,
                   sys_thread, system_monitor_running, stop_system_monitor, sys_mutex,
                   sys_log, source_vars, end_vars>>

telemetry_server_thread_ends ==
    /\ tel_thread = "loop" /\ stop_telemetry_server
    /\ tel_thread' = "ended" /\ tel_server_running' = FALSE /\ stop_telemetry_server' = FALSE
    /\ UNCHANGED <<tel_log, ask_vars, aquila_vars, sys_vars, source_vars, end_vars>>

-----------------------------------------------------------------------------
(* Those who ask, and the recorder's monitor. *)

asks ==
    /\ \E a \in Askers, c \in tel_session.asks :
           /\ request.from # a /\ \A i \in 1..Len(inbox) : inbox[i].from # a
           /\ inbox' = Append(inbox, [from |-> a, id |-> c])
    /\ UNCHANGED <<tel_vars, request, reply, aquila_vars, sys_vars, source_vars, end_vars>>

\* Every ten seconds; the message may be lost, or come after a later one.
send_status_update ==
    /\ aquila_sent < tel_session.statuses
    /\ aquila_sent' = aquila_sent + 1
    /\ datagrams' \in {datagrams, datagrams \cup {aquila_sent + 1}}
    /\ UNCHANGED <<tel_vars, ask_vars, aquila_status, data_valid, recent, aquila_mutex,
                   sys_vars, source_vars, end_vars>>

AquilaSilent == \* sixty seconds without a message
    /\ recent /\ recent' = FALSE
    /\ UNCHANGED <<tel_vars, ask_vars, aquila_sent, datagrams, aquila_status, data_valid,
                   aquila_mutex, sys_vars, source_vars, end_vars>>

-----------------------------------------------------------------------------
(* run_system_monitor_thread. *)

UNCHANGED_but_sys == UNCHANGED <<tel_vars, ask_vars, aquila_vars, source_vars, end_vars>>

sys_starts ==
    /\ \/ /\ sys_thread = "starting" /\ sys_thread' = "opened"
          /\ sys_log' \in BOOLEAN /\ UNCHANGED system_monitor_running
       \/ /\ sys_thread = "opened" /\ sys_thread' = "sleeps"
          /\ system_monitor_running' = TRUE /\ UNCHANGED sys_log
    /\ UNCHANGED <<stop_system_monitor, sys_owner, sys_mutex>>
    /\ UNCHANGED_but_sys

\* The readings of processor, memory and disk; then they are stored under the mutex.
sys_samples ==
    /\ \/ sys_thread = "sleeps" /\ ~stop_system_monitor /\ sys_thread' = "locks"
          /\ UNCHANGED sys_owner
       \/ sys_thread = "locks" /\ sys_owner = "nobody" /\ sys_owner' = "sys"
          /\ sys_thread' = "writes"
       \/ sys_thread = "writes" /\ sys_owner' = "nobody" /\ sys_thread' = "sleeps"
    /\ UNCHANGED <<system_monitor_running, stop_system_monitor, sys_mutex, sys_log>>
    /\ UNCHANGED_but_sys

sys_ends ==
    /\ \/ /\ sys_thread = "sleeps" /\ stop_system_monitor /\ sys_thread' = "ending"
          /\ system_monitor_running' = FALSE
       \/ sys_thread = "ending" /\ sys_thread' = "ended" /\ UNCHANGED system_monitor_running
    /\ UNCHANGED <<stop_system_monitor, sys_owner, sys_mutex, sys_log>>
    /\ UNCHANGED_but_sys

-----------------------------------------------------------------------------
(* main, after do_commands has returned. *)

exits ==
    /\ main = "commands" /\ main' = "sensors"
    /\ early' = (tel_thread \in {"socket", "bind"} \/ sys_thread \in {"starting", "opened"})
    /\ UNCHANGED <<tel_vars, ask_vars, aquila_vars, sys_vars, source_vars>>

\* The mutexes go first, the flag that guards them after.
position_sensors_cleanup ==
    /\ main \in {"sensors", "uninitialize"} /\ main' = After(main)
    /\ pos_mutex' = FALSE /\ pos_initialized' = (main = "sensors")
    /\ UNCHANGED <<tel_vars, ask_vars, aquila_vars, sys_vars, early>>

telemetry_server_stop ==
    /\ \/ /\ main = "telemetry" /\ tel_server_running /\ main' = "tel_join"
          /\ stop_telemetry_server' = TRUE
       \/ /\ main = "telemetry" /\ ~tel_server_running /\ main' = "tel_cleanup"
          /\ UNCHANGED stop_telemetry_server
       \/ /\ main = "tel_join" /\ tel_thread = "ended" /\ main' = "tel_cleanup"
          /\ UNCHANGED stop_telemetry_server
    /\ UNCHANGED <<tel_server_running, tel_thread, tel_log, ask_vars, aquila_vars, sys_vars,
                   source_vars, early>>

telemetry_server_cleanup ==
    /\ main = "tel_cleanup" /\ main' = After(main)
    /\ aquila_mutex' = FALSE /\ tel_log' = FALSE
    /\ UNCHANGED <<tel_server_running, stop_telemetry_server, tel_thread, ask_vars,
                   aquila_sent, datagrams, aquila_status, data_valid, recent, sys_vars,
                   source_vars, early>>

shutdown_system_monitor ==
    /\ \/ /\ main = "system" /\ stop_system_monitor' = TRUE
          /\ main' = IF system_monitor_running THEN "sys_join" ELSE "sys_cleanup"
          /\ UNCHANGED <<sys_mutex, sys_log>>
       \/ /\ main = "sys_join" /\ sys_thread = "ended" /\ main' = "sys_cleanup"
          /\ UNCHANGED <<stop_system_monitor, sys_mutex, sys_log>>
       \/ /\ main = "sys_cleanup" /\ main' = "done"
          /\ sys_mutex' = FALSE /\ sys_log' = FALSE
          /\ UNCHANGED stop_system_monitor
    /\ UNCHANGED <<tel_vars, ask_vars, aquila_vars, sys_thread, system_monitor_running,
                   sys_owner, source_vars, early>>

-----------------------------------------------------------------------------
answers_request ==
    \/ system_channels \/ position_channels \/ aquila_channels
    \/ heater_channels \/ unknown_channel
    \/ position_not_available \/ telemetry_send_metric
main_ends ==
    \/ position_sensors_cleanup \/ telemetry_server_stop \/ telemetry_server_cleanup
    \/ shutdown_system_monitor

telemetry_server_thread ==
    \/ telemetry_init_socket \/ telemetry_sock_listen \/ aquila_status_update_from_json
    \/ answers_request \/ telemetry_server_thread_ends
run_system_monitor_thread == sys_starts \/ sys_samples \/ sys_ends

TelStep ==
    /\ main # "done"                                            \* the process runs
    /\ \/ telemetry_server_thread \/ run_system_monitor_thread
       \/ asks \/ send_status_update \/ AquilaSilent
       \/ exits \/ main_ends
TelNext == TelStep /\ UNCHANGED tel_session

\* The threads run; a mutex that is free again and again is got; no request, message or
\* exit need come. The socket is read with a time-out.
TelFair ==
    /\ WF_tel_moves(telemetry_server_thread /\ main # "done")
    /\ SF_tel_moves(system_channels /\ main # "done")
    /\ WF_tel_moves(run_system_monitor_thread /\ main # "done")
    /\ WF_tel_moves(main_ends)

TelSpec == TelInit /\ [][TelNext]_telemetry_vars /\ TelFair

-----------------------------------------------------------------------------
\* Threads lock mutexes that live and write to logs that are open, until the process
\* ends, unless exit came before they were up. The exception is a request for a position
\* while the sensors are cleaned up, as their flag outlives their mutexes.
MutexesLive ==
    /\ tel_thread = "answers" /\ sys_owner = "tel" => sys_mutex \/ early
    /\ tel_thread \in {"locks", "answers"} /\ request.id = "aquila" => aquila_mutex \/ early
    /\ tel_thread = "answers" /\ request.id = "position" => pos_mutex \/ main # "commands"
    /\ sys_thread \in {"locks", "writes"} => sys_mutex
    /\ tel_thread \in {"loop", "locks", "answers"} => tel_log \/ early
    /\ sys_thread = "ending" => early \/ main \in {"system", "sys_join"}

\* What is told of the recorder is one of its messages, never parts of two, and a sample
\* of the system is not read while it is written.
SamplesAreWhole ==
    /\ \A p, q \in Parts : aquila_status[p] = aquila_status[q]
    /\ ~(sys_thread = "writes" /\ tel_thread = "answers" /\ sys_owner = "tel")
    /\ sys_thread = "writes" => sys_owner = "sys"

\* A request is answered, whatever the monitor thread does with the mutex, unless the
\* server cannot open its port or the program ends; and once exit has begun, it ends.
RequestWaits ==
    \/ /\ inbox # <<>> \/ request # NoRequest
       /\ tel_thread # "ended" /\ main = "commands"
    \/ main \notin {"commands", "done"} /\ ~early
RequestsAnswered == RequestWaits ~> ~RequestWaits
=============================================================================

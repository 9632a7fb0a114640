---------------------------- MODULE RemoteControl ----------------------------
(* The commands of Saggitarius to the computers next to it, each over a TCP       *)
(* connection of its own: vlbi_client.c and rfsoc_client.c on one side, the       *)
(* daemons vlbi_controller.py and rfsoc_daemon.py, with a thread per connection,  *)
(* on the other.  The client gives up after its timeout; the daemon's thread goes *)
(* on with what it was asked.                                                     *)
EXTENDS Naturals, FiniteSets

CONSTANTS
    MaxConnections,     \* bound: threads of the daemons at a time
    Recorders,          \* bound: runs of the VLBI script in a behaviour
    RemoteSessions      \* bounds of a behaviour: [commands |-> of the command thread,
                        \* asks |-> which ones, streams |-> whether the polling thread
                        \* can be created]

Connections == 1..MaxConnections
Recorder == 1..Recorders
Free == "free"
None == 0

\* What the command thread begins with; an answered ping is followed by more.
Commands == {"start_vlbi", "stop_vlbi", "ping"}
Answers == {"success", "error"}

ASSUME RemoteAssumption ==
    /\ MaxConnections \in Nat /\ Recorders \in Nat
    /\ RemoteSessions \subseteq [commands : Nat, asks : SUBSET Commands, streams : BOOLEAN]

VARIABLES
    remote_session,             \* the bounds of this behaviour
    asked_for, handler,           \* per connection: what is asked, how far the thread is
    vlbi_process, recorder,     \* the daemon's handle; each run of the script
    monitor, told, stage,       \* output threads; runs that said they capture; the status
    waiting, sent,              \* the command thread's connection, its commands so far
    stop_streaming, streaming, poll, vlbi_status_valid, vlbi_is_running,
    vlbi_raced, vlbi_early,     \* history: two starts were past the check at a time; a run
                                \* began before the last one's output or start was done
    gave_up                     \* history: a client no longer waits
run_vars == <<vlbi_process, recorder, monitor, told, stage, vlbi_early>>
daemon_vars == <<run_vars, vlbi_raced>>
command_vars == <<waiting, sent, gave_up>>
stream_vars == <<stop_streaming, streaming, poll, vlbi_status_valid, vlbi_is_running>>
remote_moves == <<asked_for, handler, daemon_vars, command_vars, stream_vars>>
remote_vars == <<remote_session, remote_moves>>

RemoteTypeOK ==
    /\ remote_session \in RemoteSessions
    /\ asked_for \in [Connections -> Commands \cup {"configure_clock", "get_vlbi_status", Free}]
    /\ handler \in [Connections -> {Free, "received", "checked", "started", "terminated",
                                     "script"} \cup Answers]
    /\ vlbi_process \in Recorder \cup {None}
    /\ recorder \in [Recorder -> {"none", "running", "stopping", "lingering", "ended"}]
    /\ monitor \in [Recorder -> {"none", "reading", "ended"}] /\ told \subseteq Recorder
    /\ stage \in {"stopped", "capturing"}
    /\ vlbi_raced \in BOOLEAN /\ vlbi_early \in BOOLEAN
    /\ waiting \in Connections \cup {None} /\ sent \in 0..remote_session.commands
    /\ gave_up \in BOOLEAN
    /\ stop_streaming \in BOOLEAN /\ streaming \in {"off", "asks", "waits", "sleeps", "joined"}
    /\ poll \in Connections \cup {None} /\ vlbi_status_valid \in BOOLEAN /\ vlbi_is_running \in BOOLEAN

RemoteInit ==
    /\ remote_session \in RemoteSessions
    /\ asked_for = [c \in Connections |-> Free] /\ handler = asked_for
    /\ vlbi_process = None /\ recorder = [r \in Recorder |-> "none"]
    /\ monitor = recorder /\ told = {} /\ stage = "stopped"
    /\ vlbi_raced = FALSE /\ vlbi_early = FALSE
    /\ waiting = None /\ sent = 0 /\ gave_up = FALSE
    /\ stop_streaming = FALSE /\ streaming = "off" /\ poll = None
    /\ vlbi_status_valid = FALSE /\ vlbi_is_running = FALSE

-----------------------------------------------------------------------------
(* The clients. *)

connects(c, command) ==
    /\ handler[c] = Free /\ \A d \in 1..(c - 1) : handler[d] # Free
    /\ asked_for' = [asked_for EXCEPT ![c] = command]
    /\ handler' = [handler EXCEPT ![c] = "received"]
closes(c) ==
    /\ asked_for' = [asked_for EXCEPT ![c] = Free]
    /\ handler' = [handler EXCEPT ![c] = Free]

\* The command thread sends a command and waits for the answer.
send_command(c, command) ==
    /\ waiting = None /\ sent < remote_session.commands /\ streaming # "joined"
    /\ command \in remote_session.asks /\ connects(c, command)
    /\ waiting' = c /\ sent' = sent + 1
    /\ UNCHANGED <<gave_up, daemon_vars, stream_vars>>
send_vlbi_command(c) == send_command(c, "start_vlbi") \/ send_command(c, "stop_vlbi")
rfsoc_check_connectivity(c) == send_command(c, "ping")

\* The daemon is reachable: the command itself goes over a connection of its own.
rfsoc_configure_ocxo ==
    /\ waiting # None /\ asked_for[waiting] = "ping" /\ handler[waiting] = "success"
    /\ asked_for' = [asked_for EXCEPT ![waiting] = "configure_clock"]
    /\ handler' = [handler EXCEPT ![waiting] = "received"]
    /\ UNCHANGED <<command_vars, daemon_vars, stream_vars>>

\* A start that succeeds also starts the thread that polls the status.
receive_response ==
    /\ waiting # None /\ handler[waiting] \in Answers /\ asked_for[waiting] # "ping"
    /\ waiting' = None
    /\ streaming' = IF asked_for[waiting] = "start_vlbi" /\ handler[waiting] = "success"
                       /\ streaming = "off" /\ remote_session.streams THEN "asks" ELSE streaming
    /\ closes(waiting)
    /\ UNCHANGED <<sent, gave_up, daemon_vars, stop_streaming, poll, vlbi_status_valid, vlbi_is_running>>

\* The receive times out (ten seconds, or twenty for the clock).
receive_times_out ==
    /\ waiting # None
    /\ waiting' = None /\ gave_up' = TRUE
    /\ UNCHANGED <<asked_for, handler, sent, daemon_vars, stream_vars>>

\* The streaming thread clears the status, asks, and stores the answer.
vlbi_get_status(c) ==
    /\ streaming = "asks"
    /\ \/ /\ ~stop_streaming /\ connects(c, "get_vlbi_status")
          /\ streaming' = "waits" /\ poll' = c /\ vlbi_is_running' = FALSE
       \/ /\ stop_streaming /\ streaming' = "off"
          /\ UNCHANGED <<asked_for, handler, poll, vlbi_is_running>>
    /\ UNCHANGED <<daemon_vars, command_vars, stop_streaming, vlbi_status_valid>>
\* The thread that answers looks at the process at that moment.
Polled == vlbi_process # None /\ recorder[vlbi_process] \in {"running", "stopping"}
status_received ==
    /\ streaming = "waits" /\ handler[poll] = "received"
    /\ vlbi_is_running' = Polled /\ vlbi_status_valid' = TRUE
    /\ closes(poll) /\ poll' = None /\ streaming' = "sleeps"
    /\ UNCHANGED <<daemon_vars, command_vars, stop_streaming>>
status_fails ==
    /\ streaming = "waits"
    /\ vlbi_status_valid' = FALSE
    /\ closes(poll) /\ poll' = None /\ streaming' = "sleeps"
    /\ UNCHANGED <<daemon_vars, command_vars, stop_streaming, vlbi_is_running>>
vlbi_streaming_thread ==
    /\ streaming = "sleeps" /\ streaming' = "asks"
    /\ UNCHANGED <<asked_for, handler, daemon_vars, command_vars, stop_streaming, poll,
                   vlbi_status_valid, vlbi_is_running>>

\* At the end of the program: the thread is asked to stop and joined.
vlbi_client_cleanup ==
    /\ waiting = None /\ streaming # "joined"
    /\ \/ /\ streaming # "off" /\ ~stop_streaming /\ stop_streaming' = TRUE
          /\ UNCHANGED <<streaming, vlbi_status_valid, vlbi_is_running>>
       \/ /\ streaming = "off" /\ streaming' = "joined"
          /\ vlbi_status_valid' = FALSE /\ vlbi_is_running' = FALSE
          /\ UNCHANGED stop_streaming
    /\ UNCHANGED <<asked_for, handler, daemon_vars, command_vars, poll>>

-----------------------------------------------------------------------------
(* The daemon on aquila. *)

Alive == {r \in Recorder : recorder[r] \in {"running", "stopping"}}
Running == vlbi_process \in Alive                   \* vlbi_process.poll() is None
goes(c, place) == handler' = [handler EXCEPT ![c] = place]
\* An answer to a client that no longer waits goes nowhere.
answers(c, answer) ==
    IF waiting = c THEN goes(c, answer) /\ UNCHANGED asked_for ELSE closes(c)

\* A mutant of "start_vlbi_checks": what runs is not looked at.
start_vlbi_checks_Blind(c) ==
    /\ asked_for[c] = "start_vlbi" /\ handler[c] = "received"
    /\ goes(c, "checked") /\ UNCHANGED asked_for
    /\ vlbi_raced' = (vlbi_raced \/ \E d \in Connections \ {c} : handler[d] = "checked")
    /\ UNCHANGED <<run_vars, command_vars, stream_vars>>

\* Check and Popen are two steps: the thread of another connection may be between them.
start_vlbi_checks(c) ==
    /\ asked_for[c] = "start_vlbi" /\ handler[c] = "received"
    /\ \/ Running /\ answers(c, "error") /\ UNCHANGED vlbi_raced
       \/ /\ ~Running /\ goes(c, "checked") /\ UNCHANGED asked_for
          /\ vlbi_raced' = (vlbi_raced \/ \E d \in Connections \ {c} : handler[d] = "checked")
    /\ UNCHANGED <<run_vars, command_vars, stream_vars>>

\* The script is started, unless it is not there or cannot be.
start_vlbi_fails(c) ==
    /\ handler[c] = "checked" /\ answers(c, "error")
    /\ UNCHANGED <<daemon_vars, command_vars, stream_vars>>
start_vlbi(c) ==
    /\ handler[c] = "checked"
    /\ \E r \in Recorder :
        /\ recorder[r] = "none" /\ \A q \in 1..(r - 1) : recorder[q] # "none"
        /\ vlbi_process' = r
        /\ recorder' = [recorder EXCEPT ![r] = "running"]
    /\ vlbi_early' = (\/ vlbi_early
                      \/ \E r \in Recorder : recorder[r] = "lingering" \/ monitor[r] = "reading"
                      \/ \E d \in Connections \ {c} : handler[d] = "started")
    /\ goes(c, "started")
    /\ UNCHANGED <<asked_for, monitor, told, stage, vlbi_raced, command_vars, stream_vars>>

\* Two seconds later: a thread reads the output, or the script has ended already.
start_vlbi_answers(c) ==
    /\ handler[c] = "started"
    /\ \/ /\ Running /\ answers(c, "success")
          /\ monitor' = [monitor EXCEPT ![vlbi_process] = "reading"]
       \/ ~Running /\ answers(c, "error") /\ UNCHANGED monitor
    /\ UNCHANGED <<vlbi_process, recorder, told, stage, vlbi_early, vlbi_raced, command_vars,
                   stream_vars>>

stop_vlbi(c) ==
    /\ asked_for[c] = "stop_vlbi" /\ handler[c] = "received"
    /\ \/ answers(c, "error") /\ UNCHANGED recorder      \* no run, or not allowed to
       \/ /\ Running /\ goes(c, "terminated") /\ UNCHANGED asked_for
          /\ recorder' = [recorder EXCEPT ![vlbi_process] = "stopping"]
    /\ UNCHANGED <<vlbi_process, monitor, told, stage, vlbi_early, vlbi_raced, command_vars,
                   stream_vars>>

\* Within ten seconds it has ended, or it is killed: sudo is, not what it runs.
stop_vlbi_answers(c) ==
    /\ handler[c] = "terminated"
    /\ \/ ~Running /\ UNCHANGED recorder
       \/ Running /\ recorder' = [recorder EXCEPT ![vlbi_process] = "lingering"]
    /\ answers(c, "success")
    /\ UNCHANGED <<vlbi_process, monitor, told, stage, vlbi_early, vlbi_raced, command_vars,
                   stream_vars>>

\* The script: it may end, at once when it is asked to; its children hold the pipe longer.
start_vlbi_logging(r) ==
    /\ \/ recorder[r] \in {"running", "stopping"} /\ recorder' = [recorder EXCEPT ![r] = "lingering"]
       \/ recorder[r] = "lingering" /\ recorder' = [recorder EXCEPT ![r] = "ended"]
    /\ UNCHANGED <<asked_for, handler, vlbi_process, monitor, told, stage, vlbi_early,
                   vlbi_raced, command_vars, stream_vars>>

parse_vlbi_output(r) ==
    /\ monitor[r] = "reading" /\ recorder[r] = "running" /\ r \notin told
    /\ stage' = "capturing" /\ told' = told \cup {r}
    /\ UNCHANGED <<asked_for, handler, vlbi_process, recorder, monitor, vlbi_early,
                   vlbi_raced, command_vars, stream_vars>>
monitor_vlbi_output(r) ==
    /\ monitor[r] = "reading" /\ recorder[r] = "ended"
    /\ monitor' = [monitor EXCEPT ![r] = "ended"] /\ stage' = "stopped"
    /\ UNCHANGED <<asked_for, handler, vlbi_process, recorder, told, vlbi_early, vlbi_raced,
                   command_vars, stream_vars>>

-----------------------------------------------------------------------------
(* The daemon on the RFSoC: a script of up to thirty seconds. *)

configure_clock(c) ==
    /\ asked_for[c] = "configure_clock"
    /\ \/ handler[c] = "received" /\ goes(c, "script") /\ UNCHANGED asked_for
       \/ handler[c] = "script" /\ \E a \in Answers : answers(c, a)
    /\ UNCHANGED <<daemon_vars, command_vars, stream_vars>>

ping(c) ==
    /\ asked_for[c] = "ping" /\ handler[c] = "received" /\ answers(c, "success")
    /\ UNCHANGED <<daemon_vars, command_vars, stream_vars>>

-----------------------------------------------------------------------------
handle_client(c) ==
    \/ start_vlbi_checks(c) \/ start_vlbi(c) \/ start_vlbi_fails(c) \/ start_vlbi_answers(c)
    \/ stop_vlbi(c) \/ stop_vlbi_answers(c) \/ configure_clock(c) \/ ping(c)
status_poll == (\E c \in Connections : vlbi_get_status(c)) \/ status_received \/ status_fails
        \/ vlbi_streaming_thread

RemoteStep ==
    \/ \E c \in Connections : send_vlbi_command(c) \/ rfsoc_check_connectivity(c)
    \/ receive_response \/ rfsoc_configure_ocxo \/ receive_times_out
    \/ status_poll \/ vlbi_client_cleanup
    \/ \E c \in Connections : handle_client(c)
    \/ \E r \in Recorder : start_vlbi_logging(r) \/ parse_vlbi_output(r) \/ monitor_vlbi_output(r)
RemoteNext == RemoteStep /\ UNCHANGED remote_session

\* All threads run; a receive ends one way or the other; an answer to a poll comes
\* through if there are ever more polls; the output thread reads what there is.
RemoteFair ==
    /\ WF_remote_moves(receive_response \/ rfsoc_configure_ocxo \/ receive_times_out)
    /\ WF_remote_moves(status_poll)
    /\ SF_remote_moves(status_received)
    /\ \A c \in Connections : WF_remote_moves(handle_client(c))
    /\ \A r \in Recorder : WF_remote_moves(monitor_vlbi_output(r))

RemoteSpec == RemoteInit /\ [][RemoteNext]_remote_vars /\ RemoteFair

-----------------------------------------------------------------------------
\* One run of the VLBI script at a time, for any starts, stops and clients that give up,
\* unless two starts were between the check and Popen at once; and the stage tells whether
\* it captures, unless it also began while the last run's output was still read or its
\* start not answered: the output thread of an ended run says "stopped" whenever.
OneRecorder ==
    ~vlbi_raced =>
        /\ Cardinality(Alive) <= 1
        /\ ~vlbi_early => (stage = "capturing" <=> \E r \in told : monitor[r] = "reading")

\* A command answered with success has happened: a start has left a run that the
\* daemon can stop, or it has ended since; a stop has left none,
\* unless a start was given up before and is still under way.  The clock script
\* runs once at a time, but for a client that gave up and asked again.
AnswersAreTrue ==
    /\ \A c \in Connections :
        /\ asked_for[c] = "stop_vlbi" /\ handler[c] = "success" => ~Running \/ gave_up
        /\ asked_for[c] = "start_vlbi" /\ handler[c] = "success" => vlbi_process # None
    /\ Cardinality({c \in Connections : handler[c] = "script"}) <= 1 \/ gave_up

\* What the telemetry server tells of the recorder.
vlbi_channels == IF vlbi_status_valid THEN vlbi_is_running ELSE "N/A"

\* While a run goes on the status seen by the telemetry gets to say so.
StatusArrives ==
    <>[](/\ \E r \in Recorder : vlbi_process = r /\ recorder[r] = "running"
         /\ streaming \in {"asks", "waits", "sleeps"} /\ ~stop_streaming)
        => []<>(vlbi_status_valid /\ vlbi_channels)

\* A command returns, and so does the join of the polling thread.
RemoteWaits == waiting # None \/ (stop_streaming /\ streaming \notin {"off", "joined"})
CommandsReturn == RemoteWaits ~> ~RemoteWaits
=============================================================================

----------------------------- MODULE SagChildren -----------------------------
(***************************************************************************)
(* The child processes of the command program of Saggitarius: the           *)
(* spectrometer script, the PR59 controller (exec_command of cli_Sag.c) and  *)
(* the script of the position sensors, which a thread of                    *)
(* position_sensors.c starts again whenever it ends.                        *)
(*                                                                         *)
(* All are children of one process: waitpid and kill with the argument -1   *)
(* concern every one of them.  The command thread executes one command      *)
(* after the other; a step is what lies between two accesses to a process   *)
(* or to a variable that the script threads share with it.                  *)
(***************************************************************************)
EXTENDS Naturals

CONSTANTS Forks,    \* BOUND: processes the program creates
          Starts,   \* BOUND: accepted start_position_box commands of any session
          Polls,    \* BOUND: one-second polls of a stop (10 in the code, 5 for
                    \* the spectrometer)
          Sessions  \* BOUND: what one session may use, records of a set of
                    \* services and a number of starts

ASSUME SagChildrenAssumption ==
    /\ Forks \in Nat \ {0} /\ Starts \in Nat \ {0} /\ Polls \in Nat \ {0}
    /\ Sessions \subseteq [services : SUBSET {"spec", "pr59"}, starts : 0..Starts]

Pid     == 1..Forks
Thread  == 1..Starts
Service == {"spec", "pr59"}
Any     == 0            \* the process id -1

VARIABLES
    process,        \* what the kernel knows of each process
    owner,          \* what each process was created for
    script_pid, script_thread_running, data_thread_running, script_running,
    script_thread,  \* where the script thread of each start is
    waits_for,      \* and the argument of its waitpid
    receiver,       \* the data threads that are alive
    service_running,\* the services with spec_running or pr59_running set
    service_pid,    \* python_pid and pr59_pid
    active_type,    \* the spectrum the spectrometer server offers
    session,        \* what this session may use, also config.pr59.enabled
    command,        \* where the command thread is
    stopping,       \* the service that is being stopped
    polls,          \* polls made by this stop
    awaited,        \* the argument of the last waitpid of position_sensors_stop
    exiting,
    early           \* history: a start found a script or a thread of an earlier start

kernel   == <<process, owner>>
sensors  == <<script_pid, script_thread_running, data_thread_running, script_running>>
threads  == <<script_thread, waits_for>>
services == <<service_running, service_pid, active_type, session>>
cli      == <<command, stopping, polls, awaited, exiting>>
vars     == <<kernel, sensors, threads, receiver, services, cli, early>>

-----------------------------------------------------------------------------
(* The kernel *)

running == {p \in Pid : process[p] = "running"}
zombies == {p \in Pid : process[p] = "zombie"}

\* fork() returns a new process id.
fork(p, o) == /\ process[p] = "unused"
              /\ \A q \in Pid : q < p => process[q] # "unused"
              /\ process' = [process EXCEPT ![p] = "running"]
              /\ owner' = [owner EXCEPT ![p] = o]

\* A process ends, of itself or because of a signal.
ProcessEnds(p) == /\ process[p] = "running"
                  /\ process' = [process EXCEPT ![p] = "zombie"]
                  /\ UNCHANGED <<owner, sensors, threads, receiver, services, cli, early>>

\* waitpid(p, ...) finds the child ended, and removes it.
reaps(p, target) == /\ process[p] = "zombie" /\ target \in {p, Any}
                    /\ process' = [process EXCEPT ![p] = IF target = p THEN "reaped" ELSE "stolen"]
                    /\ UNCHANGED owner

\* waitpid returns -1: there is no such child.
noChild(target) == IF target = Any THEN running \cup zombies = {}
                                   ELSE process[target] \notin {"running", "zombie"}

\* waitpid with WNOHANG returns 0.
notYet(target) == IF target = Any THEN running # {} /\ zombies = {}
                                  ELSE process[target] = "running"

kill(p) == process' = [q \in Pid |-> IF process[q] = "running" /\ p \in {q, Any}
                                     THEN "zombie" ELSE process[q]]

-----------------------------------------------------------------------------
Init == /\ process = [p \in Pid |-> "unused"]
        /\ owner = [p \in Pid |-> "nobody"]
        /\ script_pid = Any
        /\ script_thread_running = FALSE /\ data_thread_running = FALSE
        /\ script_running = FALSE
        /\ script_thread = [t \in Thread |-> "none"]
        /\ waits_for = [t \in Thread |-> Any]
        /\ receiver = {}
        /\ service_running = {}
        /\ service_pid = [s \in Service |-> Any]
        /\ active_type = "none"
        /\ session \in Sessions
        /\ command = "idle" /\ stopping = "spec" /\ polls = 0 /\ awaited = Any
        /\ exiting = FALSE
        /\ early = FALSE

-----------------------------------------------------------------------------
(* script_management_thread *)

ThreadStep(t, from, to) == /\ script_thread[t] = from
                           /\ script_thread' = [script_thread EXCEPT ![t] = to]
                           /\ UNCHANGED <<receiver, services, cli, early>>

script_forks(t) ==
    /\ script_thread_running /\ ~script_running
    /\ ThreadStep(t, "loop", "fork")
    /\ UNCHANGED <<kernel, sensors, waits_for>>

script_forked(t) ==
    \E p \in Pid : /\ ThreadStep(t, "fork", "forked")
                   /\ fork(p, "script")
                   /\ script_pid' = p
                   /\ UNCHANGED <<script_thread_running, data_thread_running, script_running, waits_for>>

\* fork() returns -1, into script_pid.
script_not_forked(t) ==
    /\ ThreadStep(t, "fork", "loop")
    /\ script_pid' = Any
    /\ UNCHANGED <<kernel, script_thread_running, data_thread_running, script_running, waits_for>>

script_started(t) ==
    /\ ThreadStep(t, "forked", "started")
    /\ script_running' = TRUE
    /\ UNCHANGED <<kernel, script_pid, script_thread_running, data_thread_running, waits_for>>

\* Mutant: waitpid is called with WNOHANG.
script_waits_Not(t) ==
    /\ ThreadStep(t, "started", "waited")
    /\ UNCHANGED <<kernel, sensors, waits_for>>

\* The argument of waitpid is read from the shared script_pid.
script_waits(t) ==
    /\ ThreadStep(t, "started", "waiting")
    /\ waits_for' = [waits_for EXCEPT ![t] = script_pid]
    /\ UNCHANGED <<kernel, sensors>>

script_waited(t) ==
    /\ ThreadStep(t, "waiting", "waited")
    /\ \/ \E p \in Pid : reaps(p, waits_for[t])
       \/ noChild(waits_for[t]) /\ UNCHANGED kernel
    /\ waits_for' = [waits_for EXCEPT ![t] = Any]
    /\ UNCHANGED sensors

\* Whatever waitpid returned, no script is running any more.
script_ended(t) ==
    /\ ThreadStep(t, "waited", "ended")
    /\ script_running' = FALSE
    /\ UNCHANGED <<kernel, script_pid, script_thread_running, data_thread_running, waits_for>>

script_forgotten(t) ==
    /\ ThreadStep(t, "ended", "loop")
    /\ script_pid' = Any
    /\ UNCHANGED <<kernel, script_thread_running, data_thread_running, script_running, waits_for>>

\* Mutant: the thread has no way out of its loop.
script_thread_ends_Never(t) ==
    /\ ~script_thread_running /\ t \notin Thread
    /\ ThreadStep(t, "loop", "done")
    /\ UNCHANGED <<kernel, sensors, waits_for>>

script_thread_ends(t) ==
    /\ ~script_thread_running
    /\ ThreadStep(t, "loop", "done")
    /\ UNCHANGED <<kernel, sensors, waits_for>>

script_management_thread(t) ==
    \/ script_forks(t)   \/ script_forked(t) \/ script_not_forked(t)
    \/ script_started(t) \/ script_waits(t)  \/ script_waited(t)
    \/ script_ended(t)   \/ script_forgotten(t) \/ script_thread_ends(t)

\* data_reception_thread: it sees the flag when recv or connect returns.
data_thread_ends(t) ==
    /\ t \in receiver /\ ~data_thread_running
    /\ receiver' = receiver \ {t}
    /\ UNCHANGED <<kernel, sensors, threads, services, cli, early>>

-----------------------------------------------------------------------------
(* start_position_box *)

script_threads == {t \in Thread : script_thread[t] \notin {"none", "done"}}
scripts   == {p \in running : owner[p] = "script"}
newest(t) == /\ script_thread[t] # "none"
             /\ \A u \in Thread : t < u => script_thread[u] = "none"

position_sensors_is_running == script_thread_running \/ data_thread_running

\* The directories, the files or the first thread may fail: nothing is left.
start_position_box ==
    /\ command = "idle" /\ ~position_sensors_is_running
    /\ \E t \in Thread : /\ t <= session.starts /\ script_thread[t] = "none"
                         /\ \A u \in Thread : u < t => script_thread[u] # "none"
                         /\ script_thread' = [script_thread EXCEPT ![t] = "loop"]
    /\ script_thread_running' = TRUE
    /\ early' = (early \/ scripts # {} \/ receiver # {} \/ script_threads # {})
    /\ command' = "starting"
    /\ UNCHANGED <<kernel, script_pid, data_thread_running, script_running, waits_for,
                   receiver, services, stopping, polls, awaited, exiting>>

data_thread_starts ==
    /\ command = "starting"
    /\ data_thread_running' = TRUE
    /\ \E t \in Thread : newest(t) /\ receiver' = receiver \cup {t}
    /\ command' = "idle"
    /\ UNCHANGED <<kernel, script_pid, script_thread_running, script_running, threads,
                   services, stopping, polls, awaited, exiting, early>>

data_thread_fails ==
    /\ command = "starting"
    /\ data_thread_running' = FALSE /\ script_thread_running' = FALSE
    /\ command' = "cancelling"
    /\ UNCHANGED <<kernel, script_pid, script_running, threads, receiver,
                   services, stopping, polls, awaited, exiting, early>>

\* pthread_cancel takes effect where the thread sleeps, logs or waits, and the
\* script it has started stays.
script_thread_cancelled ==
    /\ command = "cancelling"
    /\ \E t \in Thread :
           /\ newest(t)
           /\ script_thread[t] \in {"loop", "fork", "started", "waiting", "ended", "done"}
           /\ script_thread' = [script_thread EXCEPT ![t] = "done"]
    /\ command' = "idle"
    /\ UNCHANGED <<kernel, sensors, waits_for, receiver,
                   services, stopping, polls, awaited, exiting, early>>

-----------------------------------------------------------------------------
(* position_sensors_stop, of stop_position_box and of exit.  Every access to
   script_pid reads it anew, as the script thread may change it.             *)

Stage(from, to) == /\ command = from /\ command' = to
                   /\ UNCHANGED <<threads, receiver, services, stopping, exiting, early>>

stop_position_box ==
    /\ \/ command = "idle"
       \/ command = "exit_sensors"
    /\ position_sensors_is_running
    /\ script_thread_running' = FALSE /\ data_thread_running' = FALSE
    /\ command' = "stop_looks"
    /\ UNCHANGED <<kernel, script_pid, script_running, threads, receiver,
                   services, stopping, polls, awaited, exiting, early>>

stop_looks ==
    /\ Stage("stop_looks", IF script_pid = Any THEN "stop_ends" ELSE "stop_terminates")
    /\ UNCHANGED <<kernel, sensors, polls, awaited>>

stop_terminates ==
    /\ Stage("stop_terminates", "stop_polls")
    /\ UNCHANGED <<kernel, sensors, polls, awaited>>

\* The end of the script ends the loop, the end of another child does not.
stop_polls ==
    /\ polls < Polls
    /\ \/ /\ \/ script_pid # Any /\ \E p \in Pid : reaps(p, script_pid)
             \/ noChild(script_pid) /\ UNCHANGED kernel
          /\ Stage("stop_polls", "stop_tries")
          /\ polls' = 0
       \/ /\ \/ script_pid = Any /\ \E p \in Pid : reaps(p, script_pid)
             \/ notYet(script_pid) /\ UNCHANGED kernel
          /\ Stage("stop_polls", "stop_polls")
          /\ polls' = polls + 1
    /\ UNCHANGED <<sensors, awaited>>

stop_gives_up ==
    /\ polls = Polls
    /\ Stage("stop_polls", "stop_tries")
    /\ polls' = 0
    /\ UNCHANGED <<kernel, sensors, awaited>>

stop_tries ==
    /\ \/ /\ \/ \E p \in Pid : reaps(p, script_pid)
             \/ noChild(script_pid) /\ UNCHANGED kernel
          /\ Stage("stop_tries", "stop_forgets")
       \/ /\ notYet(script_pid) /\ UNCHANGED kernel
          /\ Stage("stop_tries", "stop_kills")
    /\ UNCHANGED <<sensors, polls, awaited>>

\* Mutant: the stop trusts SIGTERM and waits without SIGKILL.
stop_kills_Not ==
    /\ Stage("stop_kills", "stop_waits")
    /\ UNCHANGED <<kernel, sensors, polls, awaited>>

stop_kills ==
    /\ Stage("stop_kills", "stop_waits")
    /\ kill(script_pid) /\ UNCHANGED owner
    /\ UNCHANGED <<sensors, polls, awaited>>

stop_waits ==
    /\ Stage("stop_waits", "stop_waiting")
    /\ awaited' = script_pid
    /\ UNCHANGED <<kernel, sensors, polls>>

stop_waited ==
    /\ \/ \E p \in Pid : reaps(p, awaited)
       \/ noChild(awaited) /\ UNCHANGED kernel
    /\ Stage("stop_waiting", "stop_forgets")
    /\ awaited' = Any
    /\ UNCHANGED <<sensors, polls>>

stop_forgets ==
    /\ Stage("stop_forgets", "stop_ends")
    /\ script_pid' = Any
    /\ UNCHANGED <<kernel, script_thread_running, data_thread_running, script_running,
                   polls, awaited>>

\* The flags the joins depend on have been cleared: no thread is waited for.
stop_ends ==
    /\ Stage("stop_ends", IF exiting THEN "exited" ELSE "idle")
    /\ script_running' = FALSE
    /\ UNCHANGED <<kernel, script_pid, script_thread_running, data_thread_running,
                   polls, awaited>>

position_sensors_stop ==
    \/ stop_looks \/ stop_terminates \/ stop_polls \/ stop_gives_up \/ stop_tries
    \/ stop_kills \/ stop_waits \/ stop_waited \/ stop_forgets \/ stop_ends

-----------------------------------------------------------------------------
(* start_spec, start_spec_120kHz, start_pr59 and their stop commands *)

\* fork() may fail, which is reported and leaves everything as it was.
start_service(s) ==
    /\ command = "idle" /\ s \in session.services /\ s \notin service_running
    /\ \E p \in Pid : /\ fork(p, s)
                      /\ service_pid' = [service_pid EXCEPT ![s] = p]
    /\ service_running' = service_running \cup {s}
    /\ IF s = "spec" THEN active_type' = "active" ELSE UNCHANGED active_type
    /\ UNCHANGED <<session, sensors, threads, receiver, cli, early>>

\* Mutant: the running flag is cleared only at the end, and there forgotten.
stop_service_FlagStays(s) ==
    /\ command = "idle" /\ s \in session.services /\ s \in service_running
    /\ command' = "service_polls" /\ stopping' = s
    /\ UNCHANGED <<kernel, sensors, threads, receiver, services, polls, awaited, exiting, early>>

stop_service(s) ==
    /\ command = "idle" /\ s \in session.services /\ s \in service_running
    /\ service_running' = service_running \ {s}
    /\ command' = "service_polls" /\ stopping' = s
    /\ UNCHANGED <<kernel, sensors, threads, receiver, service_pid, active_type, session,
                   polls, awaited, exiting, early>>

service_step(to) == /\ command' = to
                    /\ UNCHANGED <<sensors, threads, receiver, service_running, service_pid,
                                   session, stopping, awaited, exiting, early>>

\* Mutant: the server goes on to offer the spectrum of the script that ended.
clear_type_Not == UNCHANGED active_type

\* spec_server_set_active_type(SPEC_TYPE_NONE), after the script has ended
clear_type == active_type' = IF stopping = "spec" THEN "none" ELSE active_type

service_polls ==
    /\ command = "service_polls" /\ polls < Polls
    /\ LET pid == service_pid[stopping] IN
       \/ /\ \E p \in Pid : reaps(p, pid)
          /\ service_step("idle") /\ clear_type /\ polls' = 0
       \/ /\ noChild(pid) /\ UNCHANGED kernel       \* "waitpid failed"
          /\ service_step("idle") /\ UNCHANGED active_type /\ polls' = 0
       \/ /\ notYet(pid) /\ UNCHANGED kernel
          /\ service_step("service_polls") /\ UNCHANGED active_type
          /\ polls' = polls + 1

service_killed ==
    /\ command = "service_polls" /\ polls = Polls
    /\ kill(service_pid[stopping]) /\ UNCHANGED owner
    /\ service_step("service_waits") /\ UNCHANGED active_type /\ polls' = 0

service_waits ==
    /\ command = "service_waits"
    /\ LET pid == service_pid[stopping] IN
       \/ \E p \in Pid : reaps(p, pid)
       \/ noChild(pid) /\ UNCHANGED kernel
    /\ service_step("idle") /\ clear_type /\ UNCHANGED polls

-----------------------------------------------------------------------------
(* exit, up to the power down *)

exit_both ==
    /\ command = "idle"
    /\ command' = "exit_spec" /\ exiting' = TRUE
    /\ UNCHANGED <<kernel, sensors, threads, receiver, services, stopping, polls, awaited, early>>

\* SIGTERM, and a wait for the child however long that takes.
exit_service(s, from, to) ==
    /\ command = from
    /\ \/ /\ s \notin service_running /\ command' = to
          /\ UNCHANGED <<service_running, stopping>>
       \/ /\ s \in service_running /\ command' = "exit_waits"
          /\ service_running' = service_running \ {s}
          /\ stopping' = s
    /\ UNCHANGED <<kernel, sensors, threads, receiver, service_pid, active_type, session,
                   polls, awaited, exiting, early>>

exit_waits ==
    /\ command = "exit_waits"
    /\ LET pid == service_pid[stopping] IN
       \/ \E p \in Pid : reaps(p, pid)
       \/ noChild(pid) /\ UNCHANGED kernel
    /\ service_step(IF stopping = "spec" THEN "exit_pr59" ELSE "exit_sensors")
    /\ UNCHANGED <<active_type, polls>>

exit_ends ==
    /\ command = "exit_sensors" /\ ~position_sensors_is_running
    /\ command' = "exited"
    /\ UNCHANGED <<kernel, sensors, threads, receiver, services,
                   stopping, polls, awaited, exiting, early>>

-----------------------------------------------------------------------------
command_thread ==
    \/ start_position_box \/ data_thread_starts \/ data_thread_fails \/ script_thread_cancelled
    \/ stop_position_box \/ position_sensors_stop
    \/ \E s \in Service : start_service(s) \/ stop_service(s)
    \/ service_polls \/ service_killed \/ service_waits
    \/ exit_both \/ exit_service("spec", "exit_spec", "exit_pr59")
    \/ exit_service("pr59", "exit_pr59", "exit_sensors") \/ exit_waits \/ exit_ends

\* exec_command returned from exit: the threads live on until main returns.
done == command = "exited" /\ UNCHANGED vars

Next == \/ command_thread
        \/ \E t \in Thread : script_management_thread(t) \/ data_thread_ends(t)
        \/ \E p \in Pid : ProcessEnds(p)
        \/ done

Spec == Init /\ [][Next]_vars

-----------------------------------------------------------------------------
(* Properties *)

StopStages == {"stop_looks", "stop_terminates", "stop_polls", "stop_tries", "stop_kills",
               "stop_waits", "stop_waiting", "stop_forgets", "stop_ends"}
ServiceStages == {"service_polls", "service_waits"}
Stages == {"idle", "starting", "cancelling", "exit_spec", "exit_pr59", "exit_waits",
           "exit_sensors", "exited", "stop_looks", "stop_terminates", "stop_polls", "stop_tries",
           "stop_kills", "stop_waits", "stop_waiting", "stop_forgets", "stop_ends",
           "service_polls", "service_waits"}

TypeOK ==
    /\ process \in [Pid -> {"unused", "running", "zombie", "reaped", "stolen"}]
    /\ owner \in [Pid -> {"nobody", "script"} \cup Service]
    /\ script_pid \in Pid \cup {Any}
    /\ script_thread_running \in BOOLEAN /\ data_thread_running \in BOOLEAN
    /\ script_running \in BOOLEAN
    /\ script_thread \in [Thread -> {"none", "loop", "fork", "forked", "started", "waiting",
                                     "waited", "ended", "done"}]
    /\ waits_for \in [Thread -> Pid \cup {Any}]
    /\ receiver \subseteq Thread
    /\ service_running \subseteq Service
    /\ service_pid \in [Service -> Pid \cup {Any}]
    /\ active_type \in {"none", "active"}
    /\ session \in Sessions
    /\ command \in Stages /\ stopping \in Service
    /\ polls \in 0..Polls
    /\ awaited \in Pid \cup {Any}
    /\ exiting \in BOOLEAN /\ early \in BOOLEAN

\* The process ids the program keeps are those of the right children.
PidsAreOwn ==
    /\ script_pid # Any => owner[script_pid] = "script"
    /\ awaited # Any => owner[awaited] = "script"
    /\ \A t \in Thread : waits_for[t] # Any => owner[waits_for[t]] = "script"
    /\ \A s \in Service : service_pid[s] # Any => owner[service_pid[s]] = s
    /\ \A p \in Pid : owner[p] = "nobody" <=> process[p] = "unused"

\* The child of a service, which nobody has waited for but a waitpid(-1) of the
\* position sensors.
HasChild(s) == /\ service_pid[s] # Any
               /\ process[service_pid[s]] \in {"running", "zombie", "stolen"}

\* Signals and waits of the stop commands concern a child that is still theirs
\* and not a process id the kernel may have given away.
ServiceKeepsItsChild == \A s \in service_running : HasChild(s)

\* position_sensors_stop can end what it is to end: while the sensors run there
\* is at most one script, and script_pid is its process id.  Only a start that
\* found a script or a thread of an earlier start alive breaks this.
StopKnowsTheScript ==
    position_sensors_is_running /\ ~early => \A p \in scripts : p = script_pid

\* The spectrometer server offers a spectrum only while its script counts as
\* running, unless the stop command found the script taken by a waitpid(-1).
TypeFollowsScript ==
    command = "idle" /\ active_type # "none" =>
        \/ "spec" \in service_running
        \/ service_pid["spec"] # Any /\ process[service_pid["spec"]] = "stolen"

\* What the stop of a service relies on until it returns.
StopInProgress ==
    /\ command \in ServiceStages \cup {"exit_waits"} => stopping \notin service_running
    /\ command \in ServiceStages => HasChild(stopping)
    /\ command \in {"idle", "starting", "cancelling"} \cup ServiceStages => ~exiting
    /\ command \in {"exit_spec", "exit_pr59", "exit_waits", "exit_sensors"} => exiting

\* TypeFollowsScript at every moment.
TypeFollows ==
    active_type # "none" =>
        \/ "spec" \in service_running \/ exiting
        \/ command \in ServiceStages /\ stopping = "spec"
        \/ service_pid["spec"] # Any /\ process[service_pid["spec"]] = "stolen"

IInv == TypeOK /\ PidsAreOwn /\ ServiceKeepsItsChild /\ StopInProgress /\ TypeFollows

\* "Force killing position sensor script..." (position_sensors.c:178): the
\* SIGKILL of the stop goes to that script and not to the process id -1.
KillsOnlyTheScript == command = "stop_kills" => script_pid # Any

-----------------------------------------------------------------------------
(* Liveness.  Threads are scheduled; the loops of the code sleep a second and
   recv has a timeout.  Nothing is assumed about the processes: a script may
   run for ever and ignore SIGTERM.                                          *)

Fairness ==
    /\ WF_vars(data_thread_starts \/ data_thread_fails) /\ WF_vars(script_thread_cancelled)
    /\ WF_vars(position_sensors_stop)
    /\ WF_vars(service_polls \/ service_killed \/ service_waits)
    /\ \A t \in Thread : /\ WF_vars(script_management_thread(t))
                         /\ WF_vars(data_thread_ends(t))

FairSpec == Spec /\ Fairness

\* A stop command returns even if the process ignores SIGTERM.  What it cannot
\* get out of is a waitpid(-1) while other children run, or, with the threads of
\* two starts alive, a waitpid for a script forked since its SIGKILL.
StopReturns ==
    command \in StopStages \cup ServiceStages ~>
        \/ command \notin StopStages \cup ServiceStages
        \/ command = "stop_waiting" /\ (awaited = Any \/ early)

\* The threads, which nobody joins, end after a stop, unless a start comes
\* first or the script thread waits for a script that runs on.
ThreadsLinger ==
    /\ ~position_sensors_is_running
    /\ \E t \in Thread : script_thread[t] \notin {"none", "done", "waiting"} \/ t \in receiver
ThreadsEnd == ThreadsLinger ~> ~ThreadsLinger
=============================================================================

--------------------------- MODULE SagServicesProofs ---------------------------
(***************************************************************************)
(* The inductive invariant of SagChildren, for any number of processes,     *)
(* starts and polls, and the two properties that follow from it.  There is  *)
(* one lemma for each part of IInv, with one step for each action.          *)
(***************************************************************************)
EXTENDS SagServices, SequenceTheorems, TLAPS

Unreaped == {"running", "zombie", "stolen"}

\* What a waitpid with this argument may do to the processes.
Waited(target) ==
    /\ process' \in [Pid -> {"unused", "running", "zombie", "reaped", "stolen"}]
    /\ owner' = owner
    /\ \A q \in Pid : /\ process'[q] = "unused" <=> process[q] = "unused"
                      /\ q # target /\ process[q] \in Unreaped => process'[q] \in Unreaped
                      /\ process[q] = "stolen" => process'[q] = "stolen"

\* A waitpid removes only the process it names, or takes any one away.
LEMMA Waitpid ==
    ASSUME IInv, NEW target,
           (\E p \in Pid : reaps(p, target)) \/ UNCHANGED kernel
    PROVE  Waited(target)
<1>1. CASE UNCHANGED kernel
  <2>1. process' = process /\ owner' = owner
    BY <1>1 DEF kernel
  <2> QED
    BY <2>1 DEF Waited, IInv, TypeOK
<1>2. ASSUME NEW p \in Pid, reaps(p, target) PROVE Waited(target)
  BY <1>2 DEF reaps, Waited, Unreaped, IInv, TypeOK
<1> QED
  BY <1>1, <1>2

\* Every step keeps TypeOK.
LEMMA TypeStep ==
    ASSUME IInv, [Next]_vars
    PROVE  TypeOK'
<1> USE SagChildrenAssumption DEF IInv, TypeOK, Pid, Thread, Service, Any, Stages, StopStages,
    ServiceStages, kernel, sensors, threads, services, cli
<1>1. ASSUME NEW t \in Thread, script_forks(t) PROVE TypeOK'
  BY <1>1 DEF script_forks, ThreadStep
<1>2. ASSUME NEW t \in Thread, script_forked(t) PROVE TypeOK'
  BY <1>2 DEF script_forked, fork, ThreadStep
<1>3. ASSUME NEW t \in Thread, script_not_forked(t) PROVE TypeOK'
  BY <1>3 DEF script_not_forked, ThreadStep
<1>4. ASSUME NEW t \in Thread, script_started(t) PROVE TypeOK'
  BY <1>4 DEF script_started, ThreadStep
<1>5. ASSUME NEW t \in Thread, script_waits(t) PROVE TypeOK'
  BY <1>5 DEF script_waits, ThreadStep
<1>6. ASSUME NEW t \in Thread, script_waited(t) PROVE TypeOK'
  <2>1. Waited(waits_for[t])
    BY <1>6, Waitpid DEF script_waited
  <2> QED
    BY <1>6, <2>1 DEF script_waited, Waited, Unreaped, ThreadStep
<1>7. ASSUME NEW t \in Thread, script_ended(t) PROVE TypeOK'
  <2>1. script_thread' \in [Thread -> {"none", "loop", "fork", "forked", "started",
                                     "waiting", "waited", "ended", "done"}]
    BY <1>7 DEF script_ended, ThreadStep
  <2>2. script_running' \in BOOLEAN
    BY <1>7 DEF script_ended
  <2> QED
    BY <1>7, <2>1, <2>2 DEF script_ended, ThreadStep
<1>8. ASSUME NEW t \in Thread, script_forgotten(t) PROVE TypeOK'
  BY <1>8 DEF script_forgotten, ThreadStep
<1>9. ASSUME NEW t \in Thread, script_thread_ends(t) PROVE TypeOK'
  BY <1>9 DEF script_thread_ends, ThreadStep
<1>10. ASSUME NEW t \in Thread, data_thread_ends(t) PROVE TypeOK'
  BY <1>10 DEF data_thread_ends
<1>11. CASE start_position_box
  BY <1>11 DEF start_position_box
<1>12. CASE data_thread_starts
  BY <1>12 DEF data_thread_starts, newest
<1>13. CASE data_thread_fails
  BY <1>13 DEF data_thread_fails
<1>14. CASE script_thread_cancelled
  BY <1>14 DEF script_thread_cancelled, newest
<1>15. CASE stop_position_box
  BY <1>15 DEF stop_position_box
<1>16. CASE stop_looks
  BY <1>16 DEF stop_looks, Stage
<1>17. CASE stop_terminates
  BY <1>17 DEF stop_terminates, Stage
<1>18. CASE stop_polls
  <2>1. Waited(script_pid)
    BY <1>18, Waitpid DEF stop_polls
  <2>2. /\ script_thread' = script_thread /\ waits_for' = waits_for /\ receiver' = receiver
        /\ service_running' = service_running /\ service_pid' = service_pid
        /\ active_type' = active_type /\ session' = session /\ stopping' = stopping
        /\ exiting' = exiting /\ early' = early
    BY <1>18 DEF stop_polls, Stage
  <2>3. /\ script_pid' = script_pid /\ script_thread_running' = script_thread_running
        /\ data_thread_running' = data_thread_running /\ script_running' = script_running
        /\ awaited' = awaited
    BY <1>18 DEF stop_polls
  <2>4. command' \in {"stop_polls", "stop_tries"} /\ polls' \in 0..Polls
    BY <1>18 DEF stop_polls, Stage
  <2> QED
    BY <2>1, <2>2, <2>3, <2>4 DEF Waited, Unreaped
<1>19. CASE stop_gives_up
  BY <1>19 DEF stop_gives_up, Stage
<1>20. CASE stop_tries
  <2>1. Waited(script_pid)
    BY <1>20, Waitpid DEF stop_tries
  <2>2. /\ script_thread' = script_thread /\ waits_for' = waits_for /\ receiver' = receiver
        /\ service_running' = service_running /\ service_pid' = service_pid
        /\ active_type' = active_type /\ session' = session /\ stopping' = stopping
        /\ exiting' = exiting /\ early' = early
    BY <1>20 DEF stop_tries, Stage
  <2>3. /\ script_pid' = script_pid /\ script_thread_running' = script_thread_running
        /\ data_thread_running' = data_thread_running /\ script_running' = script_running
        /\ awaited' = awaited
    BY <1>20 DEF stop_tries
  <2>4. command' \in {"stop_forgets", "stop_kills"} /\ polls' \in 0..Polls
    BY <1>20 DEF stop_tries, Stage
  <2> QED
    BY <2>1, <2>2, <2>3, <2>4 DEF Waited, Unreaped
<1>21. CASE stop_kills
  BY <1>21 DEF stop_kills, kill, Stage
<1>22. CASE stop_waits
  BY <1>22 DEF stop_waits, Stage
<1>23. CASE stop_waited
  <2>1. Waited(awaited)
    BY <1>23, Waitpid DEF stop_waited
  <2> QED
    BY <1>23, <2>1 DEF stop_waited, Waited, Unreaped, Stage
<1>24. CASE stop_forgets
  BY <1>24 DEF stop_forgets, Stage
<1>25. CASE stop_ends
  BY <1>25 DEF stop_ends, Stage
<1>26. ASSUME NEW s \in Service, start_service(s) PROVE TypeOK'
  BY <1>26 DEF start_service, fork
<1>27. ASSUME NEW s \in Service, stop_service(s) PROVE TypeOK'
  BY <1>27 DEF stop_service
<1>28. CASE service_polls
  <2>1. Waited(service_pid[stopping])
    BY <1>28, Waitpid DEF service_polls
  <2>2. /\ script_thread' = script_thread /\ waits_for' = waits_for /\ receiver' = receiver
        /\ service_running' = service_running /\ service_pid' = service_pid
        /\ session' = session /\ stopping' = stopping /\ awaited' = awaited
        /\ exiting' = exiting /\ early' = early
    BY <1>28 DEF service_polls, service_step
  <2>3. /\ script_pid' = script_pid /\ script_thread_running' = script_thread_running
        /\ data_thread_running' = data_thread_running /\ script_running' = script_running
    BY <1>28 DEF service_polls, service_step
  <2>4. command' \in {"idle", "service_polls"} /\ polls' \in 0..Polls
    BY <1>28 DEF service_polls, service_step
  <2>5. active_type' \in {"none", active_type}
    BY <1>28 DEF service_polls, clear_type
  <2> QED
    BY <2>1, <2>2, <2>3, <2>4, <2>5 DEF Waited, Unreaped
<1>29. CASE service_killed
  BY <1>29 DEF service_killed, kill, service_step
<1>30. CASE service_waits
  <2>1. Waited(service_pid[stopping])
    BY <1>30, Waitpid DEF service_waits
  <2> QED
    BY <1>30, <2>1 DEF service_waits, Waited, Unreaped, service_step, clear_type
<1>31. CASE exit_both
  BY <1>31 DEF exit_both
<1>32. CASE exit_service("spec", "exit_spec", "exit_pr59")
  BY <1>32 DEF exit_service
<1>33. CASE exit_service("pr59", "exit_pr59", "exit_sensors")
  BY <1>33 DEF exit_service
<1>34. CASE exit_waits
  <2>1. Waited(service_pid[stopping])
    BY <1>34, Waitpid DEF exit_waits
  <2> QED
    BY <1>34, <2>1 DEF exit_waits, Waited, Unreaped, service_step
<1>35. CASE exit_ends
  BY <1>35 DEF exit_ends
<1>36. ASSUME NEW p \in Pid, ProcessEnds(p) PROVE TypeOK'
  BY <1>36 DEF ProcessEnds
<1>37. CASE done \/ UNCHANGED vars
  <2>1. /\ process' = process /\ owner' = owner /\ session' = session
        /\ script_pid' = script_pid /\ script_thread_running' = script_thread_running
        /\ data_thread_running' = data_thread_running /\ script_running' = script_running
        /\ script_thread' = script_thread /\ waits_for' = waits_for /\ receiver' = receiver
        /\ service_running' = service_running /\ service_pid' = service_pid
        /\ active_type' = active_type /\ command' = command /\ stopping' = stopping
        /\ polls' = polls /\ awaited' = awaited /\ exiting' = exiting /\ early' = early
    BY <1>37 DEF done, vars
  <2> QED
    BY <2>1
<1> QED
  BY <1>1, <1>2, <1>3, <1>4, <1>5, <1>6, <1>7, <1>8, <1>9, <1>10, <1>11, <1>12, <1>13, <1>14, <1>15, <1>16, <1>17, <1>18, <1>19, <1>20, <1>21, <1>22, <1>23, <1>24, <1>25, <1>26, <1>27, <1>28, <1>29, <1>30, <1>31, <1>32, <1>33, <1>34, <1>35, <1>36, <1>37 DEF Next, command_thread, script_management_thread,
    position_sensors_stop

\* Every step keeps PidsAreOwn.
LEMMA PidsStep ==
    ASSUME IInv, [Next]_vars
    PROVE  PidsAreOwn'
<1> USE DEF IInv, TypeOK, PidsAreOwn, Pid, Any, Service, kernel, sensors, threads, services, cli
<1>1. ASSUME NEW t \in Thread, script_forks(t) PROVE PidsAreOwn'
  BY <1>1 DEF script_forks, ThreadStep
<1>2. ASSUME NEW t \in Thread, script_forked(t) PROVE PidsAreOwn'
  BY <1>2 DEF script_forked, fork, ThreadStep
<1>3. ASSUME NEW t \in Thread, script_not_forked(t) PROVE PidsAreOwn'
  BY <1>3 DEF script_not_forked, ThreadStep
<1>4. ASSUME NEW t \in Thread, script_started(t) PROVE PidsAreOwn'
  BY <1>4 DEF script_started, ThreadStep
<1>5. ASSUME NEW t \in Thread, script_waits(t) PROVE PidsAreOwn'
  BY <1>5 DEF script_waits, ThreadStep
<1>6. ASSUME NEW t \in Thread, script_waited(t) PROVE PidsAreOwn'
  <2>1. Waited(waits_for[t])
    BY <1>6, Waitpid DEF script_waited
  <2> QED
    BY <1>6, <2>1 DEF script_waited, Waited, Unreaped, ThreadStep
<1>7. ASSUME NEW t \in Thread, script_ended(t) PROVE PidsAreOwn'
  BY <1>7 DEF script_ended, ThreadStep
<1>8. ASSUME NEW t \in Thread, script_forgotten(t) PROVE PidsAreOwn'
  BY <1>8 DEF script_forgotten, ThreadStep
<1>9. ASSUME NEW t \in Thread, script_thread_ends(t) PROVE PidsAreOwn'
  BY <1>9 DEF script_thread_ends, ThreadStep
<1>10. ASSUME NEW t \in Thread, data_thread_ends(t) PROVE PidsAreOwn'
  BY <1>10 DEF data_thread_ends
<1>11. CASE start_position_box
  BY <1>11 DEF start_position_box
<1>12. CASE data_thread_starts
  BY <1>12 DEF data_thread_starts, newest
<1>13. CASE data_thread_fails
  BY <1>13 DEF data_thread_fails
<1>14. CASE script_thread_cancelled
  BY <1>14 DEF script_thread_cancelled, newest
<1>15. CASE stop_position_box
  BY <1>15 DEF stop_position_box
<1>16. CASE stop_looks
  BY <1>16 DEF stop_looks, Stage
<1>17. CASE stop_terminates
  BY <1>17 DEF stop_terminates, Stage
<1>18. CASE stop_polls
  <2>1. Waited(script_pid)
    BY <1>18, Waitpid DEF stop_polls
  <2> QED
    BY <1>18, <2>1 DEF stop_polls, Waited, Unreaped, Stage
<1>19. CASE stop_gives_up
  BY <1>19 DEF stop_gives_up, Stage
<1>20. CASE stop_tries
  <2>1. Waited(script_pid)
    BY <1>20, Waitpid DEF stop_tries
  <2> QED
    BY <1>20, <2>1 DEF stop_tries, Waited, Unreaped, Stage
<1>21. CASE stop_kills
  BY <1>21 DEF stop_kills, kill, Stage
<1>22. CASE stop_waits
  BY <1>22 DEF stop_waits, Stage
<1>23. CASE stop_waited
  <2>1. Waited(awaited)
    BY <1>23, Waitpid DEF stop_waited
  <2> QED
    BY <1>23, <2>1 DEF stop_waited, Waited, Unreaped, Stage
<1>24. CASE stop_forgets
  BY <1>24 DEF stop_forgets, Stage
<1>25. CASE stop_ends
  BY <1>25 DEF stop_ends, Stage
<1>26. ASSUME NEW s \in Service, start_service(s) PROVE PidsAreOwn'
  BY <1>26 DEF start_service, fork
<1>27. ASSUME NEW s \in Service, stop_service(s) PROVE PidsAreOwn'
  BY <1>27 DEF stop_service
<1>28. CASE service_polls
  <2>1. Waited(service_pid[stopping])
    BY <1>28, Waitpid DEF service_polls
  <2> QED
    BY <1>28, <2>1 DEF service_polls, Waited, Unreaped, service_step, clear_type
<1>29. CASE service_killed
  BY <1>29 DEF service_killed, kill, service_step
<1>30. CASE service_waits
  <2>1. Waited(service_pid[stopping])
    BY <1>30, Waitpid DEF service_waits
  <2> QED
    BY <1>30, <2>1 DEF service_waits, Waited, Unreaped, service_step, clear_type
<1>31. CASE exit_both
  BY <1>31 DEF exit_both
<1>32. CASE exit_service("spec", "exit_spec", "exit_pr59")
  BY <1>32 DEF exit_service
<1>33. CASE exit_service("pr59", "exit_pr59", "exit_sensors")
  BY <1>33 DEF exit_service
<1>34. CASE exit_waits
  <2>1. Waited(service_pid[stopping])
    BY <1>34, Waitpid DEF exit_waits
  <2> QED
    BY <1>34, <2>1 DEF exit_waits, Waited, Unreaped, service_step
<1>35. CASE exit_ends
  BY <1>35 DEF exit_ends
<1>36. ASSUME NEW p \in Pid, ProcessEnds(p) PROVE PidsAreOwn'
  BY <1>36 DEF ProcessEnds
<1>37. CASE done \/ UNCHANGED vars
  <2>1. /\ process' = process /\ owner' = owner /\ session' = session
        /\ script_pid' = script_pid /\ script_thread_running' = script_thread_running
        /\ data_thread_running' = data_thread_running /\ script_running' = script_running
        /\ script_thread' = script_thread /\ waits_for' = waits_for /\ receiver' = receiver
        /\ service_running' = service_running /\ service_pid' = service_pid
        /\ active_type' = active_type /\ command' = command /\ stopping' = stopping
        /\ polls' = polls /\ awaited' = awaited /\ exiting' = exiting /\ early' = early
    BY <1>37 DEF done, vars
  <2> QED
    BY <2>1
<1> QED
  BY <1>1, <1>2, <1>3, <1>4, <1>5, <1>6, <1>7, <1>8, <1>9, <1>10, <1>11, <1>12, <1>13, <1>14, <1>15, <1>16, <1>17, <1>18, <1>19, <1>20, <1>21, <1>22, <1>23, <1>24, <1>25, <1>26, <1>27, <1>28, <1>29, <1>30, <1>31, <1>32, <1>33, <1>34, <1>35, <1>36, <1>37 DEF Next, command_thread, script_management_thread,
    position_sensors_stop

\* Every step keeps ServiceKeepsItsChild.
LEMMA ServiceStep ==
    ASSUME IInv, [Next]_vars
    PROVE  ServiceKeepsItsChild'
<1> USE DEF IInv, TypeOK, PidsAreOwn, ServiceKeepsItsChild, HasChild, StopInProgress, Pid, Any,
    Service, ServiceStages, kernel, sensors, threads, services, cli
<1>1. ASSUME NEW t \in Thread, script_forks(t) PROVE ServiceKeepsItsChild'
  BY <1>1 DEF script_forks, ThreadStep
<1>2. ASSUME NEW t \in Thread, script_forked(t) PROVE ServiceKeepsItsChild'
  BY <1>2 DEF script_forked, fork, ThreadStep
<1>3. ASSUME NEW t \in Thread, script_not_forked(t) PROVE ServiceKeepsItsChild'
  BY <1>3 DEF script_not_forked, ThreadStep
<1>4. ASSUME NEW t \in Thread, script_started(t) PROVE ServiceKeepsItsChild'
  BY <1>4 DEF script_started, ThreadStep
<1>5. ASSUME NEW t \in Thread, script_waits(t) PROVE ServiceKeepsItsChild'
  BY <1>5 DEF script_waits, ThreadStep
<1>6. ASSUME NEW t \in Thread, script_waited(t) PROVE ServiceKeepsItsChild'
  <2>1. Waited(waits_for[t])
    BY <1>6, Waitpid DEF script_waited
  <2> QED
    BY <1>6, <2>1 DEF script_waited, Waited, Unreaped, ThreadStep
<1>7. ASSUME NEW t \in Thread, script_ended(t) PROVE ServiceKeepsItsChild'
  BY <1>7 DEF script_ended, ThreadStep
<1>8. ASSUME NEW t \in Thread, script_forgotten(t) PROVE ServiceKeepsItsChild'
  BY <1>8 DEF script_forgotten, ThreadStep
<1>9. ASSUME NEW t \in Thread, script_thread_ends(t) PROVE ServiceKeepsItsChild'
  BY <1>9 DEF script_thread_ends, ThreadStep
<1>10. ASSUME NEW t \in Thread, data_thread_ends(t) PROVE ServiceKeepsItsChild'
  BY <1>10 DEF data_thread_ends
<1>11. CASE start_position_box
  BY <1>11 DEF start_position_box
<1>12. CASE data_thread_starts
  BY <1>12 DEF data_thread_starts, newest
<1>13. CASE data_thread_fails
  BY <1>13 DEF data_thread_fails
<1>14. CASE script_thread_cancelled
  BY <1>14 DEF script_thread_cancelled, newest
<1>15. CASE stop_position_box
  BY <1>15 DEF stop_position_box
<1>16. CASE stop_looks
  BY <1>16 DEF stop_looks, Stage
<1>17. CASE stop_terminates
  BY <1>17 DEF stop_terminates, Stage
<1>18. CASE stop_polls
  <2>1. Waited(script_pid)
    BY <1>18, Waitpid DEF stop_polls
  <2>2. /\ script_thread' = script_thread /\ waits_for' = waits_for /\ receiver' = receiver
        /\ service_running' = service_running /\ service_pid' = service_pid
        /\ active_type' = active_type /\ session' = session /\ stopping' = stopping
        /\ exiting' = exiting /\ early' = early
    BY <1>18 DEF stop_polls, Stage
  <2>3. /\ script_pid' = script_pid /\ script_thread_running' = script_thread_running
        /\ data_thread_running' = data_thread_running /\ script_running' = script_running
        /\ awaited' = awaited
    BY <1>18 DEF stop_polls
  <2>4. command' \in {"stop_polls", "stop_tries"}
    BY <1>18 DEF stop_polls, Stage
  <2> QED
    BY <2>1, <2>2, <2>3, <2>4 DEF Waited, Unreaped
<1>19. CASE stop_gives_up
  BY <1>19 DEF stop_gives_up, Stage
<1>20. CASE stop_tries
  <2>1. Waited(script_pid)
    BY <1>20, Waitpid DEF stop_tries
  <2>2. /\ script_thread' = script_thread /\ waits_for' = waits_for /\ receiver' = receiver
        /\ service_running' = service_running /\ service_pid' = service_pid
        /\ active_type' = active_type /\ session' = session /\ stopping' = stopping
        /\ exiting' = exiting /\ early' = early
    BY <1>20 DEF stop_tries, Stage
  <2>3. /\ script_pid' = script_pid /\ script_thread_running' = script_thread_running
        /\ data_thread_running' = data_thread_running /\ script_running' = script_running
        /\ awaited' = awaited
    BY <1>20 DEF stop_tries
  <2>4. command' \in {"stop_forgets", "stop_kills"} /\ polls' \in 0..Polls
    BY <1>20 DEF stop_tries, Stage
  <2> QED
    BY <2>1, <2>2, <2>3, <2>4 DEF Waited, Unreaped
<1>21. CASE stop_kills
  BY <1>21 DEF stop_kills, kill, Stage
<1>22. CASE stop_waits
  BY <1>22 DEF stop_waits, Stage
<1>23. CASE stop_waited
  <2>1. Waited(awaited)
    BY <1>23, Waitpid DEF stop_waited
  <2> QED
    BY <1>23, <2>1 DEF stop_waited, Waited, Unreaped, Stage
<1>24. CASE stop_forgets
  BY <1>24 DEF stop_forgets, Stage
<1>25. CASE stop_ends
  BY <1>25 DEF stop_ends, Stage
<1>26. ASSUME NEW s \in Service, start_service(s) PROVE ServiceKeepsItsChild'
  BY <1>26 DEF start_service, fork
<1>27. ASSUME NEW s \in Service, stop_service(s) PROVE ServiceKeepsItsChild'
  BY <1>27 DEF stop_service
<1>28. CASE service_polls
  <2>1. Waited(service_pid[stopping])
    BY <1>28, Waitpid DEF service_polls
  <2>2. /\ script_thread' = script_thread /\ waits_for' = waits_for /\ receiver' = receiver
        /\ service_running' = service_running /\ service_pid' = service_pid
        /\ session' = session /\ stopping' = stopping /\ awaited' = awaited
        /\ exiting' = exiting /\ early' = early
    BY <1>28 DEF service_polls, service_step
  <2>3. /\ script_pid' = script_pid /\ script_thread_running' = script_thread_running
        /\ data_thread_running' = data_thread_running /\ script_running' = script_running
    BY <1>28 DEF service_polls, service_step
  <2>4. command' \in {"idle", "service_polls"}
    BY <1>28 DEF service_polls, service_step
  <2>5. active_type' \in {"none", active_type}
    BY <1>28 DEF service_polls, clear_type
  <2> QED
    BY <2>1, <2>2, <2>3, <2>4, <2>5, <1>28 DEF Waited, Unreaped, service_polls
<1>29. CASE service_killed
  BY <1>29 DEF service_killed, kill, service_step
<1>30. CASE service_waits
  <2>1. Waited(service_pid[stopping])
    BY <1>30, Waitpid DEF service_waits
  <2> QED
    BY <1>30, <2>1 DEF service_waits, Waited, Unreaped, service_step, clear_type
<1>31. CASE exit_both
  BY <1>31 DEF exit_both
<1>32. CASE exit_service("spec", "exit_spec", "exit_pr59")
  BY <1>32 DEF exit_service
<1>33. CASE exit_service("pr59", "exit_pr59", "exit_sensors")
  BY <1>33 DEF exit_service
<1>34. CASE exit_waits
  <2>1. Waited(service_pid[stopping])
    BY <1>34, Waitpid DEF exit_waits
  <2> QED
    BY <1>34, <2>1 DEF exit_waits, Waited, Unreaped, service_step
<1>35. CASE exit_ends
  BY <1>35 DEF exit_ends
<1>36. ASSUME NEW p \in Pid, ProcessEnds(p) PROVE ServiceKeepsItsChild'
  BY <1>36 DEF ProcessEnds
<1>37. CASE done \/ UNCHANGED vars
  <2>1. /\ process' = process /\ owner' = owner /\ session' = session
        /\ script_pid' = script_pid /\ script_thread_running' = script_thread_running
        /\ data_thread_running' = data_thread_running /\ script_running' = script_running
        /\ script_thread' = script_thread /\ waits_for' = waits_for /\ receiver' = receiver
        /\ service_running' = service_running /\ service_pid' = service_pid
        /\ active_type' = active_type /\ command' = command /\ stopping' = stopping
        /\ polls' = polls /\ awaited' = awaited /\ exiting' = exiting /\ early' = early
    BY <1>37 DEF done, vars
  <2> QED
    BY <2>1
<1> QED
  BY <1>1, <1>2, <1>3, <1>4, <1>5, <1>6, <1>7, <1>8, <1>9, <1>10, <1>11, <1>12, <1>13, <1>14, <1>15, <1>16, <1>17, <1>18, <1>19, <1>20, <1>21, <1>22, <1>23, <1>24, <1>25, <1>26, <1>27, <1>28, <1>29, <1>30, <1>31, <1>32, <1>33, <1>34, <1>35, <1>36, <1>37 DEF Next, command_thread, script_management_thread,
    position_sensors_stop

\* Every step keeps StopInProgress.
LEMMA StopStep ==
    ASSUME IInv, [Next]_vars
    PROVE  StopInProgress'
<1> USE DEF IInv, TypeOK, PidsAreOwn, ServiceKeepsItsChild, HasChild, StopInProgress, Pid, Any,
    Service, ServiceStages, kernel, sensors, threads, services, cli
<1>1. ASSUME NEW t \in Thread, script_forks(t) PROVE StopInProgress'
  BY <1>1 DEF script_forks, ThreadStep
<1>2. ASSUME NEW t \in Thread, script_forked(t) PROVE StopInProgress'
  BY <1>2 DEF script_forked, fork, ThreadStep
<1>3. ASSUME NEW t \in Thread, script_not_forked(t) PROVE StopInProgress'
  BY <1>3 DEF script_not_forked, ThreadStep
<1>4. ASSUME NEW t \in Thread, script_started(t) PROVE StopInProgress'
  BY <1>4 DEF script_started, ThreadStep
<1>5. ASSUME NEW t \in Thread, script_waits(t) PROVE StopInProgress'
  BY <1>5 DEF script_waits, ThreadStep
<1>6. ASSUME NEW t \in Thread, script_waited(t) PROVE StopInProgress'
  <2>1. Waited(waits_for[t])
    BY <1>6, Waitpid DEF script_waited
  <2> QED
    BY <1>6, <2>1 DEF script_waited, Waited, Unreaped, ThreadStep
<1>7. ASSUME NEW t \in Thread, script_ended(t) PROVE StopInProgress'
  BY <1>7 DEF script_ended, ThreadStep
<1>8. ASSUME NEW t \in Thread, script_forgotten(t) PROVE StopInProgress'
  BY <1>8 DEF script_forgotten, ThreadStep
<1>9. ASSUME NEW t \in Thread, script_thread_ends(t) PROVE StopInProgress'
  BY <1>9 DEF script_thread_ends, ThreadStep
<1>10. ASSUME NEW t \in Thread, data_thread_ends(t) PROVE StopInProgress'
  BY <1>10 DEF data_thread_ends
<1>11. CASE start_position_box
  BY <1>11 DEF start_position_box
<1>12. CASE data_thread_starts
  BY <1>12 DEF data_thread_starts, newest
<1>13. CASE data_thread_fails
  BY <1>13 DEF data_thread_fails
<1>14. CASE script_thread_cancelled
  BY <1>14 DEF script_thread_cancelled, newest
<1>15. CASE stop_position_box
  BY <1>15 DEF stop_position_box
<1>16. CASE stop_looks
  BY <1>16 DEF stop_looks, Stage
<1>17. CASE stop_terminates
  BY <1>17 DEF stop_terminates, Stage
<1>18. CASE stop_polls
  <2>1. Waited(script_pid)
    BY <1>18, Waitpid DEF stop_polls
  <2> QED
    BY <1>18, <2>1 DEF stop_polls, Waited, Unreaped, Stage
<1>19. CASE stop_gives_up
  BY <1>19 DEF stop_gives_up, Stage
<1>20. CASE stop_tries
  <2>1. Waited(script_pid)
    BY <1>20, Waitpid DEF stop_tries
  <2> QED
    BY <1>20, <2>1 DEF stop_tries, Waited, Unreaped, Stage
<1>21. CASE stop_kills
  BY <1>21 DEF stop_kills, kill, Stage
<1>22. CASE stop_waits
  BY <1>22 DEF stop_waits, Stage
<1>23. CASE stop_waited
  <2>1. Waited(awaited)
    BY <1>23, Waitpid DEF stop_waited
  <2> QED
    BY <1>23, <2>1 DEF stop_waited, Waited, Unreaped, Stage
<1>24. CASE stop_forgets
  BY <1>24 DEF stop_forgets, Stage
<1>25. CASE stop_ends
  BY <1>25 DEF stop_ends, Stage
<1>26. ASSUME NEW s \in Service, start_service(s) PROVE StopInProgress'
  BY <1>26 DEF start_service, fork
<1>27. ASSUME NEW s \in Service, stop_service(s) PROVE StopInProgress'
  BY <1>27 DEF stop_service
<1>28. CASE service_polls
  <2>1. Waited(service_pid[stopping])
    BY <1>28, Waitpid DEF service_polls
  <2> QED
    BY <1>28, <2>1 DEF service_polls, Waited, Unreaped, service_step, clear_type
<1>29. CASE service_killed
  BY <1>29 DEF service_killed, kill, service_step
<1>30. CASE service_waits
  <2>1. Waited(service_pid[stopping])
    BY <1>30, Waitpid DEF service_waits
  <2> QED
    BY <1>30, <2>1 DEF service_waits, Waited, Unreaped, service_step, clear_type
<1>31. CASE exit_both
  BY <1>31 DEF exit_both
<1>32. CASE exit_service("spec", "exit_spec", "exit_pr59")
  BY <1>32 DEF exit_service
<1>33. CASE exit_service("pr59", "exit_pr59", "exit_sensors")
  BY <1>33 DEF exit_service
<1>34. CASE exit_waits
  <2>1. Waited(service_pid[stopping])
    BY <1>34, Waitpid DEF exit_waits
  <2> QED
    BY <1>34, <2>1 DEF exit_waits, Waited, Unreaped, service_step
<1>35. CASE exit_ends
  BY <1>35 DEF exit_ends
<1>36. ASSUME NEW p \in Pid, ProcessEnds(p) PROVE StopInProgress'
  BY <1>36 DEF ProcessEnds
<1>37. CASE done \/ UNCHANGED vars
  <2>1. /\ process' = process /\ owner' = owner /\ session' = session
        /\ script_pid' = script_pid /\ script_thread_running' = script_thread_running
        /\ data_thread_running' = data_thread_running /\ script_running' = script_running
        /\ script_thread' = script_thread /\ waits_for' = waits_for /\ receiver' = receiver
        /\ service_running' = service_running /\ service_pid' = service_pid
        /\ active_type' = active_type /\ command' = command /\ stopping' = stopping
        /\ polls' = polls /\ awaited' = awaited /\ exiting' = exiting /\ early' = early
    BY <1>37 DEF done, vars
  <2> QED
    BY <2>1
<1> QED
  BY <1>1, <1>2, <1>3, <1>4, <1>5, <1>6, <1>7, <1>8, <1>9, <1>10, <1>11, <1>12, <1>13, <1>14, <1>15, <1>16, <1>17, <1>18, <1>19, <1>20, <1>21, <1>22, <1>23, <1>24, <1>25, <1>26, <1>27, <1>28, <1>29, <1>30, <1>31, <1>32, <1>33, <1>34, <1>35, <1>36, <1>37 DEF Next, command_thread, script_management_thread,
    position_sensors_stop

\* Every step keeps TypeFollows.
LEMMA FollowsStep ==
    ASSUME IInv, [Next]_vars
    PROVE  TypeFollows'
<1> USE DEF IInv, TypeOK, PidsAreOwn, StopInProgress, HasChild, TypeFollows, Pid, Any,
    Service, ServiceStages, kernel, sensors, threads, services, cli
<1>1. ASSUME NEW t \in Thread, script_forks(t) PROVE TypeFollows'
  BY <1>1 DEF script_forks, ThreadStep
<1>2. ASSUME NEW t \in Thread, script_forked(t) PROVE TypeFollows'
  BY <1>2 DEF script_forked, fork, ThreadStep
<1>3. ASSUME NEW t \in Thread, script_not_forked(t) PROVE TypeFollows'
  BY <1>3 DEF script_not_forked, ThreadStep
<1>4. ASSUME NEW t \in Thread, script_started(t) PROVE TypeFollows'
  BY <1>4 DEF script_started, ThreadStep
<1>5. ASSUME NEW t \in Thread, script_waits(t) PROVE TypeFollows'
  BY <1>5 DEF script_waits, ThreadStep
<1>6. ASSUME NEW t \in Thread, script_waited(t) PROVE TypeFollows'
  <2>1. Waited(waits_for[t])
    BY <1>6, Waitpid DEF script_waited
  <2> QED
    BY <1>6, <2>1 DEF script_waited, Waited, Unreaped, ThreadStep
<1>7. ASSUME NEW t \in Thread, script_ended(t) PROVE TypeFollows'
  BY <1>7 DEF script_ended, ThreadStep
<1>8. ASSUME NEW t \in Thread, script_forgotten(t) PROVE TypeFollows'
  BY <1>8 DEF script_forgotten, ThreadStep
<1>9. ASSUME NEW t \in Thread, script_thread_ends(t) PROVE TypeFollows'
  BY <1>9 DEF script_thread_ends, ThreadStep
<1>10. ASSUME NEW t \in Thread, data_thread_ends(t) PROVE TypeFollows'
  BY <1>10 DEF data_thread_ends
<1>11. CASE start_position_box
  BY <1>11 DEF start_position_box
<1>12. CASE data_thread_starts
  BY <1>12 DEF data_thread_starts, newest
<1>13. CASE data_thread_fails
  BY <1>13 DEF data_thread_fails
<1>14. CASE script_thread_cancelled
  BY <1>14 DEF script_thread_cancelled, newest
<1>15. CASE stop_position_box
  BY <1>15 DEF stop_position_box
<1>16. CASE stop_looks
  BY <1>16 DEF stop_looks, Stage
<1>17. CASE stop_terminates
  BY <1>17 DEF stop_terminates, Stage
<1>18. CASE stop_polls
  <2>1. Waited(script_pid)
    BY <1>18, Waitpid DEF stop_polls
  <2> QED
    BY <1>18, <2>1 DEF stop_polls, Waited, Unreaped, Stage
<1>19. CASE stop_gives_up
  BY <1>19 DEF stop_gives_up, Stage
<1>20. CASE stop_tries
  <2>1. Waited(script_pid)
    BY <1>20, Waitpid DEF stop_tries
  <2> QED
    BY <1>20, <2>1 DEF stop_tries, Waited, Unreaped, Stage
<1>21. CASE stop_kills
  BY <1>21 DEF stop_kills, kill, Stage
<1>22. CASE stop_waits
  BY <1>22 DEF stop_waits, Stage
<1>23. CASE stop_waited
  <2>1. Waited(awaited)
    BY <1>23, Waitpid DEF stop_waited
  <2> QED
    BY <1>23, <2>1 DEF stop_waited, Waited, Unreaped, Stage
<1>24. CASE stop_forgets
  BY <1>24 DEF stop_forgets, Stage
<1>25. CASE stop_ends
  BY <1>25 DEF stop_ends, Stage
<1>26. ASSUME NEW s \in Service, start_service(s) PROVE TypeFollows'
  BY <1>26 DEF start_service, fork
<1>27. ASSUME NEW s \in Service, stop_service(s) PROVE TypeFollows'
  BY <1>27 DEF stop_service
<1>28. CASE service_polls
  <2>1. Waited(service_pid[stopping])
    BY <1>28, Waitpid DEF service_polls
  <2>2. /\ script_thread' = script_thread /\ waits_for' = waits_for /\ receiver' = receiver
        /\ service_running' = service_running /\ service_pid' = service_pid
        /\ session' = session /\ stopping' = stopping /\ awaited' = awaited
        /\ exiting' = exiting /\ early' = early
    BY <1>28 DEF service_polls, service_step
  <2>3. /\ script_pid' = script_pid /\ script_thread_running' = script_thread_running
        /\ data_thread_running' = data_thread_running /\ script_running' = script_running
    BY <1>28 DEF service_polls, service_step
  <2>4. command' \in {"idle", "service_polls"}
    BY <1>28 DEF service_polls, service_step
  <2>5. active_type' \in {"none", active_type}
    BY <1>28 DEF service_polls, clear_type
  <2>6. ASSUME active_type' # "none"
        PROVE  \/ command' = "service_polls"
               \/ stopping # "spec"
               \/ noChild(service_pid[stopping])
    BY <1>28, <2>6 DEF service_polls, service_step, clear_type
  <2>7. HasChild(stopping) /\ noChild(service_pid[stopping])
           => process[service_pid[stopping]] = "stolen"
    BY <1>28 DEF service_polls, noChild
  <2> QED
    BY <1>28, <2>1, <2>2, <2>4, <2>5, <2>6, <2>7 DEF service_polls, Waited
<1>29. CASE service_killed
  BY <1>29 DEF service_killed, kill, service_step
<1>30. CASE service_waits
  <2>1. Waited(service_pid[stopping])
    BY <1>30, Waitpid DEF service_waits
  <2> QED
    BY <1>30, <2>1 DEF service_waits, Waited, Unreaped, service_step, clear_type
<1>31. CASE exit_both
  BY <1>31 DEF exit_both
<1>32. CASE exit_service("spec", "exit_spec", "exit_pr59")
  BY <1>32 DEF exit_service
<1>33. CASE exit_service("pr59", "exit_pr59", "exit_sensors")
  BY <1>33 DEF exit_service
<1>34. CASE exit_waits
  <2>1. Waited(service_pid[stopping])
    BY <1>34, Waitpid DEF exit_waits
  <2> QED
    BY <1>34, <2>1 DEF exit_waits, Waited, Unreaped, service_step
<1>35. CASE exit_ends
  BY <1>35 DEF exit_ends
<1>36. ASSUME NEW p \in Pid, ProcessEnds(p) PROVE TypeFollows'
  BY <1>36 DEF ProcessEnds
<1>37. CASE done \/ UNCHANGED vars
  <2>1. /\ process' = process /\ owner' = owner /\ session' = session
        /\ script_pid' = script_pid /\ script_thread_running' = script_thread_running
        /\ data_thread_running' = data_thread_running /\ script_running' = script_running
        /\ script_thread' = script_thread /\ waits_for' = waits_for /\ receiver' = receiver
        /\ service_running' = service_running /\ service_pid' = service_pid
        /\ active_type' = active_type /\ command' = command /\ stopping' = stopping
        /\ polls' = polls /\ awaited' = awaited /\ exiting' = exiting /\ early' = early
    BY <1>37 DEF done, vars
  <2> QED
    BY <2>1
<1> QED
  BY <1>1, <1>2, <1>3, <1>4, <1>5, <1>6, <1>7, <1>8, <1>9, <1>10, <1>11, <1>12, <1>13, <1>14, <1>15, <1>16, <1>17, <1>18, <1>19, <1>20, <1>21, <1>22, <1>23, <1>24, <1>25, <1>26, <1>27, <1>28, <1>29, <1>30, <1>31, <1>32, <1>33, <1>34, <1>35, <1>36, <1>37 DEF Next, command_thread, script_management_thread,
    position_sensors_stop

LEMMA ChildrenInit == Init => IInv
<1> SUFFICES ASSUME Init PROVE IInv
  OBVIOUS
<1>1. TypeOK
  <2>1. /\ process \in [Pid -> {"unused", "running", "zombie", "reaped", "stolen"}]
        /\ owner \in [Pid -> {"nobody", "script"} \cup Service]
        /\ script_thread \in [Thread -> {"none", "loop", "fork", "forked", "started",
                                        "waiting", "waited", "ended", "done"}]
    BY DEF Init
  <2>2. waits_for \in [Thread -> Pid \cup {Any}] /\ service_pid \in [Service -> Pid \cup {Any}]
    BY DEF Init
  <2>3. command \in Stages /\ stopping \in Service
    BY DEF Init, Stages, Service
  <2>4. polls \in 0..Polls
    BY SagChildrenAssumption DEF Init
  <2> QED
    BY <2>1, <2>2, <2>3, <2>4 DEF Init, TypeOK
<1>2. PidsAreOwn
  BY DEF Init, PidsAreOwn
<1>3. ServiceKeepsItsChild /\ StopInProgress /\ TypeFollows
  BY DEF Init, ServiceKeepsItsChild, StopInProgress, TypeFollows, ServiceStages
<1> QED
  BY <1>1, <1>2, <1>3 DEF IInv

LEMMA ChildrenStep == IInv /\ [Next]_vars => IInv'
BY TypeStep, PidsStep, ServiceStep, StopStep, FollowsStep DEF IInv

\* The inductive invariant holds in every state.
THEOREM InvariantHolds == Spec => []IInv
BY ChildrenInit, ChildrenStep, PTL DEF Spec

\* Stop commands signal and wait for children that are still theirs, in every
\* interleaving with the threads of the position sensors.
THEOREM ServiceIsKept == Spec => []ServiceKeepsItsChild
<1>1. IInv => ServiceKeepsItsChild
  BY DEF IInv
<1> QED
  BY <1>1, InvariantHolds, PTL

\* The server offers a spectrum only for a script that counts as running, or
\* that was taken by a waitpid(-1).
THEOREM TypeIsRight == Spec => []TypeFollowsScript
<1>1. IInv => TypeFollowsScript
  BY DEF IInv, StopInProgress, TypeFollows, TypeFollowsScript, ServiceStages
<1> QED
  BY <1>1, InvariantHolds, PTL

-----------------------------------------------------------------------------
(* The stop knows the script: ScriptInv is inductive on top of IInv. *)

\* The flags of the sensors are set by a start and cleared by what ends them.
FlagInv ==
    /\ data_thread_running => script_thread_running
    /\ command = "starting" => script_thread_running
    /\ command \in StopStages \cup {"cancelling"} => ~script_thread_running

\* Where a script thread is tells which scripts run.
Knows(t) ==
    /\ script_thread[t] \in {"loop", "fork", "waited", "ended"} => scripts = {}
    /\ script_thread[t] \in {"forked", "started", "waiting"} =>
          script_pid # Any /\ scripts \subseteq {script_pid}
    /\ script_thread[t] = "waiting" => waits_for[t] = script_pid

\* When no start found an earlier one alive there is one script thread at most, and
\* while the sensors run there is one that knows the scripts.
ScriptInv ==
    /\ FlagInv
    /\ ~early => \A t, u \in script_threads : t = u
    /\ ~early /\ script_thread_running => \E t \in script_threads : Knows(t)

LEMMA ScriptInit == Init => ScriptInv
<1> SUFFICES ASSUME Init PROVE ScriptInv
  OBVIOUS
<1>1. FlagInv
  BY DEF Init, FlagInv, StopStages
<1>2. script_threads = {} /\ ~script_thread_running
  BY DEF Init, script_threads
<1>3. QED
  BY <1>1, <1>2 DEF ScriptInv

\* Only script_forked adds a script.
LEMMA WaitAddsNone ==
    ASSUME IInv, NEW target, (\E p \in Pid : reaps(p, target)) \/ UNCHANGED kernel
    PROVE  scripts' \subseteq scripts
<1>1. CASE UNCHANGED kernel
  BY <1>1 DEF kernel, scripts, running
<1>2. ASSUME NEW p \in Pid, reaps(p, target) PROVE scripts' \subseteq scripts
  BY <1>2 DEF reaps, scripts, running, IInv, TypeOK
<1>3. QED
  BY <1>1, <1>2

LEMMA KillAddsNone ==
    ASSUME NEW p, kill(p), UNCHANGED owner
    PROVE  scripts' \subseteq scripts
BY DEF kill, scripts, running

LEMMA ForkAddsNone ==
    ASSUME IInv, NEW p \in Pid, NEW s \in Service, fork(p, s)
    PROVE  scripts' \subseteq scripts
BY DEF fork, scripts, running, IInv, TypeOK, Service

LEMMA EndAddsNone ==
    ASSUME IInv, NEW p \in Pid, ProcessEnds(p)
    PROVE  scripts' \subseteq scripts
BY DEF ProcessEnds, scripts, running, IInv, TypeOK

\* A step that leaves the script threads alone.
LEMMA ThreadsRest ==
    ASSUME ScriptInv, FlagInv', UNCHANGED <<script_thread, waits_for, early>>,
           script_thread_running' =>
               script_thread_running /\ UNCHANGED script_pid /\ scripts' \subseteq scripts
    PROVE  ScriptInv'
<1>1. script_threads' = script_threads
  BY DEF script_threads
<1>2. ASSUME ~early', script_thread_running' PROVE \E t \in script_threads' : Knows(t)'
  <2>1. PICK t \in script_threads : Knows(t)
    BY <1>2 DEF ScriptInv
  <2>2. Knows(t)'
    BY <1>2, <2>1 DEF Knows
  <2>3. QED
    BY <1>1, <2>1, <2>2
<1>3. QED
  BY <1>1, <1>2 DEF ScriptInv

\* A step of a script thread: it is the one that knows the scripts.
LEMMA ThreadMoves ==
    ASSUME IInv, ScriptInv, NEW t \in Thread,
           script_thread[t] \notin {"none", "done"}, NEW to,
           script_thread' = [script_thread EXCEPT ![t] = to],
           UNCHANGED <<script_thread_running, data_thread_running, command, early>>,
           to = "done" => ~script_thread_running, to # "none",
           Knows(t) /\ script_thread_running => Knows(t)'
    PROVE  ScriptInv'
<1>1. t \in script_threads
  BY DEF script_threads
<1>2. script_thread \in [Thread -> {"none", "loop", "fork", "forked", "started", "waiting",
                                     "waited", "ended", "done"}]
  BY DEF IInv, TypeOK
<1>3. FlagInv'
  BY DEF ScriptInv, FlagInv
<1>4. script_threads' \subseteq script_threads
  BY <1>2 DEF script_threads
<1>5. ASSUME ~early', script_thread_running' PROVE \E u \in script_threads' : Knows(u)'
  <2>1. Knows(t)
    BY <1>1, <1>5 DEF ScriptInv
  <2>2. t \in script_threads'
    BY <1>2, <1>5 DEF script_threads
  <2>3. QED
    BY <1>5, <2>1, <2>2
<1>6. QED
  BY <1>3, <1>4, <1>5 DEF ScriptInv

\* script_management_thread: the thread learns the process id of its fork, and what
\* waitpid returned.
LEMMA ScriptThreadStep ==
    ASSUME IInv, ScriptInv, NEW t \in Thread, script_management_thread(t)
    PROVE  ScriptInv'
<1> USE DEF ThreadStep, cli, sensors
<1>0. script_thread \in [Thread -> {"none", "loop", "fork", "forked", "started", "waiting",
                                    "waited", "ended", "done"}]
      /\ waits_for \in [Thread -> Pid \cup {Any}]
  BY DEF IInv, TypeOK
<1>1. CASE script_forks(t) \/ script_ended(t) \/ script_forgotten(t) \/ script_not_forked(t)
  <2>1. PICK to \in {"fork", "ended", "loop"} :
           /\ script_thread' = [script_thread EXCEPT ![t] = to]
    BY <1>1 DEF script_forks, script_ended, script_forgotten, script_not_forked
  <2>2. /\ script_thread[t] \in {"loop", "waited", "ended", "fork"}
        /\ scripts' = scripts
        /\ UNCHANGED <<script_thread_running, data_thread_running, command, early>>
    BY <1>1 DEF script_forks, script_ended, script_forgotten, script_not_forked,
       scripts, running, kernel
  <2>3. Knows(t) => Knows(t)'
    BY <1>0, <2>1, <2>2 DEF Knows
  <2>4. QED
    BY <2>1, <2>2, <2>3, ThreadMoves
<1>2. CASE script_forked(t)
  <2>1. PICK p \in Pid : fork(p, "script") /\ script_pid' = p
    BY <1>2 DEF script_forked
  <2>2. /\ script_thread' = [script_thread EXCEPT ![t] = "forked"] /\ script_thread[t] = "fork"
        /\ UNCHANGED <<script_thread_running, data_thread_running, command, early>>
    BY <1>2 DEF script_forked
  <2>3. scripts' \subseteq scripts \cup {p} /\ script_pid' # Any
    BY <2>1 DEF fork, scripts, running, IInv, TypeOK, Pid, Any
  <2>4. Knows(t) => Knows(t)'
    BY <1>0, <2>1, <2>2, <2>3 DEF Knows
  <2>5. QED
    BY <2>2, <2>4, ThreadMoves
<1>3. CASE script_started(t) \/ script_waits(t)
  <2>1. PICK to \in {"started", "waiting"} :
           /\ script_thread' = [script_thread EXCEPT ![t] = to]
           /\ to = "waiting" => waits_for' = [waits_for EXCEPT ![t] = script_pid]
    BY <1>3 DEF script_started, script_waits
  <2>2. /\ script_thread[t] \in {"forked", "started"} /\ scripts' = scripts
        /\ UNCHANGED <<script_thread_running, data_thread_running, command, early, script_pid>>
    BY <1>3 DEF script_started, script_waits, scripts, running, kernel
  <2>3. Knows(t) => Knows(t)'
    BY <1>0, <2>1, <2>2 DEF Knows
  <2>4. QED
    BY <2>1, <2>2, <2>3, ThreadMoves
<1>4. CASE script_waited(t)
  <2>1. /\ script_thread' = [script_thread EXCEPT ![t] = "waited"]
        /\ script_thread[t] = "waiting"
        /\ UNCHANGED <<script_thread_running, data_thread_running, command, early>>
    BY <1>4 DEF script_waited
  <2>2. \/ \E p \in Pid : reaps(p, waits_for[t])
        \/ noChild(waits_for[t]) /\ UNCHANGED kernel
    BY <1>4 DEF script_waited
  <2>3. ASSUME waits_for[t] # Any, scripts \subseteq {waits_for[t]} PROVE scripts' = {}
    <3>1. CASE \E p \in Pid : reaps(p, waits_for[t])
      <4>1. PICK p \in Pid : reaps(p, waits_for[t])
        BY <3>1
      <4>2. p = waits_for[t] /\ p \notin scripts'
        BY <2>3, <4>1 DEF reaps, scripts, running, IInv, TypeOK
      <4>3. QED
        BY <2>2, <2>3, <4>2, WaitAddsNone
    <3>2. CASE noChild(waits_for[t]) /\ UNCHANGED kernel
      <4>1. waits_for[t] \notin scripts
        BY <2>3, <3>2 DEF noChild, scripts, running
      <4>2. QED
        BY <2>3, <3>2, <4>1 DEF kernel, scripts, running
    <3>3. QED
      BY <2>2, <3>1, <3>2
  <2>4. Knows(t) => Knows(t)'
    BY <1>0, <2>1, <2>3 DEF Knows
  <2>5. QED
    BY <2>1, <2>4, ThreadMoves
<1>5. CASE script_thread_ends(t)
  BY <1>5, ThreadMoves DEF script_thread_ends
<1>6. QED
  BY <1>1, <1>2, <1>3, <1>4, <1>5 DEF script_management_thread

\* start_position_box and what may follow it.
LEMMA StartStep ==
    ASSUME IInv, ScriptInv,
           start_position_box \/ data_thread_starts \/ data_thread_fails
              \/ script_thread_cancelled
    PROVE  ScriptInv'
<1> USE DEF threads, kernel, scripts, running
<1>0. script_thread \in [Thread -> {"none", "loop", "fork", "forked", "started", "waiting",
                                    "waited", "ended", "done"}]
  BY DEF IInv, TypeOK
<1>1. CASE start_position_box
  <2>1. PICK t \in Thread : /\ script_thread[t] = "none"
                            /\ script_thread' = [script_thread EXCEPT ![t] = "loop"]
    BY <1>1 DEF start_position_box
  <2>2. /\ FlagInv' /\ script_threads' = script_threads \cup {t}
        /\ scripts' = scripts
    BY <1>0, <1>1, <2>1 DEF start_position_box, FlagInv, ScriptInv, StopStages, script_threads
  <2>3. ~early' => script_threads = {} /\ scripts = {}
    BY <1>1, Zenon DEF start_position_box
  <2>4. ~early' => Knows(t)'
    BY <1>0, <2>1, <2>2, <2>3 DEF Knows
  <2>5. QED
    BY <2>2, <2>3, <2>4 DEF ScriptInv
<1>2. CASE data_thread_starts
  <2>1. FlagInv'
    BY <1>2 DEF data_thread_starts, ScriptInv, FlagInv, StopStages
  <2>2. QED
    BY <1>2, <2>1, ThreadsRest DEF data_thread_starts
<1>3. CASE data_thread_fails
  <2>1. FlagInv'
    BY <1>3 DEF data_thread_fails, FlagInv
  <2>2. QED
    BY <1>3, <2>1, ThreadsRest DEF data_thread_fails
<1>4. CASE script_thread_cancelled
  <2>1. PICK t \in Thread : script_thread' = [script_thread EXCEPT ![t] = "done"]
    BY <1>4 DEF script_thread_cancelled
  <2>2. ~script_thread_running /\ ~script_thread_running' /\ UNCHANGED early
        /\ UNCHANGED data_thread_running
    BY <1>4 DEF script_thread_cancelled, sensors, ScriptInv, FlagInv
  <2>3. FlagInv' /\ script_threads' \subseteq script_threads
    BY <1>0, <1>4, <2>1, <2>2
       DEF script_thread_cancelled, ScriptInv, FlagInv, StopStages, script_threads
  <2>4. QED
    BY <2>2, <2>3 DEF ScriptInv
<1>5. QED
  BY <1>1, <1>2, <1>3, <1>4

\* position_sensors_stop, in which the flags are cleared.
LEMMA SensorsStopStep ==
    ASSUME IInv, ScriptInv, stop_position_box \/ position_sensors_stop
    PROVE  ScriptInv'
<1> USE DEF threads, sensors
<1>1. CASE stop_position_box
  <2>1. FlagInv'
    BY <1>1 DEF stop_position_box, FlagInv
  <2>2. QED
    BY <1>1, <2>1, ThreadsRest DEF stop_position_box
<1>2. CASE position_sensors_stop
  <2>1. /\ command \in StopStages /\ command' \in StopStages \cup {"idle", "exited"}
        /\ UNCHANGED <<script_thread_running, data_thread_running, script_thread, waits_for, early>>
    <3>1. CASE stop_looks \/ stop_terminates \/ stop_polls \/ stop_gives_up \/ stop_tries
      BY <3>1 DEF stop_looks, stop_terminates, stop_polls, stop_gives_up, stop_tries, Stage,
         StopStages
    <3>2. CASE stop_kills \/ stop_waits \/ stop_waited \/ stop_forgets \/ stop_ends
      BY <3>2 DEF stop_kills, stop_waits, stop_waited, stop_forgets, stop_ends, Stage,
         StopStages
    <3>3. QED
      BY <1>2, <3>1, <3>2 DEF position_sensors_stop
  <2>2. ~script_thread_running' /\ FlagInv'
    BY <2>1 DEF ScriptInv, FlagInv, StopStages
  <2>3. QED
    BY <2>1, <2>2, ThreadsRest
<1>3. QED
  BY <1>1, <1>2

\* The commands of the services and exit.  They fork and wait for other children.
LEMMA OtherCommandStep ==
    ASSUME IInv, ScriptInv,
           \/ \E s \in Service : start_service(s) \/ stop_service(s)
           \/ service_polls \/ service_killed \/ service_waits
           \/ exit_both \/ exit_service("spec", "exit_spec", "exit_pr59")
           \/ exit_service("pr59", "exit_pr59", "exit_sensors") \/ exit_waits \/ exit_ends
    PROVE  ScriptInv'
<1> DEFINE Rests == UNCHANGED <<script_pid, script_thread_running, data_thread_running,
                                script_thread, waits_for, early>>
           Goes == command' = command \/ command' \notin StopStages \cup {"cancelling", "starting"}
<1> USE DEF threads, sensors, cli, kernel
<1>1. CASE \E s \in Service : start_service(s)
  <2>1. PICK s \in Service, p \in Pid : fork(p, s) /\ start_service(s)
    BY <1>1 DEF start_service
  <2>2. Rests /\ Goes
    BY <2>1 DEF start_service
  <2>3. scripts' \subseteq scripts
    BY <2>1, ForkAddsNone
  <2>4. FlagInv'
    BY <2>2 DEF ScriptInv, FlagInv
  <2>5. QED
    BY <2>2, <2>3, <2>4, ThreadsRest
<1>2. CASE service_polls \/ service_waits \/ exit_waits
  <2>1. Rests /\ Goes
    BY <1>2 DEF service_polls, service_waits, exit_waits, service_step, StopStages
  <2>2. (\E p \in Pid : reaps(p, service_pid[stopping])) \/ UNCHANGED kernel
    BY <1>2 DEF service_polls, service_waits, exit_waits
  <2>3. scripts' \subseteq scripts
    BY <2>2, WaitAddsNone
  <2>4. FlagInv'
    BY <2>1 DEF ScriptInv, FlagInv
  <2>5. QED
    BY <2>1, <2>3, <2>4, ThreadsRest
<1>3. CASE service_killed
  <2>1. Rests /\ Goes
    BY <1>3 DEF service_killed, service_step, StopStages
  <2>2. scripts' \subseteq scripts
    BY <1>3, KillAddsNone DEF service_killed
  <2>3. FlagInv'
    BY <2>1 DEF ScriptInv, FlagInv
  <2>4. QED
    BY <2>1, <2>2, <2>3, ThreadsRest
<1>4. CASE \/ \E s \in Service : stop_service(s)
           \/ exit_both \/ exit_service("spec", "exit_spec", "exit_pr59")
           \/ exit_service("pr59", "exit_pr59", "exit_sensors") \/ exit_ends
  <2>1. Rests /\ Goes /\ UNCHANGED kernel
    BY <1>4 DEF stop_service, exit_both, exit_service, exit_ends, StopStages
  <2>2. scripts' \subseteq scripts
    BY <2>1 DEF scripts, running
  <2>3. FlagInv'
    BY <2>1 DEF ScriptInv, FlagInv
  <2>4. QED
    BY <2>1, <2>2, <2>3, ThreadsRest
<1>5. QED
  BY <1>1, <1>2, <1>3, <1>4

LEMMA ScriptStep == IInv /\ ScriptInv /\ [Next]_vars => ScriptInv'
<1> SUFFICES ASSUME IInv, ScriptInv, [Next]_vars PROVE ScriptInv'
  OBVIOUS
<1>1. ASSUME NEW p \in Pid, ProcessEnds(p) PROVE ScriptInv'
  <2>1. scripts' \subseteq scripts
    BY <1>1, EndAddsNone
  <2>2. UNCHANGED <<sensors, threads, cli, early>>
    BY <1>1 DEF ProcessEnds
  <2>3. FlagInv'
    BY <2>2 DEF sensors, cli, ScriptInv, FlagInv
  <2>4. QED
    BY <2>1, <2>2, <2>3, ThreadsRest DEF sensors, threads, cli
<1>2. CASE done \/ UNCHANGED vars \/ \E t \in Thread : data_thread_ends(t)
  <2>1. UNCHANGED <<kernel, sensors, threads, cli, early>>
    BY <1>2 DEF done, vars, data_thread_ends
  <2>2. FlagInv'
    BY <2>1 DEF sensors, cli, ScriptInv, FlagInv
  <2>3. scripts' \subseteq scripts
    BY <2>1 DEF kernel, scripts, running
  <2>4. QED
    BY <2>1, <2>2, <2>3, ThreadsRest DEF sensors, threads
<1>3. QED
  BY <1>1, <1>2, ScriptThreadStep, StartStep, SensorsStopStep, OtherCommandStep
     DEF Next, command_thread

\* What the stop is about to signal, kill and wait for is the only script.
LEMMA ScriptIsKnown == IInv /\ ScriptInv => StopKnowsTheScript
<1> SUFFICES ASSUME IInv, ScriptInv, position_sensors_is_running, ~early, NEW p \in scripts
             PROVE  p = script_pid
  BY DEF StopKnowsTheScript
<1>1. script_thread_running
  BY DEF position_sensors_is_running, ScriptInv, FlagInv
<1>2. PICK t \in script_threads : Knows(t)
  BY <1>1 DEF ScriptInv
<1>3. QED
  BY <1>2 DEF Knows, script_threads, IInv, TypeOK

-----------------------------------------------------------------------------
(* The cooler: CoolerInv is inductive, and GainsKept follows from it. Each of its  *)
(* parts has one lemma; the types of Pr59TypeOK are split by the kind of variable.   *)

\* Where the controller holds an update that it works on.
Working == {"update", "truncate", "save", "clear"}

\* The controller is there only while it counts as running or a stop waits for it.
TecIsCounted == ~pr59_running /\ cmd # "stop" => tec = "none"

\* The device has the gains of the controller from the end of its ramp on, as they were
\* sent and if they were heard, and the file has them except while it is written.
GainsFollow ==
    /\ tec \in (Loop \cup {"stabilizing"}) =>
           \A t \in Terms \ unheard : gains[t] \in {config[t], to_three_decimals(config[t])}
    /\ tec \in (Loop \cup {"ramp", "stabilizing"}) \ {"truncate", "save"} => torn \/ saved = config
    /\ tec = "save" => saved = NoGain

\* What is pending for a gain is its last command, and so is what was fetched, unless a
\* later command is pending.
UpdatesAreLast ==
    /\ \A t \in Terms : pid_update[t] # Unset => pid_update[t] = wanted[t]
    /\ tec \in Working => \A t \in Terms \ overtaken :
           fetched[t] # Unset => \/ fetched[t] = wanted[t]
                                 \/ pending /\ pid_update[t] = wanted[t]

\* How far an update has got.
UpdateReaches ==
    /\ tec \in {"truncate", "save", "clear"} =>
           \A t \in Terms : fetched[t] # Unset => config[t] = fetched[t]
    /\ tec = "truncate" => torn \/ \A t \in Terms : fetched[t] = Unset => config[t] = saved[t]

OffAtTheEnd ==
    ~killed => /\ tec \in {"none", "forked"} => ~pr59_shown
               /\ tec \in {"none", "forked", "cleanup"} => ~regulating \/ "off" \in unheard

CoolerInv == /\ Pr59TypeOK /\ TecIsCounted /\ GainsFollow /\ UpdatesAreLast /\ UpdateReaches
             /\ OffAtTheEnd /\ UpdatesKept

\* Pr59TypeOK in four parts.
FanTypes == fan_override \in FanModes /\ applied \in FanModes /\ fan_mode \in FanModes
ModeTypes ==
    /\ pr59_session \in Pr59Sessions /\ tec \in Phases
    /\ cmd \in {"idle", "stop"} \cup Terms /\ tel \in {"idle", "asks"}
    /\ starts \in Nat /\ fans \in Nat
GainTypes ==
    /\ gains \in [Terms -> DeviceGain] /\ config \in [Terms -> Gain] /\ saved \in [Terms -> Gain]
    /\ fetched \in [Terms -> Gain] /\ pid_update \in [Terms -> Gain]
    /\ wanted \in [Terms -> Gain] /\ sets \in 0..MaxSets /\ overtaken \subseteq Terms
    /\ losses \in Nat /\ unheard \subseteq Terms \cup {"fan", "on", "off"}
LockTypes ==
    /\ pr59_owner \in Waiters \cup {"free", "dead"}
    /\ sleeper \in [Waiters -> {"no", "asleep", "woken"}] /\ forgotten \subseteq Waiters
FlagTypes ==
    /\ keep_running \in BOOLEAN /\ regulating \in BOOLEAN /\ pending \in BOOLEAN
    /\ pr59_shown \in BOOLEAN /\ fresh \in BOOLEAN /\ contended \in BOOLEAN
    /\ pr59_running \in BOOLEAN /\ torn \in BOOLEAN /\ killed \in BOOLEAN

LEMMA Pr59Types == Pr59TypeOK <=> FanTypes /\ ModeTypes /\ GainTypes /\ LockTypes /\ FlagTypes
BY DEF Pr59TypeOK, FanTypes, ModeTypes, GainTypes, LockTypes, FlagTypes

LEMMA CoolerInit == Pr59Init => CoolerInv
<1> SUFFICES ASSUME Pr59Init PROVE CoolerInv
  OBVIOUS
<1> USE Pr59Assumption DEF Pr59Init, NoGain, Unset, AUTO
<1>1. ModeTypes /\ FanTypes
  BY DEF ModeTypes, Phases, FanTypes, FanModes
<1>2. GainTypes
  BY DEF GainTypes, Gain, DeviceGain
<1>3. LockTypes /\ FlagTypes
  BY DEF LockTypes, FlagTypes, Waiters
<1>4. TecIsCounted /\ GainsFollow /\ UpdateReaches /\ OffAtTheEnd
  BY DEF TecIsCounted, GainsFollow, UpdateReaches, OffAtTheEnd, Loop
<1>5. UpdatesAreLast /\ UpdatesKept
  BY DEF UpdatesAreLast, UpdatesKept, Working
<1> QED
  BY <1>1, <1>2, <1>3, <1>4, <1>5, Pr59Types DEF CoolerInv

\* What a loss on the line changes: things that were to be sent are unheard or not.
LEMMA Sent ==
    ASSUME NEW things, things \subseteq Terms \cup {"fan", "on", "off"},
           losses \in Nat, unheard \subseteq Terms \cup {"fan", "on", "off"}, send_command(things)
    PROVE  /\ losses' \in Nat /\ unheard' \subseteq Terms \cup {"fan", "on", "off"}
           /\ \A x : x \notin things => (x \in unheard' <=> x \in unheard)
BY DEF send_command

\* A gain with three decimals is one of the device.
LEMMA Decimals == \A g \in Gain : to_three_decimals(g) \in DeviceGain /\ g \in DeviceGain
BY Pr59Assumption DEF to_three_decimals, Gain, DeviceGain

\* The steps of the controller that use the serial line.
LEMMA WhoSends ==
    ASSUME Pr59TypeOK
    PROVE  /\ tec_starts => send_command(Terms \cup {"fan", "on", "off"})
           /\ tec_pid_mode => send_command(Terms \cup {"on", "off"})
           /\ update_pid_parameters =>
                  send_command({t \in Terms : fetched[t] # Unset} \cup {"on", "off"})
           /\ tec_stable => send_command({"fan"})
           /\ apply_fan_override => send_command({"fan"}) \/ UNCHANGED serial_vars
           /\ cleanup => send_command({"off"})
BY DEF tec_starts, tec_pid_mode, update_pid_parameters, tec_stable, apply_fan_override, cleanup

LEMMA FanTypesStep ==
    ASSUME Pr59TypeOK, [Pr59Next]_pr59_vars
    PROVE  FanTypes'
<1> USE Pr59Assumption, Pr59Types
    DEF FanTypes, tec_vars, shm_vars, main_vars, past_vars, file_history, serial_vars,
        FanModes, AUTO, set_fan_mode
<1>1. CASE UNCHANGED pr59_vars \/ (\E p \in Waiters : pthread_mutex_lock(p))
          \/ DataAges \/ telemetry_asks \/ pr59_get_data
  BY <1>1 DEF pr59_vars, pr59_moves, mutex_vars, pthread_mutex_lock, DataAges,
    telemetry_asks, pr59_get_data
<1>2. CASE tec_starts
  BY <1>2 DEF tec_starts, load_runtime_config, load_bcp_config, clear_all_registers,
    sets_gains, set_fan_mode, regulates_again
<1>21. CASE tec_cannot_start \/ tec_loops
  BY <1>21 DEF tec_cannot_start, tec_loops
<1>22. CASE tec_pid_mode
  BY <1>22 DEF tec_pid_mode, sets_gains, regulates_again
<1>23. CASE tec_stable
  BY <1>23 DEF tec_stable, set_fan_mode
<1>3. CASE pr59_get_pid_update
  BY <1>3 DEF pr59_get_pid_update
<1>24. CASE update_pid_parameters
  BY <1>24 DEF update_pid_parameters, sets_gains, regulates_again
<1>25. CASE save_runtime_config \/ pr59_clear_pid_update
  BY <1>25 DEF save_runtime_config, pr59_clear_pid_update
<1>20. CASE apply_fan_override \/ last_override_state
  BY <1>20 DEF apply_fan_override, last_override_state, set_fan_mode
<1>4. CASE pr59_update_fan_status \/ pr59_update_data \/ cleanup \/ pr59_interface_cleanup
  BY <1>4 DEF pr59_update_fan_status, pr59_update_data, cleanup,
    pr59_interface_cleanup
<1>5. CASE start_pr59 \/ stop_pr59 \/ stop_returns \/ \E mode \in {0, 1} : pr59_fan(mode)
  BY <1>5 DEF start_pr59, stop_pr59, stop_returns, pr59_fan,
    signalled
<1>6. CASE set_pr59 \/ pr59_set_pid_update
  BY <1>6 DEF set_pr59, pr59_set_pid_update
<1> QED
  BY <1>1, <1>2, <1>21, <1>22, <1>23, <1>3, <1>24,
     <1>25, <1>20, <1>4, <1>5, <1>6 DEF Pr59Next, Pr59Step, tec_steps,
     process_pid_updates

LEMMA ModeTypesStep ==
    ASSUME Pr59TypeOK, [Pr59Next]_pr59_vars
    PROVE  ModeTypes'
<1> USE Pr59Assumption, Pr59Types
    DEF ModeTypes, tec_vars, shm_vars, main_vars, past_vars, file_history, serial_vars,
        Phases, Loop
<1>0. pr59_session' = pr59_session
  BY DEF Pr59Next, pr59_vars
<1>1. CASE UNCHANGED pr59_vars \/ (\E p \in Waiters : pthread_mutex_lock(p))
          \/ DataAges \/ telemetry_asks \/ pr59_get_data
  BY <1>0, <1>1 DEF pr59_vars, pr59_moves, mutex_vars, pthread_mutex_lock, DataAges,
    telemetry_asks, pr59_get_data
<1>2. CASE tec_starts \/ tec_cannot_start \/ tec_pid_mode \/ tec_stable \/ tec_loops
  BY <1>0, <1>2 DEF tec_starts, load_runtime_config, load_bcp_config,
    clear_all_registers, sets_gains, set_fan_mode, regulates_again, tec_cannot_start, tec_pid_mode, tec_stable, tec_loops
<1>3. CASE process_pid_updates
  BY <1>0, <1>3 DEF process_pid_updates, pr59_get_pid_update, update_pid_parameters,
    sets_gains, regulates_again, save_runtime_config, pr59_clear_pid_update
<1>20. CASE apply_fan_override \/ last_override_state
  BY <1>0, <1>20 DEF apply_fan_override, last_override_state, set_fan_mode
<1>4. CASE pr59_update_fan_status \/ pr59_update_data \/ cleanup \/ pr59_interface_cleanup
  BY <1>0, <1>4 DEF pr59_update_fan_status, pr59_update_data, cleanup,
    pr59_interface_cleanup
<1>5. CASE start_pr59 \/ stop_pr59 \/ stop_returns \/ \E mode \in {0, 1} : pr59_fan(mode)
  BY <1>0, <1>5 DEF start_pr59, stop_pr59, stop_returns, pr59_fan,
    signalled
<1>6. CASE set_pr59 \/ pr59_set_pid_update
  BY <1>0, <1>6 DEF set_pr59, pr59_set_pid_update
<1> QED
  BY <1>1, <1>2, <1>3, <1>20, <1>4, <1>5, <1>6 DEF Pr59Next, Pr59Step, tec_steps

LEMMA GainTypesStep ==
    ASSUME Pr59TypeOK, [Pr59Next]_pr59_vars
    PROVE  GainTypes'
<1> USE Pr59Assumption, Pr59Types
    DEF GainTypes, tec_vars, shm_vars, main_vars, past_vars, file_history, serial_vars,
        Gain, NoGain, Unset
<1>0. unheard \subseteq Terms \cup {"fan", "on", "off"} /\ losses \in Nat
  OBVIOUS
<1>1. CASE UNCHANGED pr59_vars \/ (\E p \in Waiters : pthread_mutex_lock(p))
          \/ DataAges \/ telemetry_asks \/ pr59_get_data
  BY <1>1 DEF pr59_vars, pr59_moves, mutex_vars, pthread_mutex_lock, DataAges,
    telemetry_asks, pr59_get_data
<1>2. CASE tec_starts
  BY <1>2, <1>0, WhoSends, Sent, Decimals DEF tec_starts, load_runtime_config, load_bcp_config, clear_all_registers,
    sets_gains, set_fan_mode, regulates_again
<1>21. CASE tec_cannot_start \/ tec_loops
  BY <1>21 DEF tec_cannot_start, tec_loops
<1>22. CASE tec_pid_mode
  BY <1>22, <1>0, WhoSends, Sent, Decimals DEF tec_pid_mode, sets_gains, regulates_again
<1>23. CASE tec_stable
  BY <1>23, <1>0, WhoSends, Sent DEF tec_stable, set_fan_mode
<1>3. CASE pr59_get_pid_update
  BY <1>3 DEF pr59_get_pid_update
<1>24. CASE update_pid_parameters
  BY <1>24, <1>0, WhoSends, Sent, Decimals DEF update_pid_parameters, sets_gains, regulates_again
<1>25. CASE save_runtime_config \/ pr59_clear_pid_update
  BY <1>25 DEF save_runtime_config, pr59_clear_pid_update
<1>20. CASE apply_fan_override \/ last_override_state
  BY <1>20, <1>0, WhoSends, Sent DEF apply_fan_override, last_override_state, set_fan_mode
<1>4. CASE pr59_update_fan_status \/ pr59_update_data \/ cleanup \/ pr59_interface_cleanup
  BY <1>4, <1>0, WhoSends, Sent DEF pr59_update_fan_status, pr59_update_data, cleanup,
    pr59_interface_cleanup
<1>5. CASE start_pr59 \/ stop_pr59 \/ stop_returns \/ \E mode \in {0, 1} : pr59_fan(mode)
  BY <1>5 DEF start_pr59, stop_pr59, stop_returns, pr59_fan,
    signalled
<1>6. CASE set_pr59 \/ pr59_set_pid_update
  <2>1. pr59_session.sets \in 0..MaxSets
    BY DEF ModeTypes
  <2> QED
    BY <1>6, <2>1 DEF set_pr59, pr59_set_pid_update
<1> QED
  BY <1>1, <1>2, <1>21, <1>22, <1>23, <1>3, <1>24,
     <1>25, <1>20, <1>4, <1>5, <1>6 DEF Pr59Next, Pr59Step, tec_steps,
     process_pid_updates

LEMMA LockTypesStep ==
    ASSUME Pr59TypeOK, [Pr59Next]_pr59_vars
    PROVE  LockTypes'
<1> USE Pr59Assumption, Pr59Types
    DEF LockTypes, tec_vars, shm_vars, main_vars, past_vars, file_history, serial_vars,
        Waiters, unlocks, wakes, Asleep, mutex_vars
<1>1. CASE UNCHANGED pr59_vars \/ (\E p \in Waiters : pthread_mutex_lock(p))
          \/ DataAges \/ telemetry_asks \/ pr59_get_data
  BY <1>1 DEF pr59_vars, pr59_moves, mutex_vars, pthread_mutex_lock, DataAges,
    telemetry_asks, pr59_get_data
<1>2. CASE tec_starts
  BY <1>2 DEF tec_starts, load_runtime_config, load_bcp_config, clear_all_registers,
    sets_gains, set_fan_mode, regulates_again
<1>21. CASE tec_cannot_start \/ tec_loops
  BY <1>21 DEF tec_cannot_start, tec_loops
<1>22. CASE tec_pid_mode
  BY <1>22 DEF tec_pid_mode, sets_gains, regulates_again
<1>23. CASE tec_stable
  BY <1>23 DEF tec_stable, set_fan_mode
<1>3. CASE pr59_get_pid_update
  BY <1>3 DEF pr59_get_pid_update
<1>24. CASE update_pid_parameters
  BY <1>24 DEF update_pid_parameters, sets_gains, regulates_again
<1>25. CASE save_runtime_config \/ pr59_clear_pid_update
  BY <1>25 DEF save_runtime_config, pr59_clear_pid_update
<1>20. CASE apply_fan_override \/ last_override_state
  BY <1>20 DEF apply_fan_override, last_override_state, set_fan_mode
<1>4. CASE pr59_update_fan_status \/ pr59_update_data \/ cleanup \/ pr59_interface_cleanup
  BY <1>4 DEF pr59_update_fan_status, pr59_update_data, cleanup,
    pr59_interface_cleanup
<1>5. CASE start_pr59 \/ stop_pr59 \/ stop_returns \/ \E mode \in {0, 1} : pr59_fan(mode)
  BY <1>5 DEF start_pr59, stop_pr59, stop_returns, pr59_fan,
    signalled
<1>6. CASE set_pr59 \/ pr59_set_pid_update
  BY <1>6 DEF set_pr59, pr59_set_pid_update
<1> QED
  BY <1>1, <1>2, <1>21, <1>22, <1>23, <1>3, <1>24,
     <1>25, <1>20, <1>4, <1>5, <1>6 DEF Pr59Next, Pr59Step, tec_steps,
     process_pid_updates

LEMMA FlagTypesStep ==
    ASSUME Pr59TypeOK, [Pr59Next]_pr59_vars
    PROVE  FlagTypes'
<1> USE Pr59Assumption, Pr59Types
    DEF FlagTypes, tec_vars, shm_vars, main_vars, past_vars, file_history, serial_vars,
        mutex_vars, unlocks
<1>1. CASE UNCHANGED pr59_vars
  BY <1>1 DEF pr59_vars, pr59_moves
<1>7. CASE \E p \in Waiters : pthread_mutex_lock(p)
  <2>1. PICK p \in Waiters : pthread_mutex_lock(p)
    BY <1>7
  <2>2. contended' \in BOOLEAN
    BY <2>1 DEF pthread_mutex_lock
  <2> QED
    BY <2>1, <2>2 DEF pthread_mutex_lock
<1>8. CASE DataAges
  BY <1>8 DEF DataAges
<1>9. CASE telemetry_asks
  BY <1>9 DEF telemetry_asks
<1>10. CASE pr59_get_data
  BY <1>10 DEF pr59_get_data
<1>21. ASSUME regulates_again PROVE regulating' \in BOOLEAN
  BY <1>21, Zenon DEF regulates_again
<1>2. CASE tec_starts
  BY <1>2, <1>21 DEF tec_starts
<1>22. CASE tec_cannot_start \/ tec_loops
  BY <1>22 DEF tec_cannot_start, tec_loops
<1>23. CASE tec_pid_mode
  BY <1>23, <1>21 DEF tec_pid_mode
<1>24. CASE tec_stable
  BY <1>24 DEF tec_stable
<1>3. CASE pr59_get_pid_update
  BY <1>3 DEF pr59_get_pid_update
<1>25. CASE update_pid_parameters
  BY <1>25, <1>21 DEF update_pid_parameters
<1>26. CASE save_runtime_config
  BY <1>26 DEF save_runtime_config
<1>27. CASE pr59_clear_pid_update
  BY <1>27 DEF pr59_clear_pid_update
<1>20. CASE apply_fan_override \/ last_override_state
  BY <1>20 DEF apply_fan_override, last_override_state, set_fan_mode
<1>4. CASE pr59_update_fan_status \/ pr59_update_data \/ pr59_interface_cleanup
  BY <1>4 DEF pr59_update_fan_status, pr59_update_data, pr59_interface_cleanup
<1>28. CASE cleanup
  <2>1. regulating' \in BOOLEAN
    BY <1>28, Zenon DEF cleanup
  <2> QED BY <1>28, <2>1 DEF cleanup
<1>5. CASE start_pr59 \/ stop_returns
  BY <1>5 DEF start_pr59, stop_returns
<1>29. CASE stop_pr59
  BY <1>29 DEF stop_pr59
<1>30. CASE \E mode \in {0, 1} : pr59_fan(mode)
  BY <1>30 DEF pr59_fan
<1>6. CASE set_pr59 \/ pr59_set_pid_update
  BY <1>6 DEF set_pr59, pr59_set_pid_update
<1> QED
  BY <1>1, <1>2, <1>3, <1>20, <1>4, <1>5, <1>6, <1>7, <1>8, <1>9, <1>10, <1>22, <1>23, <1>24,
     <1>25, <1>26, <1>27, <1>28, <1>29, <1>30
  DEF Pr59Next, Pr59Step, tec_steps, process_pid_updates

\* A controller is there only while it is counted.
LEMMA CountedStep ==
    ASSUME CoolerInv, [Pr59Next]_pr59_vars
    PROVE  TecIsCounted'
<1> USE Pr59Assumption
    DEF CoolerInv, Pr59TypeOK, Gain, Phases, Loop, NoGain, Unset, tec_vars, shm_vars, main_vars,
        past_vars, file_history, serial_vars, TecIsCounted
<1>1. CASE UNCHANGED pr59_vars \/ (\E p \in Waiters : pthread_mutex_lock(p))
          \/ DataAges \/ telemetry_asks \/ pr59_get_data
  BY <1>1 DEF pr59_vars, pr59_moves, mutex_vars, pthread_mutex_lock, DataAges,
    telemetry_asks, pr59_get_data
<1>2. CASE tec_starts \/ tec_cannot_start \/ tec_pid_mode \/ tec_stable \/ tec_loops
  BY <1>2 DEF tec_starts, load_runtime_config, load_bcp_config,
    clear_all_registers, sets_gains, set_fan_mode, regulates_again, tec_cannot_start, tec_pid_mode, tec_stable, tec_loops
<1>3. CASE process_pid_updates
  BY <1>3 DEF process_pid_updates, pr59_get_pid_update, update_pid_parameters,
    sets_gains, regulates_again, save_runtime_config, pr59_clear_pid_update
<1>20. CASE apply_fan_override \/ last_override_state
  BY <1>20 DEF apply_fan_override, last_override_state, set_fan_mode
<1>4. CASE pr59_update_fan_status \/ pr59_update_data \/ cleanup \/ pr59_interface_cleanup
  BY <1>4 DEF pr59_update_fan_status, pr59_update_data, cleanup,
    pr59_interface_cleanup
<1>5. CASE start_pr59 \/ stop_pr59 \/ stop_returns \/ \E mode \in {0, 1} : pr59_fan(mode)
  BY <1>5 DEF start_pr59, stop_pr59, stop_returns, pr59_fan,
    signalled
<1>6. CASE set_pr59 \/ pr59_set_pid_update
  BY <1>6 DEF set_pr59, pr59_set_pid_update
<1> QED
  BY <1>1, <1>2, <1>3, <1>20, <1>4, <1>5, <1>6 DEF Pr59Next, Pr59Step, tec_steps

\* The gains of the device and of the file follow those of the controller.
LEMMA FollowStep ==
    ASSUME CoolerInv, [Pr59Next]_pr59_vars
    PROVE  GainsFollow'
<1> USE Pr59Assumption
    DEF CoolerInv, Pr59TypeOK, Gain, Phases, Loop, NoGain, Unset, tec_vars, shm_vars, main_vars,
        past_vars, file_history, serial_vars, GainsFollow, TecIsCounted
<1>0. unheard \subseteq Terms \cup {"fan", "on", "off"} /\ losses \in Nat
  OBVIOUS
<1>1. CASE UNCHANGED pr59_vars \/ (\E p \in Waiters : pthread_mutex_lock(p))
          \/ DataAges \/ telemetry_asks \/ pr59_get_data
  BY <1>1 DEF pr59_vars, pr59_moves, mutex_vars, pthread_mutex_lock, DataAges,
    telemetry_asks, pr59_get_data
<1>2. CASE tec_starts
  BY <1>2, <1>0, WhoSends, Sent DEF tec_starts, load_runtime_config, load_bcp_config, clear_all_registers,
    sets_gains, set_fan_mode, regulates_again
<1>21. CASE tec_cannot_start \/ tec_loops
  BY <1>21 DEF tec_cannot_start, tec_loops
<1>22. CASE tec_pid_mode
  BY <1>22, <1>0, WhoSends, Sent DEF tec_pid_mode, sets_gains, regulates_again
<1>23. CASE tec_stable
  BY <1>23, <1>0, WhoSends, Sent DEF tec_stable, set_fan_mode
<1>3. CASE pr59_get_pid_update
  BY <1>3 DEF pr59_get_pid_update
<1>24. CASE update_pid_parameters
  BY <1>24, <1>0, WhoSends, Sent DEF update_pid_parameters, sets_gains, regulates_again
<1>25. CASE save_runtime_config \/ pr59_clear_pid_update
  BY <1>25 DEF save_runtime_config, pr59_clear_pid_update
<1>20. CASE apply_fan_override \/ last_override_state
  BY <1>20, <1>0, WhoSends, Sent DEF apply_fan_override, last_override_state, set_fan_mode
<1>4. CASE pr59_update_fan_status \/ pr59_update_data \/ cleanup \/ pr59_interface_cleanup
  BY <1>4, <1>0, WhoSends, Sent DEF pr59_update_fan_status, pr59_update_data, cleanup,
    pr59_interface_cleanup
<1>5. CASE start_pr59 \/ stop_pr59 \/ stop_returns \/ \E mode \in {0, 1} : pr59_fan(mode)
  BY <1>5 DEF start_pr59, stop_pr59, stop_returns, pr59_fan,
    signalled
<1>6. CASE set_pr59 \/ pr59_set_pid_update
  BY <1>6 DEF set_pr59, pr59_set_pid_update
<1> QED
  BY <1>1, <1>2, <1>21, <1>22, <1>23, <1>3, <1>24,
     <1>25, <1>20, <1>4, <1>5, <1>6 DEF Pr59Next, Pr59Step, tec_steps,
     process_pid_updates

\* What is pending or fetched is the last command, or a later one is pending.
LEMMA LastStep ==
    ASSUME CoolerInv, [Pr59Next]_pr59_vars
    PROVE  UpdatesAreLast'
<1> USE Pr59Assumption
    DEF CoolerInv, Pr59TypeOK, Gain, Phases, Loop, NoGain, Unset, tec_vars, shm_vars, main_vars,
        past_vars, file_history, serial_vars, UpdatesAreLast, Working, TecIsCounted
<1>1. CASE UNCHANGED pr59_vars \/ (\E p \in Waiters : pthread_mutex_lock(p))
          \/ DataAges \/ telemetry_asks \/ pr59_get_data
  BY <1>1 DEF pr59_vars, pr59_moves, mutex_vars, pthread_mutex_lock, DataAges,
    telemetry_asks, pr59_get_data
<1>2. CASE tec_starts
  BY <1>2 DEF tec_starts, load_runtime_config, load_bcp_config, clear_all_registers,
    sets_gains, set_fan_mode, regulates_again
<1>21. CASE tec_cannot_start \/ tec_loops
  BY <1>21 DEF tec_cannot_start, tec_loops
<1>22. CASE tec_pid_mode
  BY <1>22 DEF tec_pid_mode, sets_gains, regulates_again
<1>23. CASE tec_stable
  BY <1>23 DEF tec_stable, set_fan_mode
<1>3. CASE pr59_get_pid_update
  BY <1>3 DEF pr59_get_pid_update
<1>24. CASE update_pid_parameters
  BY <1>24 DEF update_pid_parameters, sets_gains, regulates_again
<1>25. CASE save_runtime_config \/ pr59_clear_pid_update
  BY <1>25 DEF save_runtime_config, pr59_clear_pid_update
<1>20. CASE apply_fan_override \/ last_override_state
  BY <1>20 DEF apply_fan_override, last_override_state, set_fan_mode
<1>4. CASE pr59_update_fan_status \/ pr59_update_data \/ cleanup \/ pr59_interface_cleanup
  BY <1>4 DEF pr59_update_fan_status, pr59_update_data, cleanup,
    pr59_interface_cleanup
<1>5. CASE start_pr59 \/ stop_pr59 \/ stop_returns \/ \E mode \in {0, 1} : pr59_fan(mode)
  BY <1>5 DEF start_pr59, stop_pr59, stop_returns, pr59_fan,
    signalled
<1>6. CASE set_pr59 \/ pr59_set_pid_update
  BY <1>6 DEF set_pr59, pr59_set_pid_update
<1> QED
  BY <1>1, <1>2, <1>21, <1>22, <1>23, <1>3, <1>24,
     <1>25, <1>20, <1>4, <1>5, <1>6 DEF Pr59Next, Pr59Step, tec_steps,
     process_pid_updates

\* An update gets to the controller and to the file.
LEMMA ReachStep ==
    ASSUME CoolerInv, [Pr59Next]_pr59_vars
    PROVE  UpdateReaches'
<1> USE Pr59Assumption
    DEF CoolerInv, Pr59TypeOK, Gain, Phases, Loop, NoGain, Unset, tec_vars, shm_vars, main_vars,
        past_vars, file_history, serial_vars, UpdateReaches, GainsFollow, TecIsCounted
<1>1. CASE UNCHANGED pr59_vars \/ (\E p \in Waiters : pthread_mutex_lock(p))
          \/ DataAges \/ telemetry_asks \/ pr59_get_data
  BY <1>1 DEF pr59_vars, pr59_moves, mutex_vars, pthread_mutex_lock, DataAges,
    telemetry_asks, pr59_get_data
<1>2. CASE tec_starts
  BY <1>2 DEF tec_starts, load_runtime_config, load_bcp_config, clear_all_registers,
    sets_gains, set_fan_mode, regulates_again
<1>21. CASE tec_cannot_start \/ tec_loops
  BY <1>21 DEF tec_cannot_start, tec_loops
<1>22. CASE tec_pid_mode
  BY <1>22 DEF tec_pid_mode, sets_gains, regulates_again
<1>23. CASE tec_stable
  BY <1>23 DEF tec_stable, set_fan_mode
<1>3. CASE pr59_get_pid_update
  BY <1>3 DEF pr59_get_pid_update
<1>24. CASE update_pid_parameters
  BY <1>24 DEF update_pid_parameters, sets_gains, regulates_again
<1>25. CASE save_runtime_config \/ pr59_clear_pid_update
  BY <1>25 DEF save_runtime_config, pr59_clear_pid_update
<1>20. CASE apply_fan_override \/ last_override_state
  BY <1>20 DEF apply_fan_override, last_override_state, set_fan_mode
<1>4. CASE pr59_update_fan_status \/ pr59_update_data \/ cleanup \/ pr59_interface_cleanup
  BY <1>4 DEF pr59_update_fan_status, pr59_update_data, cleanup,
    pr59_interface_cleanup
<1>5. CASE start_pr59 \/ stop_pr59 \/ stop_returns \/ \E mode \in {0, 1} : pr59_fan(mode)
  BY <1>5 DEF start_pr59, stop_pr59, stop_returns, pr59_fan,
    signalled
<1>6. CASE set_pr59 \/ pr59_set_pid_update
  BY <1>6 DEF set_pr59, pr59_set_pid_update
<1> QED
  BY <1>1, <1>2, <1>21, <1>22, <1>23, <1>3, <1>24,
     <1>25, <1>20, <1>4, <1>5, <1>6 DEF Pr59Next, Pr59Step, tec_steps,
     process_pid_updates

\* A controller that was not killed switches the device off.
LEMMA OffStep ==
    ASSUME CoolerInv, [Pr59Next]_pr59_vars
    PROVE  OffAtTheEnd'
<1> USE Pr59Assumption
    DEF CoolerInv, Pr59TypeOK, Gain, Phases, Loop, NoGain, Unset, tec_vars, shm_vars, main_vars,
        past_vars, file_history, serial_vars, OffAtTheEnd, TecIsCounted
<1>0. unheard \subseteq Terms \cup {"fan", "on", "off"} /\ losses \in Nat
  OBVIOUS
<1>1. CASE UNCHANGED pr59_vars \/ (\E p \in Waiters : pthread_mutex_lock(p))
          \/ DataAges \/ telemetry_asks \/ pr59_get_data
  BY <1>1 DEF pr59_vars, pr59_moves, mutex_vars, pthread_mutex_lock, DataAges,
    telemetry_asks, pr59_get_data
<1>2. CASE tec_starts
  BY <1>2, <1>0, WhoSends, Sent DEF tec_starts, load_runtime_config, load_bcp_config, clear_all_registers,
    sets_gains, set_fan_mode, regulates_again
<1>21. CASE tec_cannot_start \/ tec_loops
  BY <1>21 DEF tec_cannot_start, tec_loops
<1>22. CASE tec_pid_mode
  BY <1>22, <1>0, WhoSends, Sent DEF tec_pid_mode, sets_gains, regulates_again
<1>23. CASE tec_stable
  BY <1>23, <1>0, WhoSends, Sent DEF tec_stable, set_fan_mode
<1>3. CASE pr59_get_pid_update
  BY <1>3 DEF pr59_get_pid_update
<1>24. CASE update_pid_parameters
  BY <1>24, <1>0, WhoSends, Sent DEF update_pid_parameters, sets_gains, regulates_again
<1>25. CASE save_runtime_config \/ pr59_clear_pid_update
  BY <1>25 DEF save_runtime_config, pr59_clear_pid_update
<1>20. CASE apply_fan_override \/ last_override_state
  BY <1>20, <1>0, WhoSends, Sent DEF apply_fan_override, last_override_state, set_fan_mode
<1>4. CASE pr59_update_fan_status \/ pr59_update_data \/ cleanup \/ pr59_interface_cleanup
  BY <1>4, <1>0, WhoSends, Sent DEF pr59_update_fan_status, pr59_update_data, cleanup,
    pr59_interface_cleanup
<1>5. CASE start_pr59 \/ stop_pr59 \/ stop_returns \/ \E mode \in {0, 1} : pr59_fan(mode)
  BY <1>5 DEF start_pr59, stop_pr59, stop_returns, pr59_fan,
    signalled
<1>6. CASE set_pr59 \/ pr59_set_pid_update
  BY <1>6 DEF set_pr59, pr59_set_pid_update
<1> QED
  BY <1>1, <1>2, <1>21, <1>22, <1>23, <1>3, <1>24,
     <1>25, <1>20, <1>4, <1>5, <1>6 DEF Pr59Next, Pr59Step, tec_steps,
     process_pid_updates

\* A gain that was commanded is pending or saved.
LEMMA KeptStep ==
    ASSUME CoolerInv, [Pr59Next]_pr59_vars
    PROVE  UpdatesKept'
<1> USE Pr59Assumption
    DEF CoolerInv, Pr59TypeOK, Gain, Phases, Loop, NoGain, Unset, tec_vars, shm_vars, main_vars,
        past_vars, file_history, serial_vars, UpdatesKept, UpdatesAreLast, UpdateReaches, GainsFollow,
        Working, TecIsCounted
<1>1. CASE UNCHANGED pr59_vars \/ (\E p \in Waiters : pthread_mutex_lock(p))
          \/ DataAges \/ telemetry_asks \/ pr59_get_data
  BY <1>1 DEF pr59_vars, pr59_moves, mutex_vars, pthread_mutex_lock, DataAges,
    telemetry_asks, pr59_get_data
<1>2. CASE tec_starts \/ tec_cannot_start \/ tec_pid_mode \/ tec_stable \/ tec_loops
  BY <1>2 DEF tec_starts, load_runtime_config, load_bcp_config,
    clear_all_registers, sets_gains, set_fan_mode, regulates_again, tec_cannot_start, tec_pid_mode, tec_stable, tec_loops
<1>3. CASE pr59_get_pid_update \/ update_pid_parameters
  BY <1>3 DEF pr59_get_pid_update, update_pid_parameters
<1>7. CASE save_runtime_config
  BY <1>7 DEF save_runtime_config
<1>8. CASE pr59_clear_pid_update
  <2>1. torn' = torn /\ wanted' = wanted /\ saved' = saved /\ tec = "clear"
        /\ overtaken' = overtaken \cup {t \in Terms : pid_update[t] \notin {Unset, fetched[t]}}
    BY <1>8 DEF pr59_clear_pid_update
  <2>2. SUFFICES ASSUME ~torn, NEW t \in Terms, t \notin overtaken', wanted[t] # Unset
                 PROVE  saved[t] = wanted[t]
    BY <2>1 DEF UpdatesKept
  <2>3. CASE pending /\ pid_update[t] = wanted[t]
    BY <2>1, <2>2, <2>3
  <2> QED
    BY <2>1, <2>2, <2>3
<1>20. CASE apply_fan_override \/ last_override_state
  BY <1>20 DEF apply_fan_override, last_override_state, set_fan_mode
<1>4. CASE pr59_update_fan_status \/ pr59_update_data \/ cleanup \/ pr59_interface_cleanup
  BY <1>4 DEF pr59_update_fan_status, pr59_update_data, cleanup,
    pr59_interface_cleanup
<1>5. CASE start_pr59
  BY <1>5 DEF start_pr59
<1>9. CASE stop_pr59 \/ \E mode \in {0, 1} : pr59_fan(mode)
  BY <1>9 DEF stop_pr59, pr59_fan, signalled
<1>10. CASE stop_returns
  BY <1>10 DEF stop_returns
<1>6. CASE set_pr59 \/ pr59_set_pid_update
  BY <1>6 DEF set_pr59, pr59_set_pid_update
<1> QED
  BY <1>1, <1>2, <1>3, <1>20, <1>4, <1>5, <1>6, <1>7, <1>8, <1>9, <1>10
  DEF Pr59Next, Pr59Step, tec_steps, process_pid_updates

LEMMA CoolerStep == CoolerInv /\ [Pr59Next]_pr59_vars => CoolerInv'
<1> SUFFICES ASSUME CoolerInv, [Pr59Next]_pr59_vars PROVE CoolerInv'
  OBVIOUS
<1>1. Pr59TypeOK
  BY DEF CoolerInv
<1>2. FanTypes' /\ ModeTypes' /\ GainTypes' /\ LockTypes' /\ FlagTypes'
  BY <1>1, FanTypesStep, ModeTypesStep, GainTypesStep, LockTypesStep, FlagTypesStep
<1>3. Pr59TypeOK'
  BY <1>2 DEF Pr59TypeOK, FanTypes, ModeTypes, GainTypes, LockTypes, FlagTypes
<1>4. TecIsCounted' /\ GainsFollow' /\ UpdatesAreLast'
  BY CountedStep, FollowStep, LastStep
<1>5. UpdateReaches' /\ OffAtTheEnd' /\ UpdatesKept'
  BY ReachStep, OffStep, KeptStep
<1> QED
  BY <1>3, <1>4, <1>5 DEF CoolerInv

LEMMA CoolerGains == CoolerInv => GainsAgree /\ UpdatesKept /\ LeavesItOff
BY DEF CoolerInv, GainsAgree, LeavesItOff, GainsFollow, OffAtTheEnd, Loop

-----------------------------------------------------------------------------
(* The position sensors: SensorInv is inductive. LossIsCounted rests on the order of *)
(* the packets under way (AllInOrder) and on the sums of remainders below.           *)

\* SensorTypeOK in parts.
TxTypes ==
    /\ tx \in [Tx -> {"none", "init", "accept", "stream", "closing", "ended"}]
    /\ packet_sequence \in [Tx -> Nat] /\ tx_client \in [Tx -> DataThread \cup {NoOne}]
TxFlagTypes == tx_keep_running \in [Tx -> BOOLEAN]
LinkTypes ==
    /\ sockfd \in [DataThread -> {"none", "queued", "served", "finished", "closed"}]
    /\ peer \in [DataThread -> Tx \cup {NoOne}] /\ link_errors \in Nat
    /\ data_thread_at \in [DataThread -> {"none", "connect", "recv", "process", "ended"}]
WireTypes == wire \in [DataThread -> Seq(Packet)] /\ rbuf \in [DataThread -> Seq(Packet)]
FileTypes ==
    /\ sensor_session \in SensorSessions /\ sensor_cmd \in {"idle", "stop_kills"}
    /\ data_started \in 0..DataStarts /\ data_files \subseteq Sensors /\ unwritten \subseteq Sensors
CountTypes ==
    /\ packets_received \in Nat /\ last_sequence \in 0..SequenceMod-1 /\ packets_lost \in Nat
    /\ latest \in Packet \cup {<<>>} /\ true_last \in Nat /\ missed \in Nat
DataFlagTypes ==
    /\ data_running \in BOOLEAN /\ connected \in BOOLEAN
    /\ two_programs \in BOOLEAN /\ two_threads \in BOOLEAN /\ rotation_broke \in BOOLEAN
    /\ closed_under \in BOOLEAN /\ reopened \in BOOLEAN

LEMMA SensorTypes ==
    SensorTypeOK <=> /\ TxTypes /\ TxFlagTypes /\ LinkTypes /\ WireTypes /\ FileTypes
                     /\ CountTypes /\ DataFlagTypes
BY DEF SensorTypeOK, TxTypes, TxFlagTypes, LinkTypes, WireTypes, FileTypes, CountTypes, DataFlagTypes

\* A thread that processes has a packet; one that does not receive has none.
HasPackets ==
    \A t \in DataThread :
        /\ data_thread_at[t] = "process" => rbuf[t] # <<>>
        /\ data_thread_at[t] \in {"none", "connect", "recv", "ended"} => rbuf[t] = <<>>
        /\ data_thread_at[t] \in {"none", "ended"}
               => wire[t] = <<>> /\ sockfd[t] \in {"none", "closed"}
        /\ t > data_started => data_thread_at[t] = "none"

\* The files of a thread that receives are open, but for the excuses of FilesTakeAll.
FilesAreOpen ==
    Receiving # {} /\ ~rotation_broke /\ ~closed_under => data_files = Sensors

\* One program sends, one thread receives.
AreAlone ==
    /\ ~two_programs => \A i \in Tx : tx[i] # "none" => i = 1
    /\ ~two_threads => \A t, u \in Receiving : t = u

\* The packets of thread t are in the order of their numbers, later than what was
\* processed and earlier than what will be sent.
Precede(p, q) == p.index < q.index
IsAhead(p) == p.index < packet_sequence[1] /\ (packets_received > 0 => true_last < p.index)
InOrder(t) ==
    /\ \A k \in 1..Len(rbuf[t]) : IsAhead(rbuf[t][k])
    /\ \A k \in 1..Len(wire[t]) : IsAhead(wire[t][k])
    /\ \A j, k \in 1..Len(rbuf[t]) : j < k => Precede(rbuf[t][j], rbuf[t][k])
    /\ \A j, k \in 1..Len(wire[t]) : j < k => Precede(wire[t][j], wire[t][k])
    /\ \A j \in 1..Len(rbuf[t]), k \in 1..Len(wire[t]) : Precede(rbuf[t][j], wire[t][k])
AllInOrder ==
    ~two_programs /\ ~two_threads =>
        /\ packets_received > 0 => true_last < packet_sequence[1]
        /\ \A t \in DataThread : InOrder(t)

\* The last sequence number is that of the last packet.
LastIsTrue == packets_received > 0 => last_sequence = true_last % SequenceMod

SensorInv ==
    /\ SensorTypeOK /\ HasPackets /\ FilesAreOpen /\ AreAlone /\ AllInOrder /\ LastIsTrue
    /\ LossIsCounted /\ FilesTakeAll /\ FilesAreShut

\* What a thread takes from the buffer it is in.
LEMMA Processed ==
    ASSUME SensorInv, NEW t \in DataThread, data_processes(t)
    PROVE  /\ data_thread_at[t] = "process" /\ rbuf[t] \in Seq(Packet) /\ rbuf[t] # <<>>
           /\ Head(rbuf[t]) \in Packet /\ Tail(rbuf[t]) \in Seq(Packet)
           /\ Len(rbuf[t]) \in Nat \ {0} /\ Head(rbuf[t]) = rbuf[t][1]
<1>1. data_thread_at[t] = "process"
  BY DEF data_processes
<1>2. rbuf[t] \in Seq(Packet) /\ rbuf[t] # <<>>
  BY <1>1, SensorTypes DEF SensorInv, WireTypes, HasPackets
<1> QED
  BY <1>1, <1>2, HeadTailProperties, LenProperties

\* Sums and remainders, of which the SMT solver has no theory for every modulus.
LEMMA ModDef ==
    ASSUME NEW M \in Nat \ {0}, NEW a \in Nat
    PROVE  \E q \in Nat : \E r \in 0..M-1 : a = q * M + r /\ r = a % M
<1>1. a = (a \div M) * M + (a % M)
  OBVIOUS
<1>2. a \div M \in Nat /\ a % M \in 0..M-1
  OBVIOUS
<1> QED BY <1>1, <1>2
LEMMA ModUnique == ASSUME NEW M \in Nat \ {0}, NEW q \in Nat, NEW r \in 0..M-1 PROVE (q * M + r) % M = r
OBVIOUS
LEMMA Distributes == ASSUME NEW M \in Nat, NEW p \in Nat, NEW q \in Nat PROVE (p + q) * M = p * M + q * M
OBVIOUS
LEMMA ProductIsNat == ASSUME NEW M \in Nat, NEW p \in Nat PROVE p * M \in Nat
OBVIOUS
\* Equal up to multiples of M.
Congruent(M, a, b) == a % M = b % M

LEMMA ModAdd == 
    \A M \in Nat \ {0} : \A a, b, c \in Nat : Congruent(M, a, b) => Congruent(M, a + c, b + c)
<1> SUFFICES ASSUME NEW M \in Nat \ {0}, NEW a \in Nat, NEW b \in Nat, NEW c \in Nat,
                    a % M = b % M
             PROVE  (a + c) % M = (b + c) % M
  BY DEF Congruent
<1>1. PICK q \in Nat, r \in 0..M-1 : a = q * M + r /\ r = a % M
  BY ModDef
<1>2. PICK p \in Nat, t \in 0..M-1 : b = p * M + t /\ t = b % M
  BY ModDef
<1>0. r + c \in Nat /\ t = r
  BY <1>1, <1>2
<1>3. PICK s \in Nat, u \in 0..M-1 : r + c = s * M + u
  BY <1>0, ModDef
<1>7. /\ q * M \in Nat /\ p * M \in Nat /\ s * M \in Nat
      /\ (q + s) * M = q * M + s * M /\ (p + s) * M = p * M + s * M
  BY ProductIsNat, Distributes
<1>4. a + c = (q + s) * M + u
  BY <1>1, <1>0, <1>3, <1>7
<1>5. b + c = (p + s) * M + u
  BY <1>2, <1>0, <1>3, <1>7
<1>6. ((q + s) * M + u) % M = u /\ ((p + s) * M + u) % M = u
  BY ModUnique
<1> QED BY <1>4, <1>5, <1>6
LEMMA ModShift == ASSUME NEW M \in Nat \ {0}, NEW a \in Nat PROVE (a + M) % M = a % M
<1>1. PICK q \in Nat, r \in 0..M-1 : a = q * M + r /\ r = a % M
  BY ModDef
<1>3. a + M = (q + 1) * M + r
  BY <1>1
<1>4. ((q + 1) * M + r) % M = r
  BY ModUnique
<1> QED BY <1>1, <1>3, <1>4
LEMMA ModCancel ==
    \A M \in Nat \ {0} : \A e \in 0..M-1 : \A x, y \in Nat :
        Congruent(M, e + x, e + y) => Congruent(M, x, y)
<1> SUFFICES ASSUME NEW M \in Nat \ {0}, NEW e \in 0..M-1, NEW x \in Nat, NEW y \in Nat,
                    (e + x) % M = (e + y) % M
             PROVE  x % M = y % M
  BY DEF Congruent
<1>0. PICK u \in Nat, v \in Nat, c \in Nat : u = e + x /\ v = e + y /\ c = M - e
  OBVIOUS
<1>4. Congruent(M, u, v)
  BY <1>0 DEF Congruent
<1>5. Congruent(M, u + c, v + c)
  BY <1>4, ModAdd
<1>1. (u + c) % M = (v + c) % M
  BY <1>5 DEF Congruent
<1>2. u + c = x + M /\ v + c = y + M
  BY <1>0
<1>3. (x + M) % M = x % M /\ (y + M) % M = y % M
  BY ModShift
<1> QED
  BY <1>1, <1>2, <1>3

LEMMA LostIsGap ==
    ASSUME NEW a \in Nat, NEW b \in Nat, a < b
    PROVE  LET L == Lost(((a % SequenceMod) + 1) % SequenceMod, b % SequenceMod)
           IN  L \in Nat /\ Congruent(SequenceMod, L, b - a - 1)
<1>0. PICK M \in Nat \ {0} : M = SequenceMod
  BY SensorAssumption
<1>1. a % M \in 0..M-1 /\ ((a % M) + 1) % M \in 0..M-1 /\ b % M \in 0..M-1
  BY ModDef
<1>2. PICK e \in 0..M-1 : e = ((a % M) + 1) % M
  BY <1>1
<1>3. PICK s \in 0..M-1 : s = b % M
  BY <1>1
<1>4. PICK L \in Nat : L = Lost(e, s) /\ (e + L = s \/ e + L = s + M)
  BY <1>0 DEF Lost
<1>5. s % M = s /\ (s + M) % M = s
  <2>1. s % M = s
    OBVIOUS
  <2> QED
    BY <2>1, ModShift
<1>6. (e + L) % M = b % M
  BY <1>3, <1>4, <1>5
<1>7. e % M = (a + 1) % M
  <2>1. (a % M) % M = a % M
    BY <1>1
  <2>4. PICK r \in Nat : r = a % M
    BY <1>1
  <2>6. Congruent(M, r, a)
    BY <2>1, <2>4 DEF Congruent
  <2>7. Congruent(M, r + 1, a + 1)
    BY <2>6, ModAdd
  <2>5. (r + 1) % M = (a + 1) % M
    BY <2>7 DEF Congruent
  <2>2. ((a % M) + 1) % M = (a + 1) % M
    BY <2>4, <2>5
  <2>3. e % M = e
    OBVIOUS
  <2> QED
    BY <1>2, <2>2, <2>3
<1>8. PICK d \in Nat, c \in Nat : d = b - a - 1 /\ c = a + 1
  OBVIOUS
<1>12. Congruent(M, e, c)
  BY <1>7, <1>8 DEF Congruent
<1>9. Congruent(M, e + d, c + d)
  BY <1>12, ModAdd
<1>10. c + d = b
  BY <1>8
<1>13. Congruent(M, e + L, e + d)
  BY <1>6, <1>9, <1>10 DEF Congruent
<1>11. Congruent(M, L, d)
  BY <1>13, ModCancel
<1> QED
  BY <1>0, <1>2, <1>3, <1>4, <1>8, <1>11

LEMMA TxTypeStep ==
    ASSUME SensorInv, [SensorNext]_sensor_vars
    PROVE  TxTypes'
<1> USE SensorAssumption, SensorTypes
    DEF TxTypes, SensorInv, LinkTypes, DataThread, tx_vars, link_vars, start_vars, data_file_vars, count_vars, UNCHANGED_receiver, UNCHANGED_threads, UNCHANGED_others
<1>1. ASSUME NEW i \in Tx, tx_starts(i) PROVE TxTypes'
  BY <1>1 DEF tx_starts
<1>2. ASSUME NEW i \in Tx, tx_sets_up(i) PROVE TxTypes'
  BY <1>2 DEF tx_sets_up
<1>3. ASSUME NEW i \in Tx, send_binary_packet(i) PROVE TxTypes'
  <2>1. packet_sequence' \in [Tx -> Nat]
    BY <1>3 DEF send_binary_packet
  <2>2. tx' \in [Tx -> {"none", "init", "accept", "stream", "closing", "ended"}]
    BY <1>3 DEF send_binary_packet
  <2>3. tx_client' \in [Tx -> DataThread \cup {NoOne}]
    BY <1>3 DEF send_binary_packet
  <2> QED
    BY <2>1, <2>2, <2>3
<1>4. ASSUME NEW i \in Tx, tx_session_ends(i) PROVE TxTypes'
  BY <1>4 DEF tx_session_ends
<1>5. ASSUME NEW i \in Tx, NEW t \in DataThread, tx_accepts(i, t) PROVE TxTypes'
  <2>1. packet_sequence' \in [Tx -> Nat]
    BY <1>5 DEF tx_accepts
  <2>2. tx' \in [Tx -> {"none", "init", "accept", "stream", "closing", "ended"}]
    <3>1. \E a \in {"stream", "accept", "ended"} : tx' = [tx EXCEPT ![i] = a]
      BY <1>5, Zenon DEF tx_accepts
    <3> QED
      BY <3>1
  <2>3. tx_client' \in [Tx -> DataThread \cup {NoOne}]
    BY <1>5 DEF tx_accepts
  <2> QED
    BY <2>1, <2>2, <2>3
<1>6. CASE signal_handler
  BY <1>6 DEF signal_handler
<1>7. CASE position_sensors_start
  BY <1>7 DEF position_sensors_start
<1>8. CASE position_sensors_start_fails
  BY <1>8 DEF position_sensors_start_fails
<1>9. CASE stop_closes_files
  BY <1>9 DEF stop_closes_files
<1>10. CASE close_data_files
  BY <1>10 DEF close_data_files
<1>11. ASSUME NEW t \in DataThread, data_connects(t) PROVE TxTypes'
  BY <1>11 DEF data_connects
<1>12. ASSUME NEW t \in DataThread, data_receives(t) PROVE TxTypes'
  BY <1>12 DEF data_receives
<1>13. ASSUME NEW t \in DataThread, data_disconnected(t) PROVE TxTypes'
  BY <1>13 DEF data_disconnected
<1>14. ASSUME NEW t \in DataThread, data_processes(t) PROVE TxTypes'
  BY <1>14 DEF data_processes, process_sensor_packet, write_sensor_data, rotate_data_files_if_needed
<1>15. ASSUME NEW t \in DataThread, data_reception_thread_ends(t) PROVE TxTypes'
  BY <1>15 DEF data_reception_thread_ends
<1>16. CASE UNCHANGED sensor_vars
  BY <1>16 DEF sensor_vars, sensor_moves
<1> QED
  BY <1>1, <1>2, <1>3, <1>4, <1>5, <1>6, <1>7, <1>8, <1>9, <1>10, <1>11, <1>12, <1>13, <1>14, <1>15, <1>16
  DEF SensorNext, SensorStep, tx_steps, data_thread_steps

LEMMA TxFlagStep ==
    ASSUME SensorInv, [SensorNext]_sensor_vars
    PROVE  TxFlagTypes'
<1> USE SensorAssumption, SensorTypes
    DEF TxFlagTypes, SensorInv, tx_vars, link_vars, start_vars, data_file_vars, count_vars, UNCHANGED_receiver, UNCHANGED_threads, UNCHANGED_others
<1>1. ASSUME NEW i \in Tx, tx_starts(i) PROVE TxFlagTypes'
  BY <1>1 DEF tx_starts
<1>2. ASSUME NEW i \in Tx, tx_sets_up(i) PROVE TxFlagTypes'
  BY <1>2 DEF tx_sets_up
<1>3. ASSUME NEW i \in Tx, send_binary_packet(i) PROVE TxFlagTypes'
  BY <1>3 DEF send_binary_packet
<1>4. ASSUME NEW i \in Tx, tx_session_ends(i) PROVE TxFlagTypes'
  BY <1>4 DEF tx_session_ends
<1>5. ASSUME NEW i \in Tx, NEW t \in DataThread, tx_accepts(i, t) PROVE TxFlagTypes'
  BY <1>5 DEF tx_accepts
<1>6. CASE signal_handler
  BY <1>6 DEF signal_handler
<1>7. CASE position_sensors_start
  BY <1>7 DEF position_sensors_start
<1>8. CASE position_sensors_start_fails
  BY <1>8 DEF position_sensors_start_fails
<1>9. CASE stop_closes_files
  BY <1>9 DEF stop_closes_files
<1>10. CASE close_data_files
  BY <1>10 DEF close_data_files
<1>11. ASSUME NEW t \in DataThread, data_connects(t) PROVE TxFlagTypes'
  BY <1>11 DEF data_connects
<1>12. ASSUME NEW t \in DataThread, data_receives(t) PROVE TxFlagTypes'
  BY <1>12 DEF data_receives
<1>13. ASSUME NEW t \in DataThread, data_disconnected(t) PROVE TxFlagTypes'
  BY <1>13 DEF data_disconnected
<1>14. ASSUME NEW t \in DataThread, data_processes(t) PROVE TxFlagTypes'
  BY <1>14 DEF data_processes, process_sensor_packet, write_sensor_data, rotate_data_files_if_needed
<1>15. ASSUME NEW t \in DataThread, data_reception_thread_ends(t) PROVE TxFlagTypes'
  BY <1>15 DEF data_reception_thread_ends
<1>16. CASE UNCHANGED sensor_vars
  BY <1>16 DEF sensor_vars, sensor_moves
<1> QED
  BY <1>1, <1>2, <1>3, <1>4, <1>5, <1>6, <1>7, <1>8, <1>9, <1>10, <1>11, <1>12, <1>13, <1>14, <1>15, <1>16
  DEF SensorNext, SensorStep, tx_steps, data_thread_steps

LEMMA LinkStep ==
    ASSUME SensorInv, [SensorNext]_sensor_vars
    PROVE  LinkTypes'
<1> USE SensorAssumption, SensorTypes
    DEF LinkTypes, SensorInv, FileTypes, tx_vars, link_vars, start_vars, data_file_vars, count_vars, UNCHANGED_receiver, UNCHANGED_threads, UNCHANGED_others
<1>1. ASSUME NEW i \in Tx, tx_starts(i) PROVE LinkTypes'
  BY <1>1 DEF tx_starts
<1>2. ASSUME NEW i \in Tx, tx_sets_up(i) PROVE LinkTypes'
  BY <1>2 DEF tx_sets_up
<1>3. ASSUME NEW i \in Tx, send_binary_packet(i) PROVE LinkTypes'
  BY <1>3 DEF send_binary_packet
<1>4. ASSUME NEW i \in Tx, tx_session_ends(i) PROVE LinkTypes'
  BY <1>4 DEF tx_session_ends
<1>5. ASSUME NEW i \in Tx, NEW t \in DataThread, tx_accepts(i, t) PROVE LinkTypes'
  BY <1>5 DEF tx_accepts
<1>6. CASE signal_handler
  BY <1>6 DEF signal_handler
<1>7. CASE position_sensors_start
  BY <1>7 DEF position_sensors_start
<1>8. CASE position_sensors_start_fails
  BY <1>8 DEF position_sensors_start_fails
<1>9. CASE stop_closes_files
  BY <1>9 DEF stop_closes_files
<1>10. CASE close_data_files
  BY <1>10 DEF close_data_files
<1>11. ASSUME NEW t \in DataThread, data_connects(t) PROVE LinkTypes'
  <2>1. PICK i \in Tx : peer' = [peer EXCEPT ![t] = i]
    BY <1>11 DEF data_connects, Listening
  <2> QED
    BY <1>11, <2>1 DEF data_connects
<1>12. ASSUME NEW t \in DataThread, data_receives(t) PROVE LinkTypes'
  BY <1>12 DEF data_receives
<1>13. ASSUME NEW t \in DataThread, data_disconnected(t) PROVE LinkTypes'
  BY <1>13 DEF data_disconnected
<1>14. ASSUME NEW t \in DataThread, data_processes(t) PROVE LinkTypes'
  BY <1>14 DEF data_processes, process_sensor_packet, write_sensor_data, rotate_data_files_if_needed
<1>15. ASSUME NEW t \in DataThread, data_reception_thread_ends(t) PROVE LinkTypes'
  BY <1>15 DEF data_reception_thread_ends
<1>16. CASE UNCHANGED sensor_vars
  BY <1>16 DEF sensor_vars, sensor_moves
<1> QED
  BY <1>1, <1>2, <1>3, <1>4, <1>5, <1>6, <1>7, <1>8, <1>9, <1>10, <1>11, <1>12, <1>13, <1>14, <1>15, <1>16
  DEF SensorNext, SensorStep, tx_steps, data_thread_steps

LEMMA WireStep ==
    ASSUME SensorInv, [SensorNext]_sensor_vars
    PROVE  WireTypes'
<1> USE SensorAssumption, SensorTypes
    DEF WireTypes, SensorInv, tx_vars, link_vars, start_vars, data_file_vars, count_vars, UNCHANGED_receiver, UNCHANGED_threads, UNCHANGED_others
<1>1. ASSUME NEW i \in Tx, tx_starts(i) PROVE WireTypes'
  BY <1>1 DEF tx_starts
<1>2. ASSUME NEW i \in Tx, tx_sets_up(i) PROVE WireTypes'
  BY <1>2 DEF tx_sets_up
<1>3. ASSUME NEW i \in Tx, send_binary_packet(i) PROVE WireTypes'
  <2>1. rbuf' = rbuf
    BY <1>3 DEF send_binary_packet
  <2>2. CASE UNCHANGED wire
    BY <2>1, <2>2
  <2>3. CASE ~Gone(i) /\ wire' = [wire EXCEPT ![tx_client[i]] =
                           Append(@, [from |-> i, index |-> packet_sequence[i]])]
    <3>1. tx_client[i] \in DataThread
      BY <2>3 DEF Gone, TxTypes
    <3>2. [from |-> i, index |-> packet_sequence[i]] \in Packet
      BY DEF Packet, TxTypes
    <3>3. Append(wire[tx_client[i]], [from |-> i, index |-> packet_sequence[i]]) \in Seq(Packet)
      BY <3>1, <3>2, AppendProperties
    <3> QED
      BY <2>1, <2>3, <3>1, <3>3
  <2> QED
    BY <1>3, <2>2, <2>3 DEF send_binary_packet
<1>4. ASSUME NEW i \in Tx, tx_session_ends(i) PROVE WireTypes'
  BY <1>4 DEF tx_session_ends
<1>5. ASSUME NEW i \in Tx, NEW t \in DataThread, tx_accepts(i, t) PROVE WireTypes'
  BY <1>5 DEF tx_accepts
<1>6. CASE signal_handler
  BY <1>6 DEF signal_handler
<1>7. CASE position_sensors_start
  BY <1>7 DEF position_sensors_start
<1>8. CASE position_sensors_start_fails
  BY <1>8 DEF position_sensors_start_fails
<1>9. CASE stop_closes_files
  BY <1>9 DEF stop_closes_files
<1>10. CASE close_data_files
  BY <1>10 DEF close_data_files
<1>11. ASSUME NEW t \in DataThread, data_connects(t) PROVE WireTypes'
  BY <1>11 DEF data_connects
<1>12. ASSUME NEW t \in DataThread, data_receives(t) PROVE WireTypes'
  <2>1. PICK n \in 1..Len(wire[t]) :
              /\ rbuf' = [rbuf EXCEPT ![t] = SubSeq(wire[t], 1, n)]
              /\ wire' = [wire EXCEPT ![t] = SubSeq(@, n + 1, Len(@))]
    BY <1>12 DEF data_receives
  <2>2. wire[t] \in Seq(Packet) /\ Len(wire[t]) \in Nat
    OBVIOUS
  <2>3. \A k \in 1..Len(wire[t]) : wire[t][k] \in Packet
    BY <2>2, ElementOfSeq
  <2>4. SubSeq(wire[t], 1, n) \in Seq(Packet) /\ SubSeq(wire[t], n + 1, Len(wire[t])) \in Seq(Packet)
    BY <2>2, <2>3, SubSeqProperties
  <2> QED
    BY <2>1, <2>4
<1>13. ASSUME NEW t \in DataThread, data_disconnected(t) PROVE WireTypes'
  BY <1>13 DEF data_disconnected
<1>14. ASSUME NEW t \in DataThread, data_processes(t) PROVE WireTypes'
  <2>1. wire' = wire /\ rbuf' = [rbuf EXCEPT ![t] = Tail(@)]
    BY <1>14 DEF data_processes
  <2> QED
    BY <1>14, <2>1, Processed
<1>15. ASSUME NEW t \in DataThread, data_reception_thread_ends(t) PROVE WireTypes'
  BY <1>15 DEF data_reception_thread_ends
<1>16. CASE UNCHANGED sensor_vars
  BY <1>16 DEF sensor_vars, sensor_moves
<1> QED
  BY <1>1, <1>2, <1>3, <1>4, <1>5, <1>6, <1>7, <1>8, <1>9, <1>10, <1>11, <1>12, <1>13, <1>14, <1>15, <1>16
  DEF SensorNext, SensorStep, tx_steps, data_thread_steps

LEMMA FileTypeStep ==
    ASSUME SensorInv, [SensorNext]_sensor_vars
    PROVE  FileTypes'
<1> USE SensorAssumption, SensorTypes
    DEF FileTypes, SensorInv, Sensors, OpenedInOrder, tx_vars, link_vars, start_vars, data_file_vars, count_vars, UNCHANGED_receiver, UNCHANGED_threads, UNCHANGED_others
<1>0. sensor_session' = sensor_session
  BY DEF SensorNext, sensor_vars
<1>1. ASSUME NEW i \in Tx, tx_starts(i) PROVE FileTypes'
  BY <1>1, <1>0 DEF tx_starts
<1>2. ASSUME NEW i \in Tx, tx_sets_up(i) PROVE FileTypes'
  BY <1>2, <1>0 DEF tx_sets_up
<1>3. ASSUME NEW i \in Tx, send_binary_packet(i) PROVE FileTypes'
  BY <1>3, <1>0 DEF send_binary_packet
<1>4. ASSUME NEW i \in Tx, tx_session_ends(i) PROVE FileTypes'
  BY <1>4, <1>0 DEF tx_session_ends
<1>5. ASSUME NEW i \in Tx, NEW t \in DataThread, tx_accepts(i, t) PROVE FileTypes'
  BY <1>5, <1>0 DEF tx_accepts
<1>6. CASE signal_handler
  BY <1>6, <1>0 DEF signal_handler
<1>7. CASE position_sensors_start
  BY <1>7, <1>0 DEF position_sensors_start
<1>8. CASE position_sensors_start_fails
  BY <1>8, <1>0 DEF position_sensors_start_fails
<1>9. CASE stop_closes_files
  BY <1>9, <1>0 DEF stop_closes_files
<1>10. CASE close_data_files
  BY <1>10, <1>0 DEF close_data_files
<1>11. ASSUME NEW t \in DataThread, data_connects(t) PROVE FileTypes'
  BY <1>11, <1>0 DEF data_connects
<1>12. ASSUME NEW t \in DataThread, data_receives(t) PROVE FileTypes'
  BY <1>12, <1>0 DEF data_receives
<1>13. ASSUME NEW t \in DataThread, data_disconnected(t) PROVE FileTypes'
  BY <1>13, <1>0 DEF data_disconnected
<1>14. ASSUME NEW t \in DataThread, data_processes(t) PROVE FileTypes'
  BY <1>14, <1>0 DEF data_processes, process_sensor_packet, write_sensor_data, rotate_data_files_if_needed
<1>15. ASSUME NEW t \in DataThread, data_reception_thread_ends(t) PROVE FileTypes'
  BY <1>15, <1>0 DEF data_reception_thread_ends
<1>16. CASE UNCHANGED sensor_vars
  BY <1>16, <1>0 DEF sensor_vars, sensor_moves
<1> QED
  BY <1>1, <1>2, <1>3, <1>4, <1>5, <1>6, <1>7, <1>8, <1>9, <1>10, <1>11, <1>12, <1>13, <1>14, <1>15, <1>16
  DEF SensorNext, SensorStep, tx_steps, data_thread_steps

LEMMA CountTypeStep ==
    ASSUME SensorInv, [SensorNext]_sensor_vars
    PROVE  CountTypes'
<1> USE SensorAssumption, SensorTypes
    DEF CountTypes, SensorInv, tx_vars, link_vars, start_vars, data_file_vars, count_vars, UNCHANGED_receiver, UNCHANGED_threads, UNCHANGED_others
<1>1. ASSUME NEW i \in Tx, tx_starts(i) PROVE CountTypes'
  BY <1>1 DEF tx_starts
<1>2. ASSUME NEW i \in Tx, tx_sets_up(i) PROVE CountTypes'
  BY <1>2 DEF tx_sets_up
<1>3. ASSUME NEW i \in Tx, send_binary_packet(i) PROVE CountTypes'
  BY <1>3 DEF send_binary_packet
<1>4. ASSUME NEW i \in Tx, tx_session_ends(i) PROVE CountTypes'
  BY <1>4 DEF tx_session_ends
<1>5. ASSUME NEW i \in Tx, NEW t \in DataThread, tx_accepts(i, t) PROVE CountTypes'
  BY <1>5 DEF tx_accepts
<1>6. CASE signal_handler
  BY <1>6 DEF signal_handler
<1>7. CASE position_sensors_start
  BY <1>7 DEF position_sensors_start
<1>8. CASE position_sensors_start_fails
  BY <1>8 DEF position_sensors_start_fails
<1>9. CASE stop_closes_files
  BY <1>9 DEF stop_closes_files
<1>10. CASE close_data_files
  BY <1>10 DEF close_data_files
<1>11. ASSUME NEW t \in DataThread, data_connects(t) PROVE CountTypes'
  BY <1>11 DEF data_connects
<1>12. ASSUME NEW t \in DataThread, data_receives(t) PROVE CountTypes'
  BY <1>12 DEF data_receives
<1>13. ASSUME NEW t \in DataThread, data_disconnected(t) PROVE CountTypes'
  BY <1>13 DEF data_disconnected
<1>14. ASSUME NEW t \in DataThread, data_processes(t) PROVE CountTypes'
  <2> DEFINE p == Head(rbuf[t])
             expected == (last_sequence + 1) % SequenceMod
  <2>1. p.index \in Nat /\ p \in Packet
    BY <1>14, Processed DEF Packet
  <2>2. p.index % SequenceMod \in 0..SequenceMod-1 /\ expected \in 0..SequenceMod-1
    <3>1. last_sequence + 1 \in Nat
      BY DEF CountTypes
    <3> QED
      BY <2>1, <3>1, ModDef
  <2>3. Lost(expected, p.index % SequenceMod) \in Nat
    BY <2>2 DEF Lost
  <2>4. /\ packets_lost' = packets_lost +
                  (IF packets_received > 0 THEN Lost(expected, p.index % SequenceMod) ELSE 0)
        /\ last_sequence' = p.index % SequenceMod /\ true_last' = p.index
        /\ missed' = IF packets_received > 0 /\ p.index > true_last
                    THEN missed + p.index - true_last - 1 ELSE missed
        /\ latest' = p /\ packets_received' = packets_received + 1
    BY <1>14 DEF data_processes, process_sensor_packet
  <2> HIDE DEF p, expected
  <2>5. packets_lost' \in Nat /\ packets_received' \in Nat
    <3>1. packets_lost \in Nat /\ packets_received \in Nat
      OBVIOUS
    <3>2. CASE packets_received > 0
      BY <2>3, <2>4, <3>1, <3>2
    <3>3. CASE ~(packets_received > 0)
      BY <2>4, <3>1, <3>3
    <3> QED
      BY <3>2, <3>3
  <2>6. missed' \in Nat
    <3>1. missed \in Nat /\ true_last \in Nat
      OBVIOUS
    <3>2. CASE packets_received > 0 /\ p.index > true_last
      BY <2>1, <2>4, <3>1, <3>2
    <3>3. CASE ~(packets_received > 0 /\ p.index > true_last)
      BY <2>4, <3>1, <3>3
    <3> QED
      BY <3>2, <3>3
  <2> QED
    BY <2>1, <2>2, <2>4, <2>5, <2>6
<1>15. ASSUME NEW t \in DataThread, data_reception_thread_ends(t) PROVE CountTypes'
  BY <1>15 DEF data_reception_thread_ends
<1>16. CASE UNCHANGED sensor_vars
  BY <1>16 DEF sensor_vars, sensor_moves
<1> QED
  BY <1>1, <1>2, <1>3, <1>4, <1>5, <1>6, <1>7, <1>8, <1>9, <1>10, <1>11, <1>12, <1>13, <1>14, <1>15, <1>16
  DEF SensorNext, SensorStep, tx_steps, data_thread_steps

LEMMA DataFlagStep ==
    ASSUME SensorInv, [SensorNext]_sensor_vars
    PROVE  DataFlagTypes'
<1> USE SensorAssumption, SensorTypes
    DEF DataFlagTypes, SensorInv, tx_vars, link_vars, start_vars, data_file_vars, count_vars, UNCHANGED_receiver, UNCHANGED_threads, UNCHANGED_others
<1>1. ASSUME NEW i \in Tx, tx_starts(i) PROVE DataFlagTypes'
  BY <1>1 DEF tx_starts
<1>2. ASSUME NEW i \in Tx, tx_sets_up(i) PROVE DataFlagTypes'
  BY <1>2 DEF tx_sets_up
<1>3. ASSUME NEW i \in Tx, send_binary_packet(i) PROVE DataFlagTypes'
  BY <1>3 DEF send_binary_packet
<1>4. ASSUME NEW i \in Tx, tx_session_ends(i) PROVE DataFlagTypes'
  BY <1>4 DEF tx_session_ends
<1>5. ASSUME NEW i \in Tx, NEW t \in DataThread, tx_accepts(i, t) PROVE DataFlagTypes'
  BY <1>5 DEF tx_accepts
<1>6. CASE signal_handler
  BY <1>6 DEF signal_handler
<1>7. CASE position_sensors_start
  BY <1>7 DEF position_sensors_start
<1>8. CASE position_sensors_start_fails
  BY <1>8 DEF position_sensors_start_fails
<1>9. CASE stop_closes_files
  BY <1>9 DEF stop_closes_files
<1>10. CASE close_data_files
  BY <1>10 DEF close_data_files
<1>11. ASSUME NEW t \in DataThread, data_connects(t) PROVE DataFlagTypes'
  BY <1>11 DEF data_connects
<1>12. ASSUME NEW t \in DataThread, data_receives(t) PROVE DataFlagTypes'
  BY <1>12 DEF data_receives
<1>13. ASSUME NEW t \in DataThread, data_disconnected(t) PROVE DataFlagTypes'
  BY <1>13 DEF data_disconnected
<1>14. ASSUME NEW t \in DataThread, data_processes(t) PROVE DataFlagTypes'
  BY <1>14 DEF data_processes, process_sensor_packet, write_sensor_data, rotate_data_files_if_needed
<1>15. ASSUME NEW t \in DataThread, data_reception_thread_ends(t) PROVE DataFlagTypes'
  BY <1>15 DEF data_reception_thread_ends
<1>16. CASE UNCHANGED sensor_vars
  BY <1>16 DEF sensor_vars, sensor_moves
<1> QED
  BY <1>1, <1>2, <1>3, <1>4, <1>5, <1>6, <1>7, <1>8, <1>9, <1>10, <1>11, <1>12, <1>13, <1>14, <1>15, <1>16
  DEF SensorNext, SensorStep, tx_steps, data_thread_steps

LEMMA PacketsStep ==
    ASSUME SensorInv, [SensorNext]_sensor_vars
    PROVE  HasPackets'
<1> USE SensorAssumption, SensorTypes
    DEF HasPackets, SensorInv, LinkTypes, WireTypes, TxTypes, FileTypes, tx_vars, link_vars, start_vars, data_file_vars, count_vars, UNCHANGED_receiver, UNCHANGED_threads, UNCHANGED_others
<1>1. ASSUME NEW i \in Tx, tx_starts(i) PROVE HasPackets'
  BY <1>1 DEF tx_starts
<1>2. ASSUME NEW i \in Tx, tx_sets_up(i) PROVE HasPackets'
  BY <1>2 DEF tx_sets_up
<1>3. ASSUME NEW i \in Tx, send_binary_packet(i) PROVE HasPackets'
  <2>1. UNCHANGED <<data_thread_at, rbuf, sockfd, data_started>>
    BY <1>3 DEF send_binary_packet
  <2>2. SUFFICES ASSUME NEW u \in DataThread, data_thread_at[u] \in {"none", "ended"}
                 PROVE  wire'[u] = <<>>
    BY <2>1
  <2>3. CASE ~Gone(i) /\ wire' = [wire EXCEPT ![tx_client[i]] =
                           Append(@, [from |-> i, index |-> packet_sequence[i]])]
    <3>1. tx_client[i] # u
      BY <2>2, <2>3 DEF Gone
    <3> QED
      BY <2>2, <2>3, <3>1
  <2> QED
    BY <1>3, <2>2, <2>3 DEF send_binary_packet
<1>4. ASSUME NEW i \in Tx, tx_session_ends(i) PROVE HasPackets'
  BY <1>4 DEF tx_session_ends, LosesItsPeer, Gone
<1>5. ASSUME NEW i \in Tx, NEW t \in DataThread, tx_accepts(i, t) PROVE HasPackets'
  BY <1>5 DEF tx_accepts
<1>6. CASE signal_handler
  BY <1>6 DEF signal_handler
<1>7. CASE position_sensors_start
  <2>1. sensor_session.starts \in 0..DataStarts /\ data_started \in Nat
    BY DEF FileTypes
  <2>2. data_started + 1 \in DataThread /\ data_started < data_started + 1
    BY <1>7, <2>1 DEF position_sensors_start, DataThread
  <2>3. data_thread_at[data_started + 1] = "none"
    BY <2>2
  <2>4. \A t \in DataThread : t \in Nat
    BY DEF DataThread
  <2> QED
    BY <1>7, <2>1, <2>2, <2>3, <2>4 DEF position_sensors_start
<1>8. CASE position_sensors_start_fails
  <2>1. data_started' = data_started + 1 /\ data_started \in Nat
    BY <1>8 DEF position_sensors_start_fails, FileTypes
  <2>2. UNCHANGED <<data_thread_at, wire, rbuf, sockfd>>
    BY <1>8 DEF position_sensors_start_fails
  <2>3. \A t \in DataThread : t \in Nat
    BY DEF DataThread
  <2> QED
    BY <2>1, <2>2, <2>3
<1>9. CASE stop_closes_files
  BY <1>9 DEF stop_closes_files
<1>10. CASE close_data_files
  BY <1>10 DEF close_data_files
<1>11. ASSUME NEW t \in DataThread, data_connects(t) PROVE HasPackets'
  BY <1>11 DEF data_connects
<1>12. ASSUME NEW t \in DataThread, data_receives(t) PROVE HasPackets'
  <2>1. PICK n \in 1..Len(wire[t]) :
              /\ rbuf' = [rbuf EXCEPT ![t] = SubSeq(wire[t], 1, n)]
              /\ wire' = [wire EXCEPT ![t] = SubSeq(@, n + 1, Len(@))]
    BY <1>12 DEF data_receives
  <2>2. wire[t] \in Seq(Packet) /\ Len(wire[t]) \in Nat
    OBVIOUS
  <2>3. \A k \in 1..Len(wire[t]) : wire[t][k] \in Packet
    BY <2>2, ElementOfSeq
  <2>4. SubSeq(wire[t], 1, n) # <<>>
    <3>1. Len(SubSeq(wire[t], 1, n)) = n
      BY <2>2, <2>3, SubSeqProperties
    <3>2. Len(<<>>) = 0
      BY EmptySeq
    <3>3. n # 0
      BY <2>2
    <3>4. SubSeq(wire[t], 1, n) = <<>> => Len(SubSeq(wire[t], 1, n)) = 0
      BY <3>2
    <3> QED
      BY <3>1, <3>3, <3>4
  <2> QED
    BY <1>12, <2>1, <2>4 DEF data_receives
<1>13. ASSUME NEW t \in DataThread, data_disconnected(t) PROVE HasPackets'
  BY <1>13 DEF data_disconnected
<1>14. ASSUME NEW t \in DataThread, data_processes(t) PROVE HasPackets'
  <2>1. /\ rbuf[t] \in Seq(Packet) /\ rbuf[t] # <<>> /\ data_thread_at[t] = "process"
        /\ Len(rbuf[t]) > 1 <=> Tail(rbuf[t]) # <<>>
    <3>1. rbuf[t] \in Seq(Packet) /\ rbuf[t] # <<>> /\ data_thread_at[t] = "process"
      BY <1>14, Processed
    <3>2. Len(Tail(rbuf[t])) = Len(rbuf[t]) - 1 /\ Tail(rbuf[t]) \in Seq(Packet)
      BY <3>1, HeadTailProperties
    <3>3. Len(rbuf[t]) \in Nat /\ (Tail(rbuf[t]) # <<>> <=> Len(Tail(rbuf[t])) > 0)
      <4>1. Tail(rbuf[t]) = <<>> => Len(Tail(rbuf[t])) = 0
        BY EmptySeq
      <4>2. Tail(rbuf[t]) # <<>> => Len(Tail(rbuf[t])) # 0
        BY <3>2, EmptySeq
      <4>3. Len(rbuf[t]) \in Nat
        BY <3>1, LenProperties
      <4> QED
        BY <3>1, <3>2, <4>1, <4>2, <4>3
    <3> QED
      BY <3>1, <3>2, <3>3
  <2>2. /\ wire' = wire /\ sockfd' = sockfd /\ rbuf' = [rbuf EXCEPT ![t] = Tail(@)]
        /\ data_thread_at' = [data_thread_at EXCEPT ![t] = IF Len(rbuf[t]) > 1 THEN @ ELSE
                              IF sockfd[t] = "closed" THEN "connect" ELSE "recv"]
    BY <1>14 DEF data_processes
  <2>3. data_started' = data_started
    BY <1>14 DEF data_processes
  <2>4. ASSUME NEW u \in DataThread, u # t
        PROVE  /\ rbuf'[u] = rbuf[u] /\ wire'[u] = wire[u] /\ sockfd'[u] = sockfd[u]
               /\ data_thread_at'[u] = data_thread_at[u]
    BY <2>2, <2>4
  <2>5. /\ rbuf'[t] = Tail(rbuf[t])
        /\ data_thread_at'[t] = IF Len(rbuf[t]) > 1 THEN "process" ELSE
                                IF sockfd[t] = "closed" THEN "connect" ELSE "recv"
        /\ ~(t > data_started)
    BY <2>1, <2>2
  <2> QED
    BY <2>1, <2>3, <2>4, <2>5
<1>15. ASSUME NEW t \in DataThread, data_reception_thread_ends(t) PROVE HasPackets'
  BY <1>15 DEF data_reception_thread_ends
<1>16. CASE UNCHANGED sensor_vars
  BY <1>16 DEF sensor_vars, sensor_moves
<1> QED
  BY <1>1, <1>2, <1>3, <1>4, <1>5, <1>6, <1>7, <1>8, <1>9, <1>10, <1>11, <1>12, <1>13, <1>14, <1>15, <1>16
  DEF SensorNext, SensorStep, tx_steps, data_thread_steps

LEMMA FilesStep ==
    ASSUME SensorInv, [SensorNext]_sensor_vars
    PROVE  FilesAreOpen'
<1> USE SensorAssumption, SensorTypes
    DEF FilesAreOpen, SensorInv, Receiving, LinkTypes, FileTypes, OpenedInOrder, Sensors, tx_vars, link_vars, start_vars, data_file_vars, count_vars, UNCHANGED_receiver, UNCHANGED_threads, UNCHANGED_others
<1>1. ASSUME NEW i \in Tx, tx_starts(i) PROVE FilesAreOpen'
  BY <1>1 DEF tx_starts
<1>2. ASSUME NEW i \in Tx, tx_sets_up(i) PROVE FilesAreOpen'
  BY <1>2 DEF tx_sets_up
<1>3. ASSUME NEW i \in Tx, send_binary_packet(i) PROVE FilesAreOpen'
  BY <1>3 DEF send_binary_packet
<1>4. ASSUME NEW i \in Tx, tx_session_ends(i) PROVE FilesAreOpen'
  BY <1>4 DEF tx_session_ends
<1>5. ASSUME NEW i \in Tx, NEW t \in DataThread, tx_accepts(i, t) PROVE FilesAreOpen'
  BY <1>5 DEF tx_accepts
<1>6. CASE signal_handler
  BY <1>6 DEF signal_handler
<1>7. CASE position_sensors_start
  BY <1>7 DEF position_sensors_start
<1>8. CASE position_sensors_start_fails
  BY <1>8 DEF position_sensors_start_fails
<1>9. CASE stop_closes_files
  BY <1>9 DEF stop_closes_files
<1>10. CASE close_data_files
  BY <1>10 DEF close_data_files
<1>11. ASSUME NEW t \in DataThread, data_connects(t) PROVE FilesAreOpen'
  BY <1>11 DEF data_connects
<1>12. ASSUME NEW t \in DataThread, data_receives(t) PROVE FilesAreOpen'
  BY <1>12 DEF data_receives
<1>13. ASSUME NEW t \in DataThread, data_disconnected(t) PROVE FilesAreOpen'
  BY <1>13 DEF data_disconnected
<1>14. ASSUME NEW t \in DataThread, data_processes(t) PROVE FilesAreOpen'
  BY <1>14 DEF data_processes, process_sensor_packet, write_sensor_data, rotate_data_files_if_needed
<1>15. ASSUME NEW t \in DataThread, data_reception_thread_ends(t) PROVE FilesAreOpen'
  BY <1>15 DEF data_reception_thread_ends
<1>16. CASE UNCHANGED sensor_vars
  BY <1>16 DEF sensor_vars, sensor_moves
<1> QED
  BY <1>1, <1>2, <1>3, <1>4, <1>5, <1>6, <1>7, <1>8, <1>9, <1>10, <1>11, <1>12, <1>13, <1>14, <1>15, <1>16
  DEF SensorNext, SensorStep, tx_steps, data_thread_steps

LEMMA AloneStep ==
    ASSUME SensorInv, [SensorNext]_sensor_vars
    PROVE  AreAlone'
<1> USE SensorAssumption, SensorTypes
    DEF AreAlone, SensorInv, Receiving, LinkTypes, FileTypes, TxTypes, tx_vars, link_vars, start_vars, data_file_vars, count_vars, UNCHANGED_receiver, UNCHANGED_threads, UNCHANGED_others
<1>1. ASSUME NEW i \in Tx, tx_starts(i) PROVE AreAlone'
  <2>1. two_programs' <=> two_programs \/ i > 1
    BY <1>1, Zenon DEF tx_starts
  <2>2. UNCHANGED <<two_threads, data_thread_at>> /\ tx' = [tx EXCEPT ![i] = "init"]
    BY <1>1 DEF tx_starts
  <2>3. i \in Nat \ {0}
    BY DEF Tx
  <2> QED
    BY <2>1, <2>2, <2>3
<1>2. ASSUME NEW i \in Tx, tx_sets_up(i) PROVE AreAlone'
  BY <1>2 DEF tx_sets_up
<1>3. ASSUME NEW i \in Tx, send_binary_packet(i) PROVE AreAlone'
  BY <1>3 DEF send_binary_packet
<1>4. ASSUME NEW i \in Tx, tx_session_ends(i) PROVE AreAlone'
  BY <1>4 DEF tx_session_ends
<1>5. ASSUME NEW i \in Tx, NEW t \in DataThread, tx_accepts(i, t) PROVE AreAlone'
  BY <1>5 DEF tx_accepts
<1>6. CASE signal_handler
  BY <1>6 DEF signal_handler
<1>7. CASE position_sensors_start
  BY <1>7 DEF position_sensors_start
<1>8. CASE position_sensors_start_fails
  BY <1>8 DEF position_sensors_start_fails
<1>9. CASE stop_closes_files
  BY <1>9 DEF stop_closes_files
<1>10. CASE close_data_files
  BY <1>10 DEF close_data_files
<1>11. ASSUME NEW t \in DataThread, data_connects(t) PROVE AreAlone'
  BY <1>11 DEF data_connects
<1>12. ASSUME NEW t \in DataThread, data_receives(t) PROVE AreAlone'
  BY <1>12 DEF data_receives
<1>13. ASSUME NEW t \in DataThread, data_disconnected(t) PROVE AreAlone'
  BY <1>13 DEF data_disconnected
<1>14. ASSUME NEW t \in DataThread, data_processes(t) PROVE AreAlone'
  BY <1>14 DEF data_processes, process_sensor_packet, write_sensor_data, rotate_data_files_if_needed
<1>15. ASSUME NEW t \in DataThread, data_reception_thread_ends(t) PROVE AreAlone'
  BY <1>15 DEF data_reception_thread_ends
<1>16. CASE UNCHANGED sensor_vars
  BY <1>16 DEF sensor_vars, sensor_moves
<1> QED
  BY <1>1, <1>2, <1>3, <1>4, <1>5, <1>6, <1>7, <1>8, <1>9, <1>10, <1>11, <1>12, <1>13, <1>14, <1>15, <1>16
  DEF SensorNext, SensorStep, tx_steps, data_thread_steps

LEMMA TrueStep ==
    ASSUME SensorInv, [SensorNext]_sensor_vars
    PROVE  LastIsTrue'
<1> USE SensorAssumption, SensorTypes
    DEF LastIsTrue, SensorInv, CountTypes, tx_vars, link_vars, start_vars, data_file_vars, count_vars, UNCHANGED_receiver, UNCHANGED_threads, UNCHANGED_others
<1>1. ASSUME NEW i \in Tx, tx_starts(i) PROVE LastIsTrue'
  BY <1>1 DEF tx_starts
<1>2. ASSUME NEW i \in Tx, tx_sets_up(i) PROVE LastIsTrue'
  BY <1>2 DEF tx_sets_up
<1>3. ASSUME NEW i \in Tx, send_binary_packet(i) PROVE LastIsTrue'
  BY <1>3 DEF send_binary_packet
<1>4. ASSUME NEW i \in Tx, tx_session_ends(i) PROVE LastIsTrue'
  BY <1>4 DEF tx_session_ends
<1>5. ASSUME NEW i \in Tx, NEW t \in DataThread, tx_accepts(i, t) PROVE LastIsTrue'
  BY <1>5 DEF tx_accepts
<1>6. CASE signal_handler
  BY <1>6 DEF signal_handler
<1>7. CASE position_sensors_start
  BY <1>7 DEF position_sensors_start
<1>8. CASE position_sensors_start_fails
  BY <1>8 DEF position_sensors_start_fails
<1>9. CASE stop_closes_files
  BY <1>9 DEF stop_closes_files
<1>10. CASE close_data_files
  BY <1>10 DEF close_data_files
<1>11. ASSUME NEW t \in DataThread, data_connects(t) PROVE LastIsTrue'
  BY <1>11 DEF data_connects
<1>12. ASSUME NEW t \in DataThread, data_receives(t) PROVE LastIsTrue'
  BY <1>12 DEF data_receives
<1>13. ASSUME NEW t \in DataThread, data_disconnected(t) PROVE LastIsTrue'
  BY <1>13 DEF data_disconnected
<1>14. ASSUME NEW t \in DataThread, data_processes(t) PROVE LastIsTrue'
  BY <1>14 DEF data_processes, process_sensor_packet, write_sensor_data, rotate_data_files_if_needed
<1>15. ASSUME NEW t \in DataThread, data_reception_thread_ends(t) PROVE LastIsTrue'
  BY <1>15 DEF data_reception_thread_ends
<1>16. CASE UNCHANGED sensor_vars
  BY <1>16 DEF sensor_vars, sensor_moves
<1> QED
  BY <1>1, <1>2, <1>3, <1>4, <1>5, <1>6, <1>7, <1>8, <1>9, <1>10, <1>11, <1>12, <1>13, <1>14, <1>15, <1>16
  DEF SensorNext, SensorStep, tx_steps, data_thread_steps

LEMMA TakeStep ==
    ASSUME SensorInv, [SensorNext]_sensor_vars
    PROVE  FilesTakeAll'
<1> USE SensorAssumption, SensorTypes
    DEF FilesTakeAll, SensorInv, FilesAreOpen, Receiving, FileTypes, tx_vars, link_vars, start_vars, data_file_vars, count_vars, UNCHANGED_receiver, UNCHANGED_threads, UNCHANGED_others
<1>1. ASSUME NEW i \in Tx, tx_starts(i) PROVE FilesTakeAll'
  BY <1>1 DEF tx_starts
<1>2. ASSUME NEW i \in Tx, tx_sets_up(i) PROVE FilesTakeAll'
  BY <1>2 DEF tx_sets_up
<1>3. ASSUME NEW i \in Tx, send_binary_packet(i) PROVE FilesTakeAll'
  BY <1>3 DEF send_binary_packet
<1>4. ASSUME NEW i \in Tx, tx_session_ends(i) PROVE FilesTakeAll'
  BY <1>4 DEF tx_session_ends
<1>5. ASSUME NEW i \in Tx, NEW t \in DataThread, tx_accepts(i, t) PROVE FilesTakeAll'
  BY <1>5 DEF tx_accepts
<1>6. CASE signal_handler
  BY <1>6 DEF signal_handler
<1>7. CASE position_sensors_start
  BY <1>7 DEF position_sensors_start
<1>8. CASE position_sensors_start_fails
  BY <1>8 DEF position_sensors_start_fails
<1>9. CASE stop_closes_files
  BY <1>9 DEF stop_closes_files
<1>10. CASE close_data_files
  BY <1>10 DEF close_data_files
<1>11. ASSUME NEW t \in DataThread, data_connects(t) PROVE FilesTakeAll'
  BY <1>11 DEF data_connects
<1>12. ASSUME NEW t \in DataThread, data_receives(t) PROVE FilesTakeAll'
  BY <1>12 DEF data_receives
<1>13. ASSUME NEW t \in DataThread, data_disconnected(t) PROVE FilesTakeAll'
  BY <1>13 DEF data_disconnected
<1>14. ASSUME NEW t \in DataThread, data_processes(t) PROVE FilesTakeAll'
  BY <1>14 DEF data_processes, process_sensor_packet, write_sensor_data, rotate_data_files_if_needed
<1>15. ASSUME NEW t \in DataThread, data_reception_thread_ends(t) PROVE FilesTakeAll'
  BY <1>15 DEF data_reception_thread_ends
<1>16. CASE UNCHANGED sensor_vars
  BY <1>16 DEF sensor_vars, sensor_moves
<1> QED
  BY <1>1, <1>2, <1>3, <1>4, <1>5, <1>6, <1>7, <1>8, <1>9, <1>10, <1>11, <1>12, <1>13, <1>14, <1>15, <1>16
  DEF SensorNext, SensorStep, tx_steps, data_thread_steps

LEMMA ShutStep ==
    ASSUME SensorInv, [SensorNext]_sensor_vars
    PROVE  FilesAreShut'
<1> USE SensorAssumption, SensorTypes
    DEF FilesAreShut, SensorInv, FileTypes, tx_vars, link_vars, start_vars, data_file_vars, count_vars, UNCHANGED_receiver, UNCHANGED_threads, UNCHANGED_others
<1>1. ASSUME NEW i \in Tx, tx_starts(i) PROVE FilesAreShut'
  BY <1>1 DEF tx_starts
<1>2. ASSUME NEW i \in Tx, tx_sets_up(i) PROVE FilesAreShut'
  BY <1>2 DEF tx_sets_up
<1>3. ASSUME NEW i \in Tx, send_binary_packet(i) PROVE FilesAreShut'
  BY <1>3 DEF send_binary_packet
<1>4. ASSUME NEW i \in Tx, tx_session_ends(i) PROVE FilesAreShut'
  BY <1>4 DEF tx_session_ends
<1>5. ASSUME NEW i \in Tx, NEW t \in DataThread, tx_accepts(i, t) PROVE FilesAreShut'
  BY <1>5 DEF tx_accepts
<1>6. CASE signal_handler
  BY <1>6 DEF signal_handler
<1>7. CASE position_sensors_start
  BY <1>7 DEF position_sensors_start
<1>8. CASE position_sensors_start_fails
  BY <1>8 DEF position_sensors_start_fails
<1>9. CASE stop_closes_files
  BY <1>9 DEF stop_closes_files
<1>10. CASE close_data_files
  BY <1>10 DEF close_data_files
<1>11. ASSUME NEW t \in DataThread, data_connects(t) PROVE FilesAreShut'
  BY <1>11 DEF data_connects
<1>12. ASSUME NEW t \in DataThread, data_receives(t) PROVE FilesAreShut'
  BY <1>12 DEF data_receives
<1>13. ASSUME NEW t \in DataThread, data_disconnected(t) PROVE FilesAreShut'
  BY <1>13 DEF data_disconnected
<1>14. ASSUME NEW t \in DataThread, data_processes(t) PROVE FilesAreShut'
  BY <1>14 DEF data_processes, process_sensor_packet, write_sensor_data, rotate_data_files_if_needed
<1>15. ASSUME NEW t \in DataThread, data_reception_thread_ends(t) PROVE FilesAreShut'
  BY <1>15 DEF data_reception_thread_ends
<1>16. CASE UNCHANGED sensor_vars
  BY <1>16 DEF sensor_vars, sensor_moves
<1> QED
  BY <1>1, <1>2, <1>3, <1>4, <1>5, <1>6, <1>7, <1>8, <1>9, <1>10, <1>11, <1>12, <1>13, <1>14, <1>15, <1>16
  DEF SensorNext, SensorStep, tx_steps, data_thread_steps

\* The order of the packets of thread t, for given buffers.
LEMMA OrderKept ==
    ASSUME SensorInv, UNCHANGED <<packet_sequence, packets_received, true_last>>,
           two_programs => two_programs', two_threads => two_threads',
           \A u \in DataThread : rbuf'[u] \in {rbuf[u], <<>>} /\ wire'[u] \in {wire[u], <<>>}
    PROVE  AllInOrder'
<1>0. SUFFICES ASSUME ~two_programs, ~two_threads
               PROVE  /\ packets_received > 0 => true_last < packet_sequence[1]
                      /\ \A u \in DataThread : InOrder(u)'
  BY DEF AllInOrder
<1>1. SUFFICES ASSUME NEW u \in DataThread
               PROVE  InOrder(u)'
  BY <1>0 DEF AllInOrder, SensorInv
<1>2. InOrder(u)
  BY <1>0 DEF SensorInv, AllInOrder
<1>3. Len(<<>>) = 0 /\ 1..0 = {}
  BY EmptySeq
<1>4. \A p : IsAhead(p) => p.index < packet_sequence'[1] /\ (packets_received' > 0 => true_last' < p.index)
  BY DEF IsAhead
<1>5. CASE rbuf'[u] = rbuf[u] /\ wire'[u] = wire[u]
  BY <1>2, <1>4, <1>5 DEF InOrder, IsAhead, Precede
<1>6. CASE rbuf'[u] = <<>> /\ wire'[u] = wire[u]
  BY <1>2, <1>3, <1>4, <1>6 DEF InOrder, IsAhead, Precede
<1>7. CASE rbuf'[u] = rbuf[u] /\ wire'[u] = <<>>
  BY <1>2, <1>3, <1>4, <1>7 DEF InOrder, IsAhead, Precede
<1>8. CASE rbuf'[u] = <<>> /\ wire'[u] = <<>>
  BY <1>2, <1>3, <1>4, <1>8 DEF InOrder, IsAhead, Precede
<1> QED
  BY <1>2, <1>5, <1>6, <1>7, <1>8

LEMMA OrderStep ==
    ASSUME SensorInv, [SensorNext]_sensor_vars
    PROVE  AllInOrder'
<1> USE SensorAssumption, SensorTypes
    DEF AllInOrder, SensorInv, tx_vars, link_vars, start_vars, data_file_vars, count_vars, UNCHANGED_receiver, UNCHANGED_threads, UNCHANGED_others
<1>1. ASSUME NEW i \in Tx, tx_starts(i) PROVE AllInOrder'
  <2>1. UNCHANGED <<packet_sequence, packets_received, true_last>>
    BY <1>1 DEF tx_starts
  <2>2. two_programs => two_programs'
    BY <1>1 DEF tx_starts
  <2>3. two_threads => two_threads'
    BY <1>1 DEF tx_starts
  <2>4. \A u \in DataThread : rbuf'[u] \in {rbuf[u], <<>>} /\ wire'[u] \in {wire[u], <<>>}
    BY <1>1 DEF tx_starts
  <2> QED
    BY <2>1, <2>2, <2>3, <2>4, OrderKept
<1>2. ASSUME NEW i \in Tx, tx_sets_up(i) PROVE AllInOrder'
  <2>1. UNCHANGED <<packet_sequence, packets_received, true_last>>
    BY <1>2 DEF tx_sets_up
  <2>2. two_programs => two_programs'
    BY <1>2 DEF tx_sets_up
  <2>3. two_threads => two_threads'
    BY <1>2 DEF tx_sets_up
  <2>4. \A u \in DataThread : rbuf'[u] \in {rbuf[u], <<>>} /\ wire'[u] \in {wire[u], <<>>}
    BY <1>2 DEF tx_sets_up
  <2> QED
    BY <2>1, <2>2, <2>3, <2>4, OrderKept
<1>3. ASSUME NEW i \in Tx, send_binary_packet(i) PROVE AllInOrder'
  <2>1. /\ packet_sequence' = [packet_sequence EXCEPT ![i] = @ + 1] /\ tx[i] = "stream"
        /\ UNCHANGED <<rbuf, packets_received, true_last, two_programs, two_threads>>
    BY <1>3 DEF send_binary_packet
  <2>2. SUFFICES ASSUME ~two_programs, ~two_threads
                 PROVE  /\ packets_received > 0 => true_last < packet_sequence'[1]
                        /\ \A u \in DataThread : InOrder(u)'
    BY <2>1 DEF AllInOrder
  <2>3. i = 1 /\ packet_sequence[1] \in Nat /\ packet_sequence'[1] = packet_sequence[1] + 1
    BY <2>1, <2>2 DEF AreAlone, TxTypes
  <2>8. packets_received > 0 => true_last < packet_sequence[1]
    BY <2>2 DEF AllInOrder
  <2>9. SUFFICES ASSUME NEW u \in DataThread PROVE InOrder(u)'
    BY <2>3, <2>8 DEF CountTypes
  <2>4. InOrder(u) /\ rbuf'[u] = rbuf[u]
    BY <2>1, <2>2 DEF AllInOrder
  <2>0. true_last \in Nat /\ packets_received \in Nat /\ rbuf[u] \in Seq(Packet) /\ wire[u] \in Seq(Packet)
    BY DEF CountTypes, WireTypes
  <2>5. /\ \A k \in 1..Len(rbuf[u]) : rbuf[u][k].index \in Nat
        /\ \A k \in 1..Len(wire[u]) : wire[u][k].index \in Nat
    <3>1. /\ \A k \in 1..Len(rbuf[u]) : rbuf[u][k] \in Packet
          /\ \A k \in 1..Len(wire[u]) : wire[u][k] \in Packet
      BY <2>0, ElementOfSeq
    <3> QED
      BY <3>1 DEF Packet
  <2>6. CASE wire'[u] = wire[u]
    BY <2>0, <2>1, <2>3, <2>4, <2>5, <2>6 DEF InOrder, IsAhead, Precede
  <2>7. CASE wire'[u] = Append(wire[u], [from |-> i, index |-> packet_sequence[i]])
    <3> DEFINE p == [from |-> i, index |-> packet_sequence[i]]
    <3>1. p \in Packet /\ p.index = packet_sequence[1]
      BY <2>3 DEF Packet
    <3>2. /\ Len(wire'[u]) = Len(wire[u]) + 1 /\ Len(wire[u]) \in Nat /\ Len(rbuf[u]) \in Nat
          /\ \A k \in 1..Len(wire[u]) : wire'[u][k] = wire[u][k]
          /\ wire'[u][Len(wire[u]) + 1] = p
      BY <2>0, <2>7, <3>1, AppendProperties, LenProperties
    <3> HIDE DEF p
    <3>3. \A k \in 1..Len(rbuf[u]) : IsAhead(rbuf[u][k])'
      BY <2>1, <2>3, <2>4, <2>5 DEF InOrder, IsAhead
    <3>4. \A k \in 1..Len(wire'[u]) : k \in 1..Len(wire[u]) \/ k = Len(wire[u]) + 1
      BY <3>2
    <3>8. \A k \in 1..Len(wire[u]) : IsAhead(wire[u][k]) /\ wire[u][k].index < p.index
      BY <2>4, <3>1 DEF InOrder, IsAhead
    <3>9. \A q : IsAhead(q) /\ q.index \in Nat =>
              q.index < packet_sequence'[1] /\ (packets_received' > 0 => true_last' < q.index)
      BY <2>1, <2>3 DEF IsAhead
    <3>10. p.index < packet_sequence'[1] /\ (packets_received' > 0 => true_last' < p.index)
      BY <2>1, <2>3, <2>8, <3>1
    <3>5. \A k \in 1..Len(wire'[u]) : IsAhead(wire[u][k])'
      <4> SUFFICES ASSUME NEW k \in 1..Len(wire'[u]) PROVE IsAhead(wire[u][k])'
        OBVIOUS
      <4>1. CASE k \in 1..Len(wire[u])
        BY <2>5, <3>2, <3>8, <3>9, <4>1 DEF IsAhead
      <4>2. CASE k = Len(wire[u]) + 1
        BY <3>2, <3>10, <4>2 DEF IsAhead
      <4> QED
        BY <3>4, <4>1, <4>2
    <3>6. \A j, k \in 1..Len(wire'[u]) : j < k => Precede(wire'[u][j], wire'[u][k])
      <4> SUFFICES ASSUME NEW j \in 1..Len(wire'[u]), NEW k \in 1..Len(wire'[u]), j < k
                   PROVE  Precede(wire'[u][j], wire'[u][k])
        OBVIOUS
      <4>0. j \in 1..Len(wire[u])
        BY <3>2
      <4>1. CASE k \in 1..Len(wire[u])
        BY <2>4, <3>2, <4>0, <4>1 DEF InOrder
      <4>2. CASE k = Len(wire[u]) + 1
        BY <3>2, <3>8, <4>0, <4>2 DEF Precede
      <4> QED
        BY <3>4, <4>1, <4>2
    <3>7. \A j \in 1..Len(rbuf[u]), k \in 1..Len(wire'[u]) : Precede(rbuf[u][j], wire'[u][k])
      BY <2>4, <3>1, <3>2, <3>4 DEF InOrder, IsAhead, Precede
    <3> QED
      BY <2>0, <2>3, <2>4, <3>3, <3>5, <3>6, <3>7 DEF InOrder, Precede
  <2>10. \/ wire' = wire
         \/ wire' = [wire EXCEPT ![tx_client[i]] =
                         Append(@, [from |-> i, index |-> packet_sequence[i]])]
    BY <1>3 DEF send_binary_packet
  <2>11. wire'[u] = wire[u] \/ wire'[u] = Append(wire[u], [from |-> i, index |-> packet_sequence[i]])
    BY <2>10 DEF WireTypes
  <2> QED
    BY <2>6, <2>7, <2>11
<1>4. ASSUME NEW i \in Tx, tx_session_ends(i) PROVE AllInOrder'
  <2>1. UNCHANGED <<packet_sequence, packets_received, true_last>>
    BY <1>4 DEF tx_session_ends
  <2>2. two_programs => two_programs'
    BY <1>4 DEF tx_session_ends
  <2>3. two_threads => two_threads'
    BY <1>4 DEF tx_session_ends
  <2>4. \A u \in DataThread : rbuf'[u] \in {rbuf[u], <<>>} /\ wire'[u] \in {wire[u], <<>>}
    BY <1>4 DEF tx_session_ends
  <2> QED
    BY <2>1, <2>2, <2>3, <2>4, OrderKept
<1>5. ASSUME NEW i \in Tx, NEW t \in DataThread, tx_accepts(i, t) PROVE AllInOrder'
  <2>1. UNCHANGED <<packet_sequence, packets_received, true_last>>
    BY <1>5 DEF tx_accepts
  <2>2. two_programs => two_programs'
    BY <1>5 DEF tx_accepts
  <2>3. two_threads => two_threads'
    BY <1>5 DEF tx_accepts
  <2>4. \A u \in DataThread : rbuf'[u] \in {rbuf[u], <<>>} /\ wire'[u] \in {wire[u], <<>>}
    BY <1>5 DEF tx_accepts
  <2> QED
    BY <2>1, <2>2, <2>3, <2>4, OrderKept
<1>6. CASE signal_handler
  <2>1. UNCHANGED <<packet_sequence, packets_received, true_last>>
    BY <1>6 DEF signal_handler
  <2>2. two_programs => two_programs'
    BY <1>6 DEF signal_handler
  <2>3. two_threads => two_threads'
    BY <1>6 DEF signal_handler
  <2>4. \A u \in DataThread : rbuf'[u] \in {rbuf[u], <<>>} /\ wire'[u] \in {wire[u], <<>>}
    BY <1>6 DEF signal_handler
  <2> QED
    BY <2>1, <2>2, <2>3, <2>4, OrderKept
<1>7. CASE position_sensors_start
  <2>1. UNCHANGED <<packet_sequence, packets_received, true_last>>
    BY <1>7 DEF position_sensors_start
  <2>2. two_programs => two_programs'
    BY <1>7 DEF position_sensors_start
  <2>3. two_threads => two_threads'
    BY <1>7 DEF position_sensors_start
  <2>4. \A u \in DataThread : rbuf'[u] \in {rbuf[u], <<>>} /\ wire'[u] \in {wire[u], <<>>}
    BY <1>7 DEF position_sensors_start
  <2> QED
    BY <2>1, <2>2, <2>3, <2>4, OrderKept
<1>8. CASE position_sensors_start_fails
  <2>1. UNCHANGED <<packet_sequence, packets_received, true_last>>
    BY <1>8 DEF position_sensors_start_fails
  <2>2. two_programs => two_programs'
    BY <1>8 DEF position_sensors_start_fails
  <2>3. two_threads => two_threads'
    BY <1>8 DEF position_sensors_start_fails
  <2>4. \A u \in DataThread : rbuf'[u] \in {rbuf[u], <<>>} /\ wire'[u] \in {wire[u], <<>>}
    BY <1>8 DEF position_sensors_start_fails
  <2> QED
    BY <2>1, <2>2, <2>3, <2>4, OrderKept
<1>9. CASE stop_closes_files
  <2>1. UNCHANGED <<packet_sequence, packets_received, true_last>>
    BY <1>9 DEF stop_closes_files
  <2>2. two_programs => two_programs'
    BY <1>9 DEF stop_closes_files
  <2>3. two_threads => two_threads'
    BY <1>9 DEF stop_closes_files
  <2>4. \A u \in DataThread : rbuf'[u] \in {rbuf[u], <<>>} /\ wire'[u] \in {wire[u], <<>>}
    BY <1>9 DEF stop_closes_files
  <2> QED
    BY <2>1, <2>2, <2>3, <2>4, OrderKept
<1>10. CASE close_data_files
  <2>1. UNCHANGED <<packet_sequence, packets_received, true_last>>
    BY <1>10 DEF close_data_files
  <2>2. two_programs => two_programs'
    BY <1>10 DEF close_data_files
  <2>3. two_threads => two_threads'
    BY <1>10 DEF close_data_files
  <2>4. \A u \in DataThread : rbuf'[u] \in {rbuf[u], <<>>} /\ wire'[u] \in {wire[u], <<>>}
    BY <1>10 DEF close_data_files
  <2> QED
    BY <2>1, <2>2, <2>3, <2>4, OrderKept
<1>11. ASSUME NEW t \in DataThread, data_connects(t) PROVE AllInOrder'
  <2>1. UNCHANGED <<packet_sequence, packets_received, true_last>>
    BY <1>11 DEF data_connects
  <2>2. two_programs => two_programs'
    BY <1>11 DEF data_connects
  <2>3. two_threads => two_threads'
    BY <1>11 DEF data_connects
  <2>4. \A u \in DataThread : rbuf'[u] \in {rbuf[u], <<>>} /\ wire'[u] \in {wire[u], <<>>}
    BY <1>11 DEF data_connects
  <2> QED
    BY <2>1, <2>2, <2>3, <2>4, OrderKept
<1>12. ASSUME NEW t \in DataThread, data_receives(t) PROVE AllInOrder'
  <2>1. PICK n \in 1..Len(wire[t]) :
              /\ rbuf' = [rbuf EXCEPT ![t] = SubSeq(wire[t], 1, n)]
              /\ wire' = [wire EXCEPT ![t] = SubSeq(@, n + 1, Len(@))]
    BY <1>12 DEF data_receives
  <2>2. UNCHANGED <<packet_sequence, packets_received, true_last, two_programs, two_threads>>
    BY <1>12 DEF data_receives
  <2>3. wire[t] \in Seq(Packet) /\ Len(wire[t]) \in Nat
    BY LenProperties DEF WireTypes
  <2>4. \A k \in 1..Len(wire[t]) : wire[t][k] \in Packet
    BY <2>3, ElementOfSeq
  <2>5. /\ rbuf'[t] = SubSeq(wire[t], 1, n) /\ wire'[t] = SubSeq(wire[t], n + 1, Len(wire[t]))
        /\ \A u \in DataThread \ {t} : rbuf'[u] = rbuf[u] /\ wire'[u] = wire[u]
    BY <2>1 DEF WireTypes
  <2>6. Len(rbuf'[t]) = n /\ \A k \in 1..n : rbuf'[t][k] = wire[t][k]
    BY <2>3, <2>4, <2>5, SubSeqProperties
  <2>7. /\ Len(wire'[t]) = Len(wire[t]) - n
        /\ \A k \in 1..(Len(wire[t]) - n) : wire'[t][k] = wire[t][n + k]
    BY <2>3, <2>4, <2>5, SubSeqProperties
  <2>8. SUFFICES ASSUME ~two_programs, ~two_threads, NEW u \in DataThread PROVE InOrder(u)'
    BY <2>2 DEF AllInOrder
  <2>9. InOrder(u) /\ InOrder(t)
    BY <2>8 DEF AllInOrder
  <2>10. CASE u = t
    <3>1. \A k \in 1..n : k \in 1..Len(wire[t])
      BY <2>3
    <3>2. \A k \in 1..(Len(wire[t]) - n) : n + k \in 1..Len(wire[t])
      BY <2>3
    <3>3. \A p : IsAhead(p)' <=> IsAhead(p)
      BY <2>2 DEF IsAhead
    <3>4. \A k \in 1..Len(rbuf'[t]) : IsAhead(rbuf'[t][k])
      BY <2>6, <2>9, <3>1 DEF InOrder
    <3>5. \A k \in 1..Len(wire'[t]) : IsAhead(wire'[t][k])
      BY <2>7, <2>9, <3>2 DEF InOrder
    <3>6. \A j, k \in 1..Len(rbuf'[t]) : j < k => Precede(rbuf'[t][j], rbuf'[t][k])
      BY <2>6, <2>9, <3>1 DEF InOrder
    <3>7. \A j, k \in 1..Len(wire'[t]) : j < k => Precede(wire'[t][j], wire'[t][k])
      BY <2>7, <2>9, <3>2 DEF InOrder
    <3>8. \A j \in 1..Len(rbuf'[t]), k \in 1..Len(wire'[t]) : Precede(rbuf'[t][j], wire'[t][k])
      BY <2>6, <2>7, <2>9, <3>1, <3>2 DEF InOrder
    <3> QED
      BY <2>10, <2>2, <3>4, <3>5, <3>6, <3>7, <3>8 DEF InOrder, IsAhead, Precede
  <2>11. CASE u # t
    BY <2>2, <2>5, <2>9, <2>11 DEF InOrder, IsAhead, Precede
  <2> QED
    BY <2>10, <2>11
<1>13. ASSUME NEW t \in DataThread, data_disconnected(t) PROVE AllInOrder'
  <2>1. UNCHANGED <<packet_sequence, packets_received, true_last>>
    BY <1>13 DEF data_disconnected
  <2>2. two_programs => two_programs'
    BY <1>13 DEF data_disconnected
  <2>3. two_threads => two_threads'
    BY <1>13 DEF data_disconnected
  <2>4. \A u \in DataThread : rbuf'[u] \in {rbuf[u], <<>>} /\ wire'[u] \in {wire[u], <<>>}
    BY <1>13 DEF data_disconnected
  <2> QED
    BY <2>1, <2>2, <2>3, <2>4, OrderKept
<1>14. ASSUME NEW t \in DataThread, data_processes(t) PROVE AllInOrder'
  <2>1. /\ wire' = wire /\ rbuf' = [rbuf EXCEPT ![t] = Tail(@)]
        /\ true_last' = Head(rbuf[t]).index /\ packets_received' = packets_received + 1
        /\ UNCHANGED <<packet_sequence, two_programs, two_threads>>
    BY <1>14 DEF data_processes, process_sensor_packet
  <2>2. /\ data_thread_at[t] = "process" /\ rbuf[t] \in Seq(Packet) /\ rbuf[t] # <<>>
        /\ Head(rbuf[t]) = rbuf[t][1] /\ Head(rbuf[t]) \in Packet
        /\ Len(rbuf[t]) \in Nat \ {0}
    BY <1>14, Processed
  <2>3. /\ Len(rbuf'[t]) = Len(rbuf[t]) - 1
        /\ \A k \in 1..(Len(rbuf[t]) - 1) : rbuf'[t][k] = rbuf[t][k + 1]
    <3>1. rbuf'[t] = Tail(rbuf[t])
      BY <2>1 DEF WireTypes
    <3> QED
      BY <2>2, <3>1, HeadTailProperties
  <2>4. SUFFICES ASSUME ~two_programs, ~two_threads, NEW u \in DataThread
                 PROVE  /\ true_last' < packet_sequence[1]
                        /\ InOrder(u)'
    BY <2>1 DEF AllInOrder
  <2>5. InOrder(t)
    BY <2>4 DEF AllInOrder
  <2>6. true_last' < packet_sequence[1] /\ true_last' = rbuf[t][1].index
    BY <2>1, <2>2, <2>5 DEF InOrder, IsAhead
  <2>7. CASE u = t
    <3>1. \A k \in 1..(Len(rbuf[t]) - 1) : k + 1 \in 1..Len(rbuf[t]) /\ 1 < k + 1
      BY <2>2
    <3>2. 1 \in 1..Len(rbuf[t])
      BY <2>2
    <3>3. \A k \in 1..Len(rbuf'[t]) : IsAhead(rbuf[t][k])'
      BY <2>1, <2>3, <2>5, <2>6, <3>1, <3>2 DEF InOrder, IsAhead, Precede
    <3>4. \A k \in 1..Len(wire[t]) : IsAhead(wire[t][k])'
      BY <2>1, <2>5, <2>6, <3>2 DEF InOrder, IsAhead, Precede
    <3>5. \A j, k \in 1..Len(rbuf'[t]) : j < k => Precede(rbuf'[t][j], rbuf'[t][k])
      BY <2>3, <2>5, <3>1, <2>2 DEF InOrder
    <3>6. \A j \in 1..Len(rbuf'[t]), k \in 1..Len(wire[t]) : Precede(rbuf'[t][j], wire[t][k])
      BY <2>3, <2>5, <3>1 DEF InOrder
    <3> QED
      BY <2>1, <2>5, <2>6, <2>7, <3>3, <3>4, <3>5, <3>6 DEF InOrder, Precede
  <2>8. CASE u # t
    <3>1. rbuf'[u] = rbuf[u] /\ wire'[u] = wire[u]
      BY <2>1, <2>8 DEF WireTypes
    <3>2. t \in Receiving /\ u \notin Receiving
      BY <2>2, <2>4, <2>8 DEF AreAlone, Receiving
    <3>3. rbuf[u] = <<>> /\ wire[u] = <<>>
      BY <3>2 DEF HasPackets, Receiving
    <3>4. Len(<<>>) = 0 /\ 1..0 = {}
      BY EmptySeq
    <3> QED
      BY <2>6, <3>1, <3>3, <3>4 DEF InOrder
  <2> QED
    BY <2>6, <2>7, <2>8
<1>15. ASSUME NEW t \in DataThread, data_reception_thread_ends(t) PROVE AllInOrder'
  <2>1. UNCHANGED <<packet_sequence, packets_received, true_last>>
    BY <1>15 DEF data_reception_thread_ends
  <2>2. two_programs => two_programs'
    BY <1>15 DEF data_reception_thread_ends
  <2>3. two_threads => two_threads'
    BY <1>15 DEF data_reception_thread_ends
  <2>4. \A u \in DataThread : rbuf'[u] \in {rbuf[u], <<>>} /\ wire'[u] \in {wire[u], <<>>}
    BY <1>15 DEF data_reception_thread_ends
  <2> QED
    BY <2>1, <2>2, <2>3, <2>4, OrderKept
<1>16. CASE UNCHANGED sensor_vars
  BY <1>16 DEF sensor_vars, sensor_moves, AllInOrder, InOrder, IsAhead, Precede
<1> QED
  BY <1>1, <1>2, <1>3, <1>4, <1>5, <1>6, <1>7, <1>8, <1>9, <1>10, <1>11, <1>12, <1>13, <1>14, <1>15, <1>16
  DEF SensorNext, SensorStep, tx_steps, data_thread_steps

LEMMA LossStep ==
    ASSUME SensorInv, [SensorNext]_sensor_vars
    PROVE  LossIsCounted'
<1> USE SensorAssumption, SensorTypes
    DEF LossIsCounted, SensorInv, tx_vars, link_vars, start_vars, data_file_vars, count_vars, UNCHANGED_receiver, UNCHANGED_threads, UNCHANGED_others
<1>1. ASSUME NEW i \in Tx, tx_starts(i) PROVE LossIsCounted'
  <2>1. UNCHANGED <<packets_lost, missed, two_threads>> /\ (two_programs => two_programs')
    BY <1>1 DEF tx_starts
  <2> QED
    BY <2>1
<1>2. ASSUME NEW i \in Tx, tx_sets_up(i) PROVE LossIsCounted'
  BY <1>2 DEF tx_sets_up
<1>3. ASSUME NEW i \in Tx, send_binary_packet(i) PROVE LossIsCounted'
  BY <1>3 DEF send_binary_packet
<1>4. ASSUME NEW i \in Tx, tx_session_ends(i) PROVE LossIsCounted'
  BY <1>4 DEF tx_session_ends
<1>5. ASSUME NEW i \in Tx, NEW t \in DataThread, tx_accepts(i, t) PROVE LossIsCounted'
  BY <1>5 DEF tx_accepts
<1>6. CASE signal_handler
  BY <1>6 DEF signal_handler
<1>7. CASE position_sensors_start
  <2>1. UNCHANGED <<packets_lost, missed, two_programs>> /\ (two_threads => two_threads')
    BY <1>7 DEF position_sensors_start
  <2> QED
    BY <2>1
<1>8. CASE position_sensors_start_fails
  BY <1>8 DEF position_sensors_start_fails
<1>9. CASE stop_closes_files
  BY <1>9 DEF stop_closes_files
<1>10. CASE close_data_files
  BY <1>10 DEF close_data_files
<1>11. ASSUME NEW t \in DataThread, data_connects(t) PROVE LossIsCounted'
  BY <1>11 DEF data_connects
<1>12. ASSUME NEW t \in DataThread, data_receives(t) PROVE LossIsCounted'
  BY <1>12 DEF data_receives
<1>13. ASSUME NEW t \in DataThread, data_disconnected(t) PROVE LossIsCounted'
  BY <1>13 DEF data_disconnected
<1>14. ASSUME NEW t \in DataThread, data_processes(t) PROVE LossIsCounted'
  <2>1. /\ true_last' = Head(rbuf[t]).index
        /\ packets_lost' = packets_lost + (IF packets_received > 0
               THEN Lost((last_sequence + 1) % SequenceMod, Head(rbuf[t]).index % SequenceMod)
               ELSE 0)
        /\ missed' = IF packets_received > 0 /\ Head(rbuf[t]).index > true_last
                     THEN missed + Head(rbuf[t]).index - true_last - 1 ELSE missed
        /\ UNCHANGED <<two_programs, two_threads>>
    BY <1>14 DEF data_processes, process_sensor_packet
  <2>2. SUFFICES ASSUME ~two_programs, ~two_threads
                 PROVE  Congruent(SequenceMod, packets_lost', missed')
    BY <2>1 DEF Congruent
  <2>3. Congruent(SequenceMod, packets_lost, missed)
    BY <2>2 DEF Congruent
  <2>4. CASE packets_received = 0
    BY <2>1, <2>3, <2>4 DEF CountTypes
  <2>5. CASE packets_received > 0
    <3>1. PICK b \in Nat : b = Head(rbuf[t]).index
      BY <1>14, Processed DEF Packet
    <3>2. true_last < b
      <4>1. InOrder(t) /\ Head(rbuf[t]) = rbuf[t][1] /\ 1 \in 1..Len(rbuf[t])
        BY <1>14, <2>2, Processed DEF AllInOrder
      <4> QED
        BY <2>5, <3>1, <4>1 DEF InOrder, IsAhead
    <3>3. last_sequence = true_last % SequenceMod /\ true_last \in Nat
      BY <2>5 DEF LastIsTrue, CountTypes
    <3>4. PICK L \in Nat : /\ L = Lost((last_sequence + 1) % SequenceMod, b % SequenceMod)
                           /\ Congruent(SequenceMod, L, b - true_last - 1)
      BY <3>2, <3>3, LostIsGap
    <3>5. PICK d \in Nat : d = b - true_last - 1
      BY <3>2, <3>3
    <3>6. packets_lost' = packets_lost + L /\ missed' = missed + d
      BY <2>1, <2>5, <3>1, <3>2, <3>3, <3>4, <3>5 DEF CountTypes
    <3>7. packets_lost \in Nat /\ missed \in Nat
      BY DEF CountTypes
    <3>8. Congruent(SequenceMod, packets_lost + L, missed + L)
      BY <2>3, <3>7, ModAdd
    <3>9. Congruent(SequenceMod, L + missed, d + missed)
      BY <3>4, <3>5, <3>7, ModAdd
    <3>10. L + missed = missed + L /\ d + missed = missed + d
      BY <3>7
    <3> QED
      BY <3>6, <3>8, <3>9, <3>10 DEF Congruent
  <2> QED
    BY <2>4, <2>5 DEF CountTypes
<1>15. ASSUME NEW t \in DataThread, data_reception_thread_ends(t) PROVE LossIsCounted'
  BY <1>15 DEF data_reception_thread_ends
<1>16. CASE UNCHANGED sensor_vars
  BY <1>16 DEF sensor_vars, sensor_moves
<1> QED
  BY <1>1, <1>2, <1>3, <1>4, <1>5, <1>6, <1>7, <1>8, <1>9, <1>10, <1>11, <1>12, <1>13, <1>14, <1>15, <1>16
  DEF SensorNext, SensorStep, tx_steps, data_thread_steps

LEMMA SensorStarting == SensorInit => SensorInv
<1> SUFFICES ASSUME SensorInit PROVE SensorInv
  OBVIOUS
<1> USE SensorAssumption DEF SensorInit
<1>0. <<>> \in Seq(Packet) /\ Len(<<>>) = 0 /\ 1..0 = {}
  BY EmptySeq
<1>1. TxTypes /\ TxFlagTypes /\ LinkTypes
  BY DEF TxTypes, TxFlagTypes, LinkTypes
<1>2. WireTypes
  BY <1>0 DEF WireTypes
<1>8. FileTypes
  BY DEF FileTypes
<1>9. CountTypes
  BY DEF CountTypes
<1>10. DataFlagTypes
  BY DEF DataFlagTypes
<1>3. FileTypes /\ CountTypes /\ DataFlagTypes
  BY <1>8, <1>9, <1>10
<1>4. HasPackets
  BY DEF HasPackets
<1>5. FilesAreOpen /\ AreAlone /\ LastIsTrue
  BY DEF FilesAreOpen, AreAlone, LastIsTrue, Receiving
<1>6. AllInOrder
  BY <1>0 DEF AllInOrder, InOrder
<1>7. LossIsCounted /\ FilesTakeAll /\ FilesAreShut
  BY DEF LossIsCounted, FilesTakeAll, FilesAreShut
<1> QED
  BY <1>1, <1>2, <1>3, <1>4, <1>5, <1>6, <1>7, SensorTypes DEF SensorInv

LEMMA SensorStepKeeps == SensorInv /\ [SensorNext]_sensor_vars => SensorInv'
<1> SUFFICES ASSUME SensorInv, [SensorNext]_sensor_vars PROVE SensorInv'
  OBVIOUS
<1>1. TxTypes' /\ TxFlagTypes' /\ LinkTypes' /\ WireTypes'
  BY TxTypeStep, TxFlagStep, LinkStep, WireStep
<1>2. FileTypes' /\ CountTypes' /\ DataFlagTypes'
  BY FileTypeStep, CountTypeStep, DataFlagStep
<1>3. SensorTypeOK'
  BY <1>1, <1>2 DEF SensorTypeOK, TxTypes, TxFlagTypes, LinkTypes, WireTypes, FileTypes,
    CountTypes, DataFlagTypes
<1>4. HasPackets' /\ FilesAreOpen' /\ AreAlone' /\ AllInOrder' /\ LastIsTrue'
  BY PacketsStep, FilesStep, AloneStep, OrderStep, TrueStep
<1>5. LossIsCounted' /\ FilesTakeAll' /\ FilesAreShut'
  BY LossStep, TakeStep, ShutStep
<1> QED
  BY <1>3, <1>4, <1>5 DEF SensorInv

-----------------------------------------------------------------------------
(* The time interval counter. *)

\* Whom the open files belong to, and what the flags say while a command is under way.
FileIsOwn == data_file <= ticc_files /\ ticc_open = {data_file} \ {NoFile}
ThreadIsTold ==
    /\ ticc_cmd = "opened" => data_file # NoFile /\ serial_fd /\ ~logging_active
    /\ ticc_cmd \in {"joins", "closes"} => ~logging_active
    /\ ticc_cmd = "closes" => ticc_thread \notin {"reads", "rotates"}
    /\ logging_active => ticc_cmd = "idle" /\ serial_fd
    /\ ~logging_active /\ ticc_cmd \in {"idle", "opened"}
        => ticc_thread \notin {"reads", "rotates"}
    /\ ~logging_active /\ ticc_cmd = "idle" => data_file = NoFile /\ ~serial_fd
CountIsWritten ==
    /\ ticc_thread \in {"reads", "rotates"} => (unrotated <=> data_file = NoFile)
    /\ unrotated \/ written = total_measurements
    /\ written <= total_measurements
\* TiccTypeOK in two parts.
TiccFlagTypes ==
    /\ logging_active \in BOOLEAN /\ device_configured \in BOOLEAN /\ serial_fd \in BOOLEAN
    /\ unrotated \in BOOLEAN
TiccStateTypes ==
    /\ data_file \in 0..TiccFiles /\ ticc_files \in 0..TiccFiles
    /\ ticc_open \subseteq 1..TiccFiles
    /\ ticc_thread \in {"none", "reads", "rotates", "ended"} /\ buffer_pos \in 0..LineBuffer
    /\ total_measurements \in 0..TiccLines /\ written \in 0..TiccLines
    /\ ticc_starts \in 0..TiccStarts
    /\ ticc_cmd \in {"idle", "opened", "joins", "closes"}
TiccInv == TiccTypeOK /\ FileIsOwn /\ ThreadIsTold /\ CountIsWritten

LEMMA TiccTypes == TiccTypeOK <=> TiccFlagTypes /\ TiccStateTypes
BY DEF TiccTypeOK, TiccFlagTypes, TiccStateTypes

LEMMA TiccStarting == TiccInit => TiccInv
<1> SUFFICES ASSUME TiccInit PROVE TiccInv
  OBVIOUS
<1>1. TiccFlagTypes
  BY DEF TiccInit, TiccFlagTypes
<1>2. TiccStateTypes
  BY TiccAssumption DEF TiccInit, TiccStateTypes, NoFile
<1>3. FileIsOwn /\ ThreadIsTold /\ CountIsWritten
  BY DEF TiccInit, FileIsOwn, ThreadIsTold, CountIsWritten, NoFile
<1> QED
  BY <1>1, <1>2, <1>3, TiccTypes DEF TiccInv

LEMMA TiccFlagStep ==
    ASSUME TiccInv, [TiccNext]_ticc_moves
    PROVE  TiccFlagTypes'
<1> USE TiccAssumption, TiccTypes DEF TiccInv, NoFile, ticc_file_vars, ticc_flags, TiccFlagTypes
<1>1. CASE ticc_start_logging
  <2>1. serial_fd' \in BOOLEAN /\ device_configured' \in BOOLEAN
    BY <1>1, Zenon DEF ticc_start_logging, ticc_create_data_file
  <2> QED
    BY <1>1, <2>1 DEF ticc_start_logging
<1>2. CASE ticc_thread_starts
  BY <1>2 DEF ticc_thread_starts
<1>3. CASE ticc_reads
  BY <1>3 DEF ticc_reads
<1>4. CASE ticc_rotates
  <2>1. unrotated' \in BOOLEAN
    BY <1>4, Zenon DEF ticc_rotates, ticc_create_data_file
  <2> QED
    BY <1>4, <2>1 DEF ticc_rotates
<1>5. CASE ticc_thread_ends
  BY <1>5 DEF ticc_thread_ends
<1>6. CASE ticc_stop_logging
  BY <1>6 DEF ticc_stop_logging
<1>7. CASE UNCHANGED ticc_moves
  BY <1>7 DEF ticc_moves
<1> QED
  BY <1>1, <1>2, <1>3, <1>4, <1>5, <1>6, <1>7 DEF TiccNext, ticc_logging_thread

LEMMA TiccStateStep ==
    ASSUME TiccInv, [TiccNext]_ticc_moves
    PROVE  TiccStateTypes'
<1> USE TiccAssumption, TiccTypes DEF TiccInv, NoFile, ticc_file_vars, ticc_flags, TiccStateTypes, FileIsOwn, CountIsWritten
<1>1. CASE ticc_start_logging
  BY <1>1 DEF ticc_start_logging, ticc_create_data_file
<1>2. CASE ticc_thread_starts
  BY <1>2 DEF ticc_thread_starts
<1>3. CASE ticc_reads
  BY <1>3 DEF ticc_reads
<1>4. CASE ticc_rotates
  BY <1>4 DEF ticc_rotates, ticc_create_data_file
<1>5. CASE ticc_thread_ends
  BY <1>5 DEF ticc_thread_ends
<1>6. CASE ticc_stop_logging
  BY <1>6 DEF ticc_stop_logging
<1>7. CASE UNCHANGED ticc_moves
  BY <1>7 DEF ticc_moves
<1> QED
  BY <1>1, <1>2, <1>3, <1>4, <1>5, <1>6, <1>7 DEF TiccNext, ticc_logging_thread

LEMMA FileStep ==
    ASSUME TiccInv, [TiccNext]_ticc_moves
    PROVE  FileIsOwn'
<1> USE TiccAssumption, TiccTypes DEF TiccInv, NoFile, ticc_file_vars, ticc_flags, FileIsOwn, ThreadIsTold, TiccStateTypes
<1>1. CASE ticc_start_logging
  BY <1>1 DEF ticc_start_logging, ticc_create_data_file
<1>2. CASE ticc_thread_starts
  <2>1. CASE UNCHANGED ticc_file_vars
    BY <2>1
  <2>2. CASE data_file' = NoFile /\ ticc_open' = ticc_open \ {data_file} /\ ticc_files' = ticc_files
    <3>1. ticc_files \in Nat /\ ticc_open' = {}
      BY <2>2, TiccAssumption
    <3> QED
      BY <2>2, <3>1
  <2> QED
    BY <1>2, <2>1, <2>2, Zenon DEF ticc_thread_starts
<1>3. CASE ticc_reads
  BY <1>3 DEF ticc_reads
<1>4. CASE ticc_rotates
  BY <1>4 DEF ticc_rotates, ticc_create_data_file
<1>5. CASE ticc_thread_ends
  BY <1>5 DEF ticc_thread_ends
<1>6. CASE ticc_stop_logging
  BY <1>6 DEF ticc_stop_logging
<1>7. CASE UNCHANGED ticc_moves
  BY <1>7 DEF ticc_moves
<1> QED
  BY <1>1, <1>2, <1>3, <1>4, <1>5, <1>6, <1>7 DEF TiccNext, ticc_logging_thread

LEMMA ToldStep ==
    ASSUME TiccInv, [TiccNext]_ticc_moves
    PROVE  ThreadIsTold'
<1> USE TiccAssumption, TiccTypes DEF TiccInv, NoFile, ticc_file_vars, ticc_flags, ThreadIsTold, FileIsOwn, TiccStateTypes, TiccFlagTypes
<1>1. CASE ticc_start_logging
  BY <1>1 DEF ticc_start_logging, ticc_create_data_file
<1>2. CASE ticc_thread_starts
  BY <1>2 DEF ticc_thread_starts
<1>3. CASE ticc_reads
  BY <1>3 DEF ticc_reads
<1>4. CASE ticc_rotates
  BY <1>4 DEF ticc_rotates, ticc_create_data_file
<1>5. CASE ticc_thread_ends
  BY <1>5 DEF ticc_thread_ends
<1>6. CASE ticc_stop_logging
  BY <1>6 DEF ticc_stop_logging
<1>7. CASE UNCHANGED ticc_moves
  BY <1>7 DEF ticc_moves
<1> QED
  BY <1>1, <1>2, <1>3, <1>4, <1>5, <1>6, <1>7 DEF TiccNext, ticc_logging_thread

LEMMA WrittenStep ==
    ASSUME TiccInv, [TiccNext]_ticc_moves
    PROVE  CountIsWritten'
<1> USE TiccAssumption, TiccTypes DEF TiccInv, NoFile, ticc_file_vars, ticc_flags, CountIsWritten, FileIsOwn, ThreadIsTold, TiccStateTypes, TiccFlagTypes
<1>1. CASE ticc_start_logging
  BY <1>1 DEF ticc_start_logging, ticc_create_data_file
<1>2. CASE ticc_thread_starts
  <2>1. CASE logging_active' = TRUE
    <3>1. unrotated' = FALSE /\ data_file' = data_file /\ data_file # NoFile
      BY <1>2, <2>1 DEF ticc_thread_starts
    <3> QED
      BY <1>2, <3>1 DEF ticc_thread_starts
  <2>2. CASE logging_active' = FALSE
    <3>1. ticc_thread \notin {"reads", "rotates"}
      BY <1>2 DEF ticc_thread_starts
    <3>2. ticc_thread' = ticc_thread
      BY <1>2, <2>2, Zenon DEF ticc_thread_starts
    <3>3. written' = 0 /\ total_measurements' = 0
      BY <1>2 DEF ticc_thread_starts
    <3> QED
      BY <3>1, <3>2, <3>3
  <2> QED
    BY <1>2, <2>1, <2>2 DEF ticc_thread_starts
<1>3. CASE ticc_reads
  BY <1>3 DEF ticc_reads
<1>4. CASE ticc_rotates
  <2>1. CASE data_file # NoFile /\ ticc_create_data_file /\ unrotated' = (data_file' = NoFile)
    <3>2. unrotated' <=> data_file' = NoFile
      BY <2>1, Zenon
    <3> QED
      BY <1>4, <2>1, <3>2 DEF ticc_rotates
  <2>2. CASE UNCHANGED <<ticc_file_vars, unrotated>>
    BY <1>4, <2>2 DEF ticc_rotates
  <2> QED
    BY <1>4, <2>1, <2>2 DEF ticc_rotates
<1>5. CASE ticc_thread_ends
  BY <1>5 DEF ticc_thread_ends
<1>6. CASE ticc_stop_logging
  BY <1>6 DEF ticc_stop_logging
<1>7. CASE UNCHANGED ticc_moves
  BY <1>7 DEF ticc_moves
<1> QED
  BY <1>1, <1>2, <1>3, <1>4, <1>5, <1>6, <1>7 DEF TiccNext, ticc_logging_thread

LEMMA TiccStep == TiccInv /\ [TiccNext]_ticc_moves => TiccInv'
<1> SUFFICES ASSUME TiccInv, [TiccNext]_ticc_moves PROVE TiccInv'
  OBVIOUS
<1>1. TiccFlagTypes' /\ TiccStateTypes'
  BY TiccFlagStep, TiccStateStep
<1>2. TiccTypeOK'
  BY <1>1 DEF TiccTypeOK, TiccFlagTypes, TiccStateTypes
<1> QED
  BY <1>2, FileStep, ToldStep, WrittenStep DEF TiccInv

LEMMA TiccFilesKept == TiccInv => CountedIsWritten /\ ThreadHasItsFile
BY DEF TiccInv, FileIsOwn, ThreadIsTold, CountIsWritten, CountedIsWritten, ThreadHasItsFile,
   ticc_channels, ticc_get_status, NoFile

-----------------------------------------------------------------------------
(* All services. *)

ServicesInv == IInv /\ CoolerInv /\ SensorInv /\ TiccInv

\* A step of all is a step or a stutter of each.
LEMMA EachSteps ==
    [ServicesNext]_everything => /\ [Next]_vars /\ [Pr59Next]_pr59_vars
                                 /\ [SensorNext]_sensor_vars /\ [TiccNext]_ticc_moves
<1> SUFFICES ASSUME [ServicesNext]_everything
             PROVE  /\ [Next]_vars /\ [Pr59Next]_pr59_vars
                    /\ [SensorNext]_sensor_vars /\ [TiccNext]_ticc_moves
  OBVIOUS
<1>1. CASE RunsChildren
  BY <1>1 DEF RunsChildren
<1>2. CASE RunsPr59
  BY <1>2 DEF RunsPr59
<1>3. CASE RunsSensors
  BY <1>3 DEF RunsSensors
<1>4. CASE RunsTicc
  BY <1>4 DEF RunsTicc
<1>5. CASE UNCHANGED everything
  BY <1>5 DEF everything
<1> QED
  BY <1>1, <1>2, <1>3, <1>4, <1>5 DEF ServicesNext, Waits

LEMMA ServicesHold == ServicesSpec => []ServicesInv
<1>1. ServicesInit => ServicesInv
  BY ChildrenInit, CoolerInit, SensorStarting, TiccStarting DEF ServicesInit, ServicesInv
<1>2. ServicesInv /\ [ServicesNext]_everything => ServicesInv'
  BY EachSteps, ChildrenStep, CoolerStep, SensorStepKeeps, TiccStep DEF ServicesInv
<1> QED
  BY <1>1, <1>2, PTL DEF ServicesSpec

\* The process ids and the running services stay consistent, and all variables keep their
\* types, for every number of forks, starts, packets, files and gains.
THEOREM ServicesInvariant == ServicesSpec => []ServicesIInv
<1>1. ServicesInv => ServicesIInv
  BY DEF ServicesInv, ServicesIInv, CoolerInv, SensorInv, TiccInv
<1> QED
  BY <1>1, ServicesHold, PTL

\* Lost packets are counted up to the wrap of the sequence number, whatever its width;
\* every packet and measurement is in a file but for the excuses the properties name.
THEOREM DataIsKept == ServicesSpec => []DataKept
<1>1. ServicesInv => DataKept
  BY TiccFilesKept DEF ServicesInv, DataKept, SensorInv
<1> QED
  BY <1>1, ServicesHold, PTL

\* A commanded gain is in the memory or in the file, and the controller, the device and
\* the file agree, over every sequence of starts, stops, kills and updates.
THEOREM GainsAreKept == ServicesSpec => []GainsKept
<1>1. ServicesInv => GainsKept
  BY CoolerGains DEF ServicesInv, GainsKept
<1> QED
  BY <1>1, ServicesHold, PTL

\* position_sensors_stop signals, kills and waits for the one script that runs, whatever
\* the script thread, the services and the kernel do at the same time, unless a start
\* found a script or a thread of an earlier start.
THEOREM StopKnows == ServicesSpec => []StopKnowsTheScript
<1>1. ServicesInit => IInv /\ ScriptInv
  BY ChildrenInit, ScriptInit DEF ServicesInit
<1>2. (IInv /\ ScriptInv) /\ [ServicesNext]_everything => (IInv /\ ScriptInv)'
  BY EachSteps, ChildrenStep, ScriptStep
<1>3. IInv /\ ScriptInv => StopKnowsTheScript
  BY ScriptIsKnown
<1> QED
  BY <1>1, <1>2, <1>3, PTL DEF ServicesSpec
=============================================================================

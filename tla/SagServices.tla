------------------------------ MODULE SagServices ------------------------------
(* The devices that the command thread of Saggitarius starts, stops and sets, and the *)
(* processes it forks for them: the processes themselves (SagChildren), the cooler,   *)
(* the data of the position sensors and the time interval counter. They share no      *)
(* variable, so that a behaviour of all is one of each: here one of them runs, each   *)
(* in turn, while the others rest.                                                    *)
EXTENDS SagChildren, Pr59Cooler, SensorData, TiccClient

VARIABLE service    \* the one that runs
everything == <<service, vars, pr59_vars, sensor_vars, ticc_moves>>

Services == {"children", "pr59", "sensors", "ticc"}

\* A service at rest is in one of its initial states.
ServicesInit ==
    /\ service \in Services
    /\ Init /\ Pr59Init /\ SensorInit /\ TiccInit
    /\ service # "children" => session = CHOOSE s \in Sessions : TRUE
    /\ service # "pr59" => pr59_session = CHOOSE s \in Pr59Sessions : TRUE
    /\ service # "sensors" => sensor_session = CHOOSE s \in SensorSessions : TRUE

RunsChildren == /\ service = "children" /\ Next
                /\ UNCHANGED <<service, pr59_vars, sensor_vars, ticc_moves>>
RunsPr59 == /\ service = "pr59" /\ Pr59Next
            /\ UNCHANGED <<service, vars, sensor_vars, ticc_moves>>
RunsSensors == /\ service = "sensors" /\ SensorNext
               /\ UNCHANGED <<service, vars, pr59_vars, ticc_moves>>
RunsTicc == /\ service = "ticc" /\ TiccNext
            /\ UNCHANGED <<service, vars, pr59_vars, sensor_vars>>
\* Only the processes may never be stuck: the others end, or wait for a command.
Waits == service # "children" /\ UNCHANGED everything

ServicesNext == RunsChildren \/ RunsPr59 \/ RunsSensors \/ RunsTicc \/ Waits

\* The fairness of each module, while its service runs.
Runs(name, action) == service = name /\ action
RunsFair ==
    /\ WF_vars(Runs("children", data_thread_starts \/ data_thread_fails))
    /\ WF_vars(Runs("children", script_thread_cancelled))
    /\ WF_vars(Runs("children", position_sensors_stop))
    /\ WF_vars(Runs("children", service_polls \/ service_killed \/ service_waits))
    /\ \A t \in Thread : /\ WF_vars(Runs("children", script_management_thread(t)))
                         /\ WF_vars(Runs("children", data_thread_ends(t)))
    /\ \A p \in Waiters : WF_pr59_moves(Runs("pr59", pthread_mutex_lock(p)))
    /\ WF_pr59_moves(Runs("pr59", tec # "stabilizing" /\ tec_steps))
    /\ SF_pr59_moves(Runs("pr59", pr59_update_fan_status /\ tec' = "override"))
    /\ WF_pr59_moves(Runs("pr59", stop_returns))
    /\ WF_pr59_moves(Runs("pr59", pr59_set_pid_update))
    /\ WF_pr59_moves(Runs("pr59", pr59_get_data))
    /\ \A i \in Tx : WF_sensor_moves(Runs("sensors", tx_steps(i)))
    /\ \A t \in DataThread : WF_sensor_moves(Runs("sensors", data_thread_steps(t)))
    /\ WF_sensor_moves(Runs("sensors", close_data_files))
    /\ WF_ticc_moves(Runs("ticc", ticc_logging_thread))
    /\ WF_ticc_moves(Runs("ticc", ticc_thread_starts))
    /\ WF_ticc_moves(Runs("ticc", ticc_cmd # "idle" /\ ticc_stop_logging))

ServicesSpec == ServicesInit /\ [][ServicesNext]_everything /\ RunsFair

-----------------------------------------------------------------------------
\* The process ids and the running services are consistent (IInv of SagChildren), and the
\* variables of the other modules keep their types.
ServicesIInv == IInv /\ Pr59TypeOK /\ SensorTypeOK /\ TiccTypeOK

\* What a device sent is in the files, what was lost is counted, and a file is open
\* exactly while somebody writes to it.
DataKept == /\ LossIsCounted /\ FilesTakeAll /\ FilesAreShut
            /\ CountedIsWritten /\ ThreadHasItsFile

\* A gain that was commanded is kept over kills and restarts, in the memory, the file and,
\* as far as the serial line and its three decimals at a start allow, the device; and a
\* cooler that ended is off, unless the line failed just then.
GainsKept == GainsAgree /\ UpdatesKept /\ LeavesItOff

\* Commands return, threads that are told to end do, data flow and what is asked or set
\* arrives: as one service runs, no wait of any of them lasts.
SomebodyWaits ==
    \/ ThreadsLinger
    \/ FanWaits \/ AnswerWaits \/ ReceiverStays \/ NothingFlows \/ TiccWaits
ServicesGoOn == SomebodyWaits ~> ~SomebodyWaits
=============================================================================

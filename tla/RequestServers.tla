----------------------------- MODULE RequestServers -----------------------------
(* The programs that answer requests from the network: the power boxes of Ophiuchus, *)
(* the GPS, spectrum and telemetry servers of Saggitarius, and the daemons on aquila   *)
(* and the RFSoC with their clients. They share no variable, so that a behaviour of    *)
(* all is one of each: here one of them runs, each in turn, while the others rest.     *)
EXTENDS Pbob, GpsServer, SpectrometerServer, TelemetryServer, RemoteControl

VARIABLE program    \* the one that runs
servers == <<program, vars, gps_vars, spec_vars, telemetry_vars, remote_vars>>

Programs == {"pbob", "gps", "spectrometer", "telemetry", "remote"}

\* A program at rest is in one of its initial states.
ServersInit ==
    /\ program \in Programs
    /\ Init /\ GpsInit /\ SpecInit /\ TelInit /\ RemoteInit
    /\ program # "pbob" => hw = state
    /\ program # "gps" => gps_session = (CHOOSE s \in GpsSessions : TRUE) /\ gpsd_socket
    /\ program # "spectrometer" => spec_session = CHOOSE s \in SpecSessions : TRUE
    /\ program # "telemetry" => tel_session = CHOOSE s \in TelSessions : TRUE
    /\ program # "remote" => remote_session = CHOOSE s \in RemoteSessions : TRUE

RunsPbob == /\ program = "pbob" /\ Next
            /\ UNCHANGED <<program, gps_vars, spec_vars, telemetry_vars, remote_vars>>
RunsGps == /\ program = "gps" /\ GpsNext
           /\ UNCHANGED <<program, vars, spec_vars, telemetry_vars, remote_vars>>
RunsSpectrometer == /\ program = "spectrometer" /\ SpecNext
                    /\ UNCHANGED <<program, vars, gps_vars, telemetry_vars, remote_vars>>
RunsTelemetry == /\ program = "telemetry" /\ TelNext
                 /\ UNCHANGED <<program, vars, gps_vars, spec_vars, remote_vars>>
RunsRemote == /\ program = "remote" /\ RemoteNext
              /\ UNCHANGED <<program, vars, gps_vars, spec_vars, telemetry_vars>>
\* Only the boxes may never be stuck: the others end, or wait for their clients.
Waits == program # "pbob" /\ UNCHANGED servers

ServersNext == \/ RunsPbob \/ RunsGps \/ RunsSpectrometer \/ RunsTelemetry
               \/ RunsRemote \/ Waits

\* The fairness of each module, while its program runs.
Runs(name, action) == program = name /\ action
RunsFair ==
    /\ WF_vars(Runs("pbob", Poll)) /\ WF_vars(Runs("pbob", Serve))
    /\ \A t \in Logger :
           /\ WF_gps_moves(Runs("gps", ~(logging /\ gpsd_socket) /\ gps_logging_thread_ends(t)))
           /\ WF_gps_moves(Runs("gps", nmea_writes(t)))
           /\ WF_gps_moves(Runs("gps", ~(logging /\ nmea_fd) /\ nmea_reading_thread_ends(t)))
    /\ WF_gps_moves(Runs("gps", gps_command_steps)) /\ WF_gps_moves(Runs("gps", Expires))
    /\ \A t \in Server : WF_gps_moves(Runs("gps", udp_thread_steps(t)))
    /\ WF_spec_moves(Runs("spectrometer", server_steps))
    /\ WF_spec_moves(Runs("spectrometer", Tick))
    /\ WF_spec_moves(Runs("spectrometer", spec_server_set_active_type))
    /\ WF_spec_moves(Runs("spectrometer", spec_server_joined))
    /\ WF_tel_moves(Runs("telemetry", main # "done" /\ telemetry_server_thread))
    /\ SF_tel_moves(Runs("telemetry", main # "done" /\ system_channels))
    /\ WF_tel_moves(Runs("telemetry", main # "done" /\ run_system_monitor_thread))
    /\ WF_tel_moves(Runs("telemetry", main_ends))
    /\ WF_remote_moves(Runs("remote", receive_response \/ rfsoc_configure_ocxo
                                    \/ receive_times_out))
    /\ WF_remote_moves(Runs("remote", status_poll))
    /\ SF_remote_moves(Runs("remote", status_received))
    /\ \A c \in Connections : WF_remote_moves(Runs("remote", handle_client(c)))
    /\ \A r \in Recorder : WF_remote_moves(Runs("remote", monitor_vlbi_output(r)))

ServersSpec == ServersInit /\ [][ServersNext]_servers /\ RunsFair

-----------------------------------------------------------------------------
\* The variables of all modules keep their types, and the loops and tables their bounds.
ServersTypeOK == TypeOK /\ GpsTypeOK /\ SpecTypeOK /\ TelTypeOK /\ RemoteTypeOK

\* What is answered is true: a spectrum of the script that runs, whole if that is the one of
\* 120 kHz (StandardAsWritten is about the other), a whole sample of the monitors, a start
\* or a stop of the recorder that has happened; and a GPS server that says it runs has its
\* socket.
AnswersAreWhole ==
    ServedIsWhole /\ SamplesAreWhole /\ OneRecorder /\ AnswersAreTrue /\ UdpServes

\* No thread uses a file or a mutex after its end, and no file outlives its use.
HandlesLive == WritesOpenFile /\ FilesAreClosed /\ MutexesLive

\* Requests are applied and answered, spectra taken, threads that are told to end do, and
\* what is no longer measured is no longer told: as one program runs, no wait of any of
\* them lasts.
SomebodyWaits == GpsWaits \/ SpectrumWaits \/ RequestWaits \/ RemoteWaits
ServersGoOn ==
    /\ SomebodyWaits ~> ~SomebodyWaits
    /\ RequestApplied /\ ClientsAnswered /\ StatusArrives
=============================================================================

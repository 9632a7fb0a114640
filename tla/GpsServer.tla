------------------------------ MODULE GpsServer ------------------------------
(* The GPS of Saggitarius (Sag/src/gps.c): the logging threads, which write what  *)
(* gpsd and the serial NMEA device send to files that rotate, and the UDP server  *)
(* that answers with the last position and heading. The command thread starts and *)
(* stops both, with start_gps and stop_gps.                                       *)
EXTENDS Naturals, FiniteSets

CONSTANTS
    GpsStarts,      \* bound: start_gps commands in a behaviour
    MaxFiles,       \* bound: log files opened in a behaviour
    GpsSessions     \* bounds of a behaviour: [starts |-> start_gps commands, files |->
                    \* log files, server |-> udp_server_enabled, device |-> whether it
                    \* opens, sends |-> what it sends]

NULL == 0
Logs == 1..MaxFiles
Logger == 1..GpsStarts      \* the threads of the first, the second ... start
Server == 1..GpsStarts      \* the same for the UDP server; also its sockets
Kinds == {"position", "heading"}

ASSUME GpsAssumption ==
    /\ GpsStarts \in Nat /\ MaxFiles \in Nat
    /\ GpsSessions \subseteq [starts : 0..GpsStarts, files : 0..MaxFiles, server : BOOLEAN,
                             device : BOOLEAN, sends : SUBSET Kinds]

VARIABLES
    gps_session,                        \* the bounds of this behaviour
    logging, gpsd_socket, nmea_fd,      \* the flag and the two inputs: open or not
    logfile, files, open_files,         \* FILE pointer, files so far, those open
    gps_thread, nmea_thread, held,      \* threads, and the FILE a write goes to
    nmea_thread_running, nmea_handle, started, gps_cmd,
    rotated, rotation_failed,           \* history: files a rotation closed; a failure
    valid, fresh,                       \* what is known, and is younger than five seconds
    udp_server_running, udp_server_socket, udp_open,
    udp_thread, udp_recv,
    udp_server_thread,                  \* the handle a stop joins
    udp_failed                          \* history: an error of a socket
input_vars == <<logging, gpsd_socket, nmea_fd>>
file_vars == <<logfile, files, open_files, rotated, rotation_failed>>
nmea_vars == <<nmea_thread, held>>
join_vars == <<nmea_thread_running, nmea_handle, started>>
log_vars == <<input_vars, file_vars, gps_thread, nmea_vars, join_vars, gps_cmd>>
data_vars == <<valid, fresh>>
udp_vars == <<udp_server_running, udp_server_socket, udp_open, udp_thread, udp_recv,
              udp_server_thread, udp_failed>>
gps_moves == <<log_vars, data_vars, udp_vars>>
gps_vars == <<gps_session, gps_moves>>

GpsTypeOK ==
    /\ gps_session \in GpsSessions
    /\ logging \in BOOLEAN /\ gpsd_socket \in BOOLEAN /\ nmea_fd \in BOOLEAN
    /\ logfile \in Logs \cup {NULL} /\ files \in 0..MaxFiles /\ open_files \subseteq Logs
    /\ gps_thread \in [Logger -> {"none", "running", "ended"}]
    /\ nmea_thread \in [Logger -> {"none", "running", "writing", "ended"}]
    /\ held \in [Logger -> Logs \cup {NULL}]
    /\ nmea_thread_running \in BOOLEAN /\ nmea_handle \in Logger \cup {0}
    /\ started \in 0..GpsStarts
    /\ gps_cmd \in {"idle", "start_udp", "stop_udp", "waits", "stop_log", "join_gps", "join_nmea"}
    /\ rotated \subseteq Logs /\ rotation_failed \in BOOLEAN
    /\ valid \subseteq Kinds /\ fresh \subseteq Kinds
    /\ udp_server_running \in BOOLEAN /\ udp_server_socket \in Server \cup {NULL}
    /\ udp_open \subseteq Server
    /\ udp_thread \in [Server -> {"none", "setup", "loop", "receiving", "closing", "ended"}]
    /\ udp_recv \in [Server -> Server \cup {NULL}]
    /\ udp_server_thread \in Server \cup {0} /\ udp_failed \in BOOLEAN

\* A connection that fails is not tried again, and nothing else looks at the failure.
connect_to_gpsd == gpsd_socket \in BOOLEAN

\* After gps_init.
GpsInit ==
    /\ gps_session \in GpsSessions
    /\ logging = FALSE /\ connect_to_gpsd /\ nmea_fd = FALSE
    /\ logfile = NULL /\ files = 0 /\ open_files = {}
    /\ gps_thread = [t \in Logger |-> "none"] /\ nmea_thread = gps_thread
    /\ held = [t \in Logger |-> NULL]
    /\ nmea_thread_running = FALSE /\ nmea_handle = 0 /\ started = 0 /\ gps_cmd = "idle"
    /\ rotated = {} /\ rotation_failed = FALSE
    /\ valid = {} /\ fresh = {}
    /\ udp_server_running = FALSE /\ udp_server_socket = NULL /\ udp_open = {}
    /\ udp_thread = [t \in Server |-> "none"] /\ udp_recv = [t \in Server |-> NULL]
    /\ udp_server_thread = 0 /\ udp_failed = FALSE

Idle == gps_cmd = "idle"
unchanged_but_udp == UNCHANGED <<input_vars, file_vars, gps_thread, nmea_vars, join_vars, data_vars>>

-----------------------------------------------------------------------------
(* Logging. *)

rotate_logfile ==
    /\ files < gps_session.files
    /\ files' = files + 1 /\ logfile' = files + 1
    /\ open_files' = (open_files \ {logfile}) \cup {files + 1}
rotate_logfile_fails ==
    /\ logfile' = NULL /\ open_files' = open_files \ {logfile}
    /\ UNCHANGED files

open_nmea_device == nmea_fd' = gps_session.device

\* The command: a new file, the serial device if it opens, the two threads ...
gps_start_logging ==
    /\ Idle /\ ~logging /\ started < gps_session.starts
    /\ rotate_logfile
    /\ started' = started + 1 /\ logging' = TRUE
    /\ gps_thread' = [gps_thread EXCEPT ![started + 1] = "running"]
    /\ open_nmea_device
    /\ \/ /\ nmea_fd'
          /\ nmea_thread' = [nmea_thread EXCEPT ![started + 1] = "running"]
          /\ nmea_thread_running' = TRUE /\ nmea_handle' = started + 1
       \/ UNCHANGED <<nmea_thread, nmea_thread_running, nmea_handle>>
    /\ gps_cmd' = IF gps_session.server THEN "start_udp" ELSE "idle"
    /\ UNCHANGED <<gpsd_socket, rotated, rotation_failed, held, data_vars, udp_vars>>

\* No file, or no thread: what was opened is closed again.
gps_start_logging_fails ==
    /\ Idle /\ ~logging /\ started < gps_session.starts
    /\ started' = started + 1
    /\ \/ rotate_logfile_fails /\ UNCHANGED nmea_fd
       \/ /\ files < gps_session.files
          /\ files' = files + 1 /\ logfile' = NULL /\ open_files' = open_files \ {logfile}
          /\ nmea_fd' = FALSE
    /\ UNCHANGED <<logging, gpsd_socket, rotated, rotation_failed, gps_thread, nmea_vars,
                   nmea_thread_running, nmea_handle, gps_cmd, data_vars, udp_vars>>

\* One time stamp for all, and nothing ends a heading's validity.
parse_hehdt_sentence ==
    /\ "heading" \in gps_session.sends
    /\ valid' = valid \cup {"heading"} /\ fresh' = fresh \cup {"heading"}
parse_gprmc_sentence ==
    /\ "position" \in gps_session.sends
    /\ \/ valid' = valid \cup {"position"} /\ fresh' = fresh \cup {"position"}
       \/ valid' = valid \ {"position"} /\ UNCHANGED fresh    \* a fix marked void
parse_gpgga_sentence ==
    /\ "position" \in gps_session.sends
    /\ fresh' = fresh \cup {"position"} /\ UNCHANGED valid
process_nmea_sentence ==
    parse_hehdt_sentence \/ parse_gprmc_sentence \/ parse_gpgga_sentence \/ UNCHANGED data_vars

\* gps_logging_thread has received: it writes, parses, and rotates if it is time.
gps_receives(t) ==
    /\ gps_thread[t] = "running" /\ logging /\ gpsd_socket
    /\ process_nmea_sentence
    /\ \/ UNCHANGED <<logging, logfile, files, open_files, rotated, rotation_failed>>
       \/ /\ logfile # NULL
          /\ rotated' = rotated \cup {logfile}
          /\ \/ rotate_logfile /\ UNCHANGED <<logging, rotation_failed>>
             \/ rotate_logfile_fails /\ logging' = FALSE /\ rotation_failed' = TRUE
    /\ UNCHANGED <<gpsd_socket, nmea_fd, gps_thread, nmea_vars, join_vars, gps_cmd, udp_vars>>

\* Its loop is over: the flag, the socket, or gpsd closed the connection.
gps_logging_thread_ends(t) ==
    /\ gps_thread[t] = "running"
    /\ gps_thread' = [gps_thread EXCEPT ![t] = "ended"]
    /\ UNCHANGED <<input_vars, file_vars, nmea_vars, join_vars, gps_cmd, data_vars, udp_vars>>

\* nmea_reading_thread has read: it finds a file to write to ...
nmea_reads(t) ==
    /\ nmea_thread[t] = "running" /\ logging /\ nmea_fd
    /\ nmea_thread' = [nmea_thread EXCEPT ![t] = "writing"]
    /\ held' = [held EXCEPT ![t] = logfile]
    /\ UNCHANGED <<input_vars, file_vars, gps_thread, join_vars, gps_cmd, data_vars, udp_vars>>

\* ... writes to it, and parses the sentence.
nmea_writes(t) ==
    /\ nmea_thread[t] = "writing"
    /\ nmea_thread' = [nmea_thread EXCEPT ![t] = "running"]
    /\ held' = [held EXCEPT ![t] = NULL]
    /\ process_nmea_sentence
    /\ UNCHANGED <<input_vars, file_vars, gps_thread, join_vars, gps_cmd, udp_vars>>

\* Its loop is over, for the same reasons.
nmea_reading_thread_ends(t) ==
    /\ nmea_thread[t] = "running"
    /\ nmea_thread' = [nmea_thread EXCEPT ![t] = "ended"]
    /\ UNCHANGED <<input_vars, file_vars, gps_thread, held, join_vars, gps_cmd, data_vars,
                   udp_vars>>

\* stop_gps, after the server: the flag and both inputs, so that the threads end ...
gps_stop_logging ==
    /\ gps_cmd = "stop_log"
    /\ \/ /\ logging
          /\ logging' = FALSE /\ gpsd_socket' = FALSE /\ nmea_fd' = FALSE
          /\ gps_cmd' = "join_gps"
       \/ ~logging /\ gps_cmd' = "idle" /\ UNCHANGED input_vars
    /\ UNCHANGED <<file_vars, gps_thread, nmea_vars, join_vars, data_vars, udp_vars>>

\* ... then it waits for one and for the other ...
stop_joins_gps ==
    /\ gps_cmd = "join_gps" /\ gps_thread[started] = "ended"
    /\ gps_cmd' = "join_nmea"
    /\ UNCHANGED <<input_vars, file_vars, gps_thread, nmea_vars, join_vars, data_vars, udp_vars>>

\* A mutant of "stop_joins_nmea": the serial thread is not waited for.
stop_joins_nmea_NoJoin ==
    /\ gps_cmd = "join_nmea"
    /\ nmea_thread_running' = FALSE /\ gps_cmd' = "idle"
    /\ logfile' = NULL /\ open_files' = open_files \ {logfile}
    /\ UNCHANGED <<input_vars, files, rotated, rotation_failed, gps_thread, nmea_vars,
                   nmea_handle, started, data_vars, udp_vars>>

\* ... and closes the file.
stop_joins_nmea ==
    /\ gps_cmd = "join_nmea"
    /\ nmea_thread_running => nmea_thread[nmea_handle] = "ended"
    /\ nmea_thread_running' = FALSE /\ gps_cmd' = "idle"
    /\ logfile' = NULL /\ open_files' = open_files \ {logfile}
    /\ UNCHANGED <<input_vars, files, rotated, rotation_failed, gps_thread, nmea_vars,
                   nmea_handle, started, data_vars, udp_vars>>

-----------------------------------------------------------------------------
(* The position and the heading. *)

\* The time stamp is of the last sentence of any kind.
gps_get_data == IF fresh # {} THEN valid ELSE {}
format_gps_response == [k \in Kinds |-> k \in gps_get_data]     \* FALSE: "N/A"
\* The same for the telemetry server, each datum on its own or all in GET_GPS.
gps_channels == [k \in Kinds |-> IF k \in gps_get_data THEN "value" ELSE "N/A"]

Expires == \* five seconds without a sentence of this kind
    /\ \E k \in fresh : fresh' = fresh \ {k}
    /\ UNCHANGED <<valid, log_vars, udp_vars>>

-----------------------------------------------------------------------------
(* The UDP server. *)

UdpAlive == {t \in Server : udp_thread[t] \notin {"none", "ended"}}

\* ... and the server, unless it says it runs.
gps_start_udp_server ==
    /\ gps_cmd = "start_udp" /\ gps_cmd' = "idle"
    /\ \/ /\ ~udp_server_running
          /\ udp_server_running' = TRUE
          /\ udp_thread' = [udp_thread EXCEPT ![started] = "setup"]
          /\ udp_server_thread' = started
       \/ UNCHANGED <<udp_server_running, udp_thread, udp_server_thread>>   \* or no thread
    /\ UNCHANGED <<udp_server_socket, udp_open, udp_recv, udp_failed>>
    /\ unchanged_but_udp

\* The thread opens a socket and binds it, unless a socket that is open, or that a
\* thread still receives from, has the port.
PortTaken == udp_open # {} \/ \E o \in Server : udp_thread[o] = "receiving"
udp_binds(t) ==
    /\ udp_thread[t] = "setup"
    /\ \/ /\ ~PortTaken
          /\ udp_server_socket' = t /\ udp_open' = udp_open \cup {t}
          /\ udp_thread' = [udp_thread EXCEPT ![t] = "loop"]
          /\ UNCHANGED udp_failed
       \/ /\ udp_server_socket' = NULL /\ udp_failed' = (udp_failed \/ ~PortTaken)
          /\ udp_thread' = [udp_thread EXCEPT ![t] = "ended"]
          /\ UNCHANGED udp_open
    /\ UNCHANGED <<udp_server_running, udp_recv, udp_server_thread>>
    /\ UNCHANGED gps_cmd /\ unchanged_but_udp

\* It receives from the socket of the global; there may be none any more.
udp_loops(t) ==
    /\ udp_thread[t] = "loop"
    /\ \/ /\ udp_server_running /\ udp_server_socket # NULL
          /\ udp_thread' = [udp_thread EXCEPT ![t] = "receiving"]
          /\ udp_recv' = [udp_recv EXCEPT ![t] = udp_server_socket]
       \/ /\ ~udp_server_running \/ udp_server_socket = NULL
          /\ udp_thread' = [udp_thread EXCEPT ![t] = "closing"]
          /\ UNCHANGED udp_recv
    /\ UNCHANGED <<udp_server_running, udp_server_socket, udp_open, udp_server_thread, udp_failed>>
    /\ UNCHANGED gps_cmd /\ unchanged_but_udp

\* A request that it answers, a second without one, or an error: also that of a socket
\* a stop has closed.
udp_received(t) ==
    /\ udp_thread[t] = "receiving"
    /\ udp_recv' = [udp_recv EXCEPT ![t] = NULL]
    /\ \/ /\ udp_thread' = [udp_thread EXCEPT ![t] = "loop"]
          /\ UNCHANGED udp_failed
       \/ /\ udp_thread' = [udp_thread EXCEPT ![t] = "closing"]
          /\ udp_failed' = (udp_failed \/ udp_server_running)
    /\ UNCHANGED <<udp_server_running, udp_server_socket, udp_open, udp_server_thread>>
    /\ UNCHANGED gps_cmd /\ unchanged_but_udp

\* Whatever socket is in the global now is closed.
udp_closes(t) ==
    /\ udp_thread[t] = "closing"
    /\ udp_thread' = [udp_thread EXCEPT ![t] = "ended"]
    /\ udp_open' = udp_open \ {udp_server_socket} /\ udp_server_socket' = NULL
    /\ UNCHANGED <<udp_server_running, udp_recv, udp_server_thread, udp_failed>>
    /\ UNCHANGED gps_cmd /\ unchanged_but_udp

\* stop_gps: the flag and the socket, if the server says it runs.
stop_gps ==
    /\ Idle /\ gps_cmd' = IF udp_server_running THEN "stop_udp" ELSE "stop_log"
    /\ udp_server_running \/ logging
    /\ UNCHANGED udp_vars /\ unchanged_but_udp
gps_stop_udp_server ==
    /\ gps_cmd = "stop_udp" /\ gps_cmd' = "waits"
    /\ udp_server_running' = FALSE
    /\ udp_open' = udp_open \ {udp_server_socket} /\ udp_server_socket' = NULL
    /\ UNCHANGED <<udp_thread, udp_recv, udp_server_thread, udp_failed>>
    /\ unchanged_but_udp

\* A mutant of "stop_joins_udp": the thread is given a tenth of a second, no more.
stop_joins_udp_NoJoin ==
    /\ gps_cmd = "waits" /\ gps_cmd' = "stop_log"
    /\ UNCHANGED udp_vars /\ unchanged_but_udp

\* It waits for the thread, which notices the flag a second later at most: the time-out
\* of its socket, which the close above does not wake up.
stop_joins_udp ==
    /\ gps_cmd = "waits" /\ udp_thread[udp_server_thread] = "ended"
    /\ gps_cmd' = "stop_log"
    /\ UNCHANGED udp_vars /\ unchanged_but_udp

-----------------------------------------------------------------------------
gps_thread_steps(t) ==
    \/ gps_receives(t) \/ gps_logging_thread_ends(t)
    \/ nmea_reads(t) \/ nmea_writes(t) \/ nmea_reading_thread_ends(t)
udp_thread_steps(t) == udp_binds(t) \/ udp_loops(t) \/ udp_received(t) \/ udp_closes(t)

gps_command_steps ==
    \/ gps_stop_logging \/ stop_joins_gps \/ stop_joins_nmea
    \/ gps_start_udp_server \/ gps_stop_udp_server \/ stop_joins_udp
GpsStep ==
    \/ gps_start_logging \/ gps_start_logging_fails \/ stop_gps \/ gps_command_steps
    \/ \E t \in Logger : gps_thread_steps(t)
    \/ Expires
    \/ \E t \in Server : udp_thread_steps(t)
GpsNext == GpsStep /\ UNCHANGED gps_session

\* Threads run; a loop whose flag or input is gone ends, and a join that may return
\* does. Nothing says that a command comes or that a device sends.
GpsFair ==
    /\ \A t \in Logger : /\ WF_gps_moves(~(logging /\ gpsd_socket) /\ gps_logging_thread_ends(t))
                         /\ WF_gps_moves(nmea_writes(t))
                         /\ WF_gps_moves(~(logging /\ nmea_fd) /\ nmea_reading_thread_ends(t))
    /\ WF_gps_moves(gps_command_steps) /\ WF_gps_moves(Expires)
    /\ \A t \in Server : WF_gps_moves(udp_thread_steps(t))

GpsSpec == GpsInit /\ [][GpsNext]_gps_vars /\ GpsFair

-----------------------------------------------------------------------------
\* The serial thread writes to a file that is open, whatever the commands do, but for
\* the rotation of the other thread, which closes the file under the write.
WritesOpenFile ==
    \A t \in Logger : nmea_thread[t] = "writing" /\ held[t] # NULL =>
        held[t] \in open_files \cup rotated \/ rotation_failed

\* No file is left open: what is open is the file of the log, and after a stop none is.
FilesAreClosed ==
    /\ open_files \subseteq {logfile}
    /\ ~logging /\ Idle => open_files = {}

\* A server that says it runs has a thread on the open socket of the global, unless a
\* call on a socket failed: then the thread ends and the flag stays.
UdpServes ==
    udp_server_running /\ ~udp_failed =>
        \E t \in Server :
            \/ udp_thread[t] = "setup"
            \/ udp_thread[t] \in {"loop", "receiving"} /\ udp_server_socket = t /\ t \in udp_open

\* What must not last: a start or a stop, which waits for threads; a server's thread after
\* its stop; and an answer with a position or a heading once no thread reads the receiver.
UdpStays == UdpAlive # {} /\ ~udp_server_running
OldIsTold ==
    /\ \A t \in Logger : /\ gps_thread[t] \in {"none", "ended"}
                         /\ nmea_thread[t] \in {"none", "ended"}
    /\ ~logging /\ \E k \in Kinds : format_gps_response[k] \/ gps_channels[k] # "N/A"
GpsWaits == ~Idle \/ UdpStays \/ OldIsTold
GpsGoesOn == GpsWaits ~> ~GpsWaits
=============================================================================

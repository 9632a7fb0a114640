------------------------------ MODULE TiccClient ------------------------------
(* The time interval counter (Sag/src/ticc_client.c): a thread collects lines from *)
(* the serial port, counts the measurements and writes them to a file that is      *)
(* rotated; start_ticc, stop_ticc, get_status and exit are the commands of cli_Sag *)
EXTENDS Naturals

CONSTANTS
    TiccStarts,     \* bound: starts of the logging
    TiccFiles,      \* bound: data files of a behaviour
    TiccLines,      \* bound: measurements of a start
    LineBuffer      \* characters of line_buffer but one, in parts of a line

ASSUME TiccAssumption ==
    LineBuffer \in Nat \ {0} /\ TiccStarts \in Nat /\ TiccFiles \in Nat /\ TiccLines \in Nat

NoFile == 0

VARIABLES
    logging_active, device_configured, serial_fd,   \* the flags; the port is open
    data_file, ticc_files, ticc_open,               \* FILE pointer; files so far, open
    ticc_thread, buffer_pos,                        \* the thread, its line buffer
    total_measurements, written,                    \* counted; in a file
    ticc_starts, ticc_cmd,
    unrotated                                       \* history: a rotation that failed

ticc_file_vars == <<data_file, ticc_files, ticc_open>>
ticc_flags == <<logging_active, device_configured, serial_fd>>
ticc_moves == <<ticc_flags, ticc_file_vars, ticc_thread, buffer_pos, total_measurements,
                written, ticc_starts, ticc_cmd, unrotated>>

TiccTypeOK ==
    /\ logging_active \in BOOLEAN /\ device_configured \in BOOLEAN /\ serial_fd \in BOOLEAN
    /\ data_file \in 0..TiccFiles /\ ticc_files \in 0..TiccFiles
    /\ ticc_open \subseteq 1..TiccFiles
    /\ ticc_thread \in {"none", "reads", "rotates", "ended"} /\ buffer_pos \in 0..LineBuffer
    /\ total_measurements \in 0..TiccLines /\ written \in 0..TiccLines
    /\ ticc_starts \in 0..TiccStarts
    /\ ticc_cmd \in {"idle", "opened", "joins", "closes"} /\ unrotated \in BOOLEAN

TiccInit ==
    /\ logging_active = FALSE /\ device_configured = FALSE /\ serial_fd = FALSE
    /\ data_file = NoFile /\ ticc_files = 0 /\ ticc_open = {}
    /\ ticc_thread = "none" /\ buffer_pos = 0
    /\ total_measurements = 0 /\ written = 0 /\ ticc_starts = 0 /\ ticc_cmd = "idle"
    /\ unrotated = FALSE

ticc_create_data_file ==
    \/ /\ ticc_files < TiccFiles
       /\ ticc_files' = ticc_files + 1 /\ data_file' = ticc_files + 1
       /\ ticc_open' = (ticc_open \ {data_file}) \cup {ticc_files + 1}
    \/ /\ data_file' = NoFile /\ ticc_open' = ticc_open \ {data_file}
       /\ UNCHANGED ticc_files

\* The command: the port, its settings, the file ...
ticc_start_logging ==
    /\ ticc_cmd = "idle" /\ ~logging_active /\ ticc_starts < TiccStarts
    /\ ticc_starts' = ticc_starts + 1
    /\ \/ /\ ticc_create_data_file
          /\ serial_fd' = (data_file' # NoFile) /\ device_configured' = TRUE
          /\ ticc_cmd' = IF data_file' # NoFile THEN "opened" ELSE "idle"
       \/ /\ serial_fd' = FALSE                             \* no port, or no settings
          /\ UNCHANGED <<ticc_file_vars, device_configured, ticc_cmd>>
    /\ UNCHANGED <<logging_active, ticc_thread, buffer_pos, total_measurements, written,
                   unrotated>>

\* ... and the thread; without it all is closed again.
ticc_thread_starts ==
    /\ ticc_cmd = "opened" /\ ticc_cmd' = "idle"
    /\ total_measurements' = 0 /\ written' = 0
    /\ \/ /\ logging_active' = TRUE /\ ticc_thread' = "reads" /\ buffer_pos' = 0
          /\ unrotated' = FALSE
          /\ UNCHANGED <<serial_fd, ticc_file_vars>>
       \/ /\ logging_active' = FALSE /\ serial_fd' = FALSE
          /\ data_file' = NoFile /\ ticc_open' = ticc_open \ {data_file}
          /\ UNCHANGED <<ticc_files, ticc_thread, buffer_pos, unrotated>>
    /\ UNCHANGED <<device_configured, ticc_starts>>

\* A part of a line, the end of a line, or nothing within a tenth of a second. A buffer
\* that is full takes no more, not even the end of the line that would empty it.
ticc_reads ==
    /\ ticc_thread = "reads" /\ logging_active
    /\ ticc_thread' = "rotates"
    /\ \/ buffer_pos' = buffer_pos + 1 /\ buffer_pos < LineBuffer
          /\ UNCHANGED <<total_measurements, written>>
       \/ /\ buffer_pos < LineBuffer /\ buffer_pos' = 0
          /\ \/ /\ total_measurements < TiccLines
                /\ total_measurements' = total_measurements + 1
                /\ written' = IF data_file # NoFile THEN written + 1 ELSE written
             \/ UNCHANGED <<total_measurements, written>>   \* not a measurement
       \/ UNCHANGED <<buffer_pos, total_measurements, written>>
    /\ UNCHANGED <<ticc_flags, ticc_file_vars, ticc_starts, ticc_cmd, unrotated>>

ticc_rotates ==
    /\ ticc_thread = "rotates" /\ ticc_thread' = "reads"
    /\ \/ data_file # NoFile /\ ticc_create_data_file
          /\ unrotated' = (data_file' = NoFile)
       \/ UNCHANGED <<ticc_file_vars, unrotated>>
    /\ UNCHANGED <<ticc_flags, buffer_pos, total_measurements, written, ticc_starts, ticc_cmd>>

ticc_thread_ends ==
    /\ ticc_thread = "reads" /\ ~logging_active /\ ticc_thread' = "ended"
    /\ UNCHANGED <<ticc_flags, ticc_file_vars, buffer_pos, total_measurements, written,
                   ticc_starts, ticc_cmd, unrotated>>

\* stop_ticc, exit and cleanup: the flag, the join, then the file and the port.
ticc_stop_logging ==
    /\ \/ /\ ticc_cmd = "idle" /\ logging_active
          /\ logging_active' = FALSE /\ ticc_cmd' = "joins"
          /\ UNCHANGED <<device_configured, serial_fd, data_file, ticc_open>>
       \/ /\ ticc_cmd = "joins" /\ ticc_thread = "ended" /\ ticc_cmd' = "closes"
          /\ UNCHANGED <<ticc_flags, data_file, ticc_open>>
       \/ /\ ticc_cmd = "closes" /\ ticc_cmd' = "idle"
          /\ data_file' = NoFile /\ ticc_open' = ticc_open \ {data_file}
          /\ serial_fd' = FALSE /\ device_configured' = FALSE
          /\ UNCHANGED logging_active
    /\ UNCHANGED <<ticc_files, ticc_thread, buffer_pos, total_measurements, written,
                   ticc_starts, unrotated>>

ticc_logging_thread == ticc_reads \/ ticc_rotates \/ ticc_thread_ends
TiccNext == ticc_start_logging \/ ticc_thread_starts \/ ticc_logging_thread \/ ticc_stop_logging

\* The thread runs, and a command that has begun goes on.
TiccFair ==
    /\ WF_ticc_moves(ticc_logging_thread) /\ WF_ticc_moves(ticc_thread_starts)
    /\ WF_ticc_moves(ticc_cmd # "idle" /\ ticc_stop_logging)
TiccSpec == TiccInit /\ [][TiccNext]_ticc_moves /\ TiccFair

-----------------------------------------------------------------------------
(* What is told of the counter, by get_status_ticc and by the telemetry server. *)
ticc_get_status ==
    [is_logging |-> logging_active, is_configured |-> device_configured,
     measurement_count |-> total_measurements]
ticc_channels ==
    [ticc_logging |-> ticc_get_status.is_logging,
     ticc_measurement_count |-> ticc_get_status.measurement_count,
     ticc_interval |-> IF ticc_get_status.is_logging THEN "value" ELSE "N/A"]

-----------------------------------------------------------------------------
\* Every measurement that get_status counts is in a file, unless a rotation failed:
\* then none is written until the next start, and all are counted.
CountedIsWritten == unrotated \/ written = ticc_channels.ticc_measurement_count

\* The thread has a file and a port that are open, but for a failed rotation; and between
\* commands nothing is open that no thread uses.
ThreadHasItsFile ==
    /\ ticc_open \subseteq {data_file} \ {NoFile}
    /\ ticc_thread \in {"reads", "rotates"} /\ logging_active
        => serial_fd /\ (unrotated \/ data_file \in ticc_open)
    /\ ~ticc_channels.ticc_logging /\ ticc_cmd = "idle" => ticc_open = {} /\ ~serial_fd

\* A start and a stop return.
TiccWaits == ticc_cmd # "idle"
TiccReturns == TiccWaits ~> ~TiccWaits
=============================================================================

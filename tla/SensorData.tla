------------------------------ MODULE SensorData ------------------------------
(* The data of the position sensors: the program of the Raspberry Pi that samples *)
(* and sends them to one client after the other (Sag/src/pos_sensor_tx.c, started *)
(* and killed by sh_scripts/run_pos_sensors.sh), and the data threads that receive *)
(* them, write them to files and keep the last ones (Sag/src/position_sensors.c). *)
(* What the script thread does with the script is in SagChildren.                 *)
EXTENDS Naturals, Sequences

CONSTANTS
    DataStarts,     \* starts of the receiver in a behaviour
    TxRuns,         \* runs of the program on the Pi
    SequenceMod,    \* values of the sequence number, 2^16 in the code
    SensorSessions  \* bounds of a behaviour: [starts, runs, packets: sent by a run,
                    \* errors: of recv and of the creation of a thread]

ASSUME SensorAssumption ==
    /\ DataStarts \in Nat /\ TxRuns \in Nat \ {0} /\ SequenceMod \in Nat \ {0}
    /\ SensorSessions \subseteq [starts : 0..DataStarts, runs : 0..TxRuns,
                                packets : Nat, errors : Nat]

NoOne == 0
DataThread == 1..DataStarts
Tx == 1..TxRuns
Sensors == {"accelerometers", "spi_gyro", "i2c_gyro"}
OpenedInOrder == {{}, {"accelerometers"}, {"accelerometers", "spi_gyro"}}

VARIABLES
    sensor_session,                     \* the bounds of this behaviour
    tx, tx_keep_running, packet_sequence, tx_client,    \* the program's runs
    sockfd, peer, wire,                 \* the connection of each data thread
    data_running, sensor_cmd, data_started,
    data_thread_at, rbuf, link_errors,  \* where each data thread is; received packets
    data_files, connected,
    packets_received, last_sequence, packets_lost, latest,
    true_last, missed, two_programs, two_threads,       \* history: see LossIsCounted
    unwritten, rotation_broke, closed_under, reopened   \* and FilesTakeAll
tx_vars == <<tx, tx_keep_running, packet_sequence, tx_client>>
link_vars == <<sockfd, peer, wire, link_errors>>
start_vars == <<data_running, sensor_cmd, data_started>>
count_vars == <<packets_received, last_sequence, packets_lost, latest, true_last, missed>>
data_file_vars == <<data_files, unwritten, rotation_broke, closed_under, reopened>>
sensor_moves == <<tx_vars, link_vars, start_vars, data_thread_at, rbuf, data_file_vars,
                  connected, count_vars, two_programs, two_threads>>
sensor_vars == <<sensor_session, sensor_moves>>

Packet == [from : Tx, index : Nat]      \* the packet of a run; it carries index % SequenceMod
\* The data threads that are not over, and the runs of the program that listen.
Receiving == {t \in DataThread : data_thread_at[t] \notin {"none", "ended"}}
Listening == {i \in Tx : tx[i] \in {"accept", "stream", "closing"}}

SensorTypeOK ==
    /\ sensor_session \in SensorSessions
    /\ tx \in [Tx -> {"none", "init", "accept", "stream", "closing", "ended"}]
    /\ tx_keep_running \in [Tx -> BOOLEAN] /\ packet_sequence \in [Tx -> Nat]
    /\ tx_client \in [Tx -> DataThread \cup {NoOne}]
    /\ sockfd \in [DataThread -> {"none", "queued", "served", "finished", "closed"}]
    /\ peer \in [DataThread -> Tx \cup {NoOne}] /\ wire \in [DataThread -> Seq(Packet)]
    /\ data_running \in BOOLEAN /\ sensor_cmd \in {"idle", "stop_kills"}
    /\ data_started \in 0..DataStarts
    /\ data_thread_at \in [DataThread -> {"none", "connect", "recv", "process", "ended"}]
    /\ rbuf \in [DataThread -> Seq(Packet)]
    /\ link_errors \in Nat
    /\ data_files \subseteq Sensors /\ connected \in BOOLEAN
    /\ packets_received \in Nat /\ last_sequence \in 0..SequenceMod-1
    /\ packets_lost \in Nat /\ latest \in Packet \cup {<<>>}
    /\ true_last \in Nat /\ missed \in Nat
    /\ two_programs \in BOOLEAN /\ two_threads \in BOOLEAN /\ rotation_broke \in BOOLEAN
    /\ closed_under \in BOOLEAN /\ reopened \in BOOLEAN
    /\ unwritten \subseteq Sensors

SensorInit ==
    /\ sensor_session \in SensorSessions
    /\ tx = [i \in Tx |-> "none"] /\ tx_keep_running = [i \in Tx |-> TRUE]
    /\ packet_sequence = [i \in Tx |-> 0] /\ tx_client = [i \in Tx |-> NoOne]
    /\ sockfd = [t \in DataThread |-> "none"] /\ peer = [t \in DataThread |-> NoOne]
    /\ wire = [t \in DataThread |-> <<>>]
    /\ data_running = FALSE /\ sensor_cmd = "idle" /\ data_started = 0
    /\ data_thread_at = [t \in DataThread |-> "none"] /\ rbuf = wire
    /\ link_errors = 0
    /\ data_files = {} /\ connected = FALSE
    /\ packets_received = 0 /\ last_sequence = 0 /\ packets_lost = 0 /\ latest = <<>>
    /\ true_last = 0 /\ missed = 0 /\ two_programs = FALSE /\ two_threads = FALSE
    /\ unwritten = {} /\ rotation_broke = FALSE /\ closed_under = FALSE /\ reopened = FALSE

UNCHANGED_receiver ==
    UNCHANGED <<start_vars, data_thread_at, rbuf, data_file_vars, connected, count_vars, two_threads>>

-----------------------------------------------------------------------------
(* The program on the Pi. *)

\* The script starts it, whether or not an earlier run is over.
tx_starts(i) ==
    /\ tx[i] = "none" /\ i <= sensor_session.runs /\ \A o \in 1..(i-1) : tx[o] # "none"
    /\ tx' = [tx EXCEPT ![i] = "init"]
    /\ two_programs' = (two_programs \/ i > 1)
    /\ UNCHANGED <<tx_keep_running, packet_sequence, tx_client, link_vars>>
    /\ UNCHANGED_receiver

\* The devices and the socket, which two runs may share (SO_REUSEPORT); or an error.
tx_sets_up(i) ==
    /\ tx[i] = "init"
    /\ tx' \in {[tx EXCEPT ![i] = "accept"], [tx EXCEPT ![i] = "ended"]}
    /\ tx_keep_running[i] \/ tx'[i] = "ended"       \* the loop is not entered
    /\ UNCHANGED <<tx_keep_running, packet_sequence, tx_client, link_vars, two_programs>>
    /\ UNCHANGED_receiver

\* killall of the script: a flag; accept() is restarted after the handler.
signal_handler ==
    /\ \E i \in Tx : tx[i] \notin {"none", "ended"} /\ tx_keep_running[i]
    /\ tx_keep_running' = [i \in Tx |-> tx_keep_running[i] /\ tx[i] \in {"none", "ended"}]
    /\ UNCHANGED <<tx, packet_sequence, tx_client, link_vars, two_programs>>
    /\ UNCHANGED_receiver

\* A client, with three threads that sample and one of them sending; if a thread cannot
\* be created the connection is closed and the program waits for the next.
tx_accepts(i, t) ==
    /\ tx[i] = "accept" /\ sockfd[t] = "queued" /\ peer[t] = i
    /\ \/ /\ tx' = [tx EXCEPT ![i] = "stream"] /\ tx_client' = [tx_client EXCEPT ![i] = t]
          /\ sockfd' = [sockfd EXCEPT ![t] = "served"] /\ UNCHANGED link_errors
       \/ /\ link_errors < sensor_session.errors /\ link_errors' = link_errors + 1
          /\ sockfd' = [sockfd EXCEPT ![t] = "finished"]
          /\ tx' = [tx EXCEPT ![i] = IF tx_keep_running[i] THEN "accept" ELSE "ended"]
          /\ UNCHANGED tx_client
    /\ UNCHANGED <<tx_keep_running, packet_sequence, peer, wire, two_programs>>
    /\ UNCHANGED_receiver

Gone(i) == tx_client[i] = NoOne \/ sockfd[tx_client[i]] # "served" \/ peer[tx_client[i]] # i

\* accel_thread: a packet with the next number; if nobody receives it the session ends,
\* or SIGPIPE, which is not handled, ends the program.
send_binary_packet(i) ==
    /\ tx[i] = "stream" /\ tx_keep_running[i] /\ packet_sequence[i] < sensor_session.packets
    /\ packet_sequence' = [packet_sequence EXCEPT ![i] = @ + 1]
    /\ \/ /\ ~Gone(i) /\ wire' = [wire EXCEPT ![tx_client[i]] =
                                     Append(@, [from |-> i, index |-> packet_sequence[i]])]
          /\ UNCHANGED <<tx, tx_client>>
       \/ /\ Gone(i) /\ tx' = [tx EXCEPT ![i] = "closing"]
          /\ UNCHANGED <<wire, tx_client>>
       \/ /\ Gone(i) /\ tx' = [tx EXCEPT ![i] = "ended"]
          /\ tx_client' = [tx_client EXCEPT ![i] = NoOne]
          /\ UNCHANGED wire
    /\ UNCHANGED <<tx_keep_running, sockfd, peer, link_errors, two_programs>>
    /\ UNCHANGED_receiver

LosesItsPeer(i, t) == IF t = tx_client[i] THEN ~Gone(i)
                      ELSE ~tx_keep_running[i] /\ peer[t] = i /\ sockfd[t] = "queued"

\* streaming is 0 or the program is to end: the threads are joined, the socket closed.
tx_session_ends(i) ==
    /\ tx[i] \in {"closing", "stream"} /\ (tx[i] = "stream" => ~tx_keep_running[i])
    /\ tx' = [tx EXCEPT ![i] = IF tx_keep_running[i] THEN "accept" ELSE "ended"]
    /\ tx_client' = [tx_client EXCEPT ![i] = NoOne]
    /\ sockfd' = [t \in DataThread |-> IF LosesItsPeer(i, t) THEN "finished" ELSE sockfd[t]]
    /\ UNCHANGED <<tx_keep_running, packet_sequence, peer, wire, link_errors, two_programs>>
    /\ UNCHANGED_receiver

-----------------------------------------------------------------------------
(* The commands of Saggitarius. *)

UNCHANGED_threads == UNCHANGED <<tx_vars, link_vars, two_programs, data_thread_at, rbuf, count_vars>>

\* position_sensors_start: the files, then the threads.
position_sensors_start ==
    /\ sensor_cmd = "idle" /\ ~data_running /\ data_started < sensor_session.starts
    /\ data_started' = data_started + 1
    /\ data_files' = Sensors /\ data_running' = TRUE
    /\ data_thread_at' = [data_thread_at EXCEPT ![data_started + 1] = "connect"]
    /\ two_threads' = (two_threads \/ Receiving # {})
    /\ UNCHANGED <<tx_vars, link_vars, two_programs, rbuf, count_vars, sensor_cmd, connected,
                   unwritten, rotation_broke, closed_under, reopened>>

\* A file that does not open, or a thread that is not created: the files that did open
\* stay open.
position_sensors_start_fails ==
    /\ sensor_cmd = "idle" /\ ~data_running /\ data_started < sensor_session.starts
    /\ data_started' = data_started + 1
    /\ \E some \in OpenedInOrder \cup {Sensors} : data_files' = data_files \cup some
    /\ reopened' = TRUE
    /\ UNCHANGED <<data_running, sensor_cmd, connected, two_threads, unwritten, rotation_broke,
                   closed_under>>
    /\ UNCHANGED_threads

\* stop_closes_files: the flags first, and because of that no join.
stop_closes_files ==
    /\ sensor_cmd = "idle" /\ data_running
    /\ data_running' = FALSE /\ sensor_cmd' = "stop_kills"
    /\ UNCHANGED <<data_started, data_file_vars, connected, two_threads>>
    /\ UNCHANGED_threads

\* Up to ten seconds later, when the script is dead.
close_data_files ==
    /\ sensor_cmd = "stop_kills" /\ sensor_cmd' = "idle"
    /\ data_files' = {} /\ closed_under' = (closed_under \/ Receiving # {})
    /\ connected' = FALSE
    /\ UNCHANGED <<data_running, data_started, two_threads, unwritten, rotation_broke, reopened>>
    /\ UNCHANGED_threads

-----------------------------------------------------------------------------
(* data_reception_thread *)

UNCHANGED_others == UNCHANGED <<tx_vars, two_programs, start_vars, two_threads>>

\* It connects to a run of the program that listens; the kernel accepts at once.
data_connects(t) ==
    /\ data_thread_at[t] = "connect" /\ data_running
    /\ \E i \in Listening : peer' = [peer EXCEPT ![t] = i]
    /\ sockfd' = [sockfd EXCEPT ![t] = "queued"] /\ wire' = [wire EXCEPT ![t] = <<>>]
    /\ connected' = TRUE
    /\ rbuf' = [rbuf EXCEPT ![t] = <<>>]
    /\ data_thread_at' = [data_thread_at EXCEPT ![t] = "recv"]
    /\ UNCHANGED <<link_errors, data_file_vars, count_vars>> /\ UNCHANGED_others

\* A part of what is under way.
data_receives(t) ==
    /\ data_thread_at[t] = "recv" /\ data_running
    /\ \E n \in 1..Len(wire[t]) :
           /\ rbuf' = [rbuf EXCEPT ![t] = SubSeq(wire[t], 1, n)]
           /\ wire' = [wire EXCEPT ![t] = SubSeq(@, n + 1, Len(@))]
    /\ data_thread_at' = [data_thread_at EXCEPT ![t] = "process"]
    /\ UNCHANGED <<sockfd, peer, link_errors, connected, data_file_vars, count_vars>> /\ UNCHANGED_others

\* The Pi closed the connection, or it broke; what was under way is lost.
data_disconnected(t) ==
    /\ data_thread_at[t] = "recv" /\ data_running
    /\ \/ sockfd[t] = "finished" /\ wire[t] = <<>> /\ UNCHANGED link_errors
       \/ link_errors < sensor_session.errors /\ link_errors' = link_errors + 1
    /\ sockfd' = [sockfd EXCEPT ![t] = "closed"] /\ peer' = [peer EXCEPT ![t] = NoOne]
    /\ wire' = [wire EXCEPT ![t] = <<>>]
    /\ connected' = FALSE
    /\ data_thread_at' = [data_thread_at EXCEPT ![t] = "connect"]
    /\ UNCHANGED <<rbuf, data_file_vars, count_vars>> /\ UNCHANGED_others

\* Every ten minutes all files are closed and opened anew, as far as that goes: the next
\* packet tries again.
rotate_data_files_if_needed ==
    \/ UNCHANGED <<data_files, rotation_broke, reopened>>
    \/ /\ data_files' = Sensors /\ reopened' = (reopened \/ ~data_running)
       /\ UNCHANGED rotation_broke
    \/ /\ data_files' \in OpenedInOrder /\ rotation_broke' = TRUE
       /\ reopened' = (reopened \/ ~data_running)
write_sensor_data ==
    /\ rotate_data_files_if_needed
    /\ unwritten' = unwritten \cup (Sensors \ data_files')
    /\ UNCHANGED closed_under

\* A mutant of "Lost": the largest number is taken for the number of numbers.
Lost_OffByOne(expected, sequence) ==
    IF sequence = expected THEN 0
    ELSE IF sequence > expected THEN sequence - expected
         ELSE SequenceMod - 1 - expected + sequence

\* The gap between two sequence numbers, in unsigned arithmetic.
Lost(expected, sequence) ==
    IF sequence = expected THEN 0
    ELSE IF sequence > expected THEN sequence - expected ELSE SequenceMod - expected + sequence

process_sensor_packet(p) ==
    LET sequence == p.index % SequenceMod
        expected == (last_sequence + 1) % SequenceMod IN
    /\ write_sensor_data
    /\ packets_lost' = packets_lost + (IF packets_received > 0 THEN Lost(expected, sequence) ELSE 0)
    /\ last_sequence' = sequence
    /\ missed' = IF packets_received > 0 /\ p.index > true_last
                 THEN missed + p.index - true_last - 1 ELSE missed
    /\ true_last' = p.index

\* One packet of the buffer, with update_telemetry_data.
data_processes(t) ==
    /\ data_thread_at[t] = "process"
    /\ process_sensor_packet(Head(rbuf[t]))
    /\ latest' = Head(rbuf[t]) /\ packets_received' = packets_received + 1
    /\ rbuf' = [rbuf EXCEPT ![t] = Tail(@)]
    /\ data_thread_at' = [data_thread_at EXCEPT ![t] = IF Len(rbuf[t]) > 1 THEN @ ELSE
                              IF sockfd[t] = "closed" THEN "connect" ELSE "recv"]
    /\ UNCHANGED <<link_vars, connected>> /\ UNCHANGED_others

data_reception_thread_ends(t) ==
    /\ data_thread_at[t] \in {"connect", "recv"} /\ ~data_running
    /\ data_thread_at' = [data_thread_at EXCEPT ![t] = "ended"]
    /\ sockfd' = [sockfd EXCEPT ![t] = "closed"] /\ peer' = [peer EXCEPT ![t] = NoOne]
    /\ wire' = [wire EXCEPT ![t] = <<>>]
    /\ UNCHANGED <<rbuf, link_errors, connected, data_file_vars, count_vars>> /\ UNCHANGED_others

-----------------------------------------------------------------------------
tx_steps(i) == \/ tx_sets_up(i) \/ send_binary_packet(i) \/ tx_session_ends(i)
               \/ \E t \in DataThread : tx_accepts(i, t)
data_thread_steps(t) == \/ data_connects(t) \/ data_receives(t) \/ data_disconnected(t)
                        \/ data_processes(t) \/ data_reception_thread_ends(t)
SensorStep ==
    \/ \E i \in Tx : tx_starts(i) \/ tx_steps(i)
    \/ signal_handler
    \/ position_sensors_start \/ position_sensors_start_fails
    \/ stop_closes_files \/ close_data_files
    \/ \E t \in DataThread : data_thread_steps(t)
SensorNext == SensorStep /\ UNCHANGED sensor_session

\* Both programs run, and a stop reaches its end; commands, the script and errors are free.
SensorFair ==
    /\ \A i \in Tx : WF_sensor_moves(tx_steps(i))
    /\ \A t \in DataThread : WF_sensor_moves(data_thread_steps(t))
    /\ WF_sensor_moves(close_data_files)
SensorSpec == SensorInit /\ [][SensorNext]_sensor_vars /\ SensorFair

-----------------------------------------------------------------------------
\* packets_lost counts the packets between two received ones, up to the wrap of the
\* sequence number: over broken connections, as long as one run of the Pi's program
\* sends and one data thread receives.
LossIsCounted ==
    ~two_programs /\ ~two_threads => packets_lost % SequenceMod = missed % SequenceMod

\* Each packet received is in the files of all sensors, unless a rotation could not open
\* them all, a start could not, or a stop closed them while a data thread still received.
FilesTakeAll == unwritten # {} => rotation_broke \/ closed_under

\* After a stop no file is open, unless a thread that was still receiving rotated them
\* after the stop, or a start failed half way.
FilesAreShut ==
    sensor_cmd = "idle" /\ ~data_running /\ ~reopened => data_files = {}

\* A stopped receiver ends; without a join that may be after the next start, which then
\* has two threads for good.
ReceiverStays == ~data_running /\ Receiving # {}
ReceiverEnds == ReceiverStays ~> ~ReceiverStays

\* While the receiver runs and a run of the Pi's program that was not told to end listens,
\* packets come, or a connection breaks: also when a program that was told to end, but
\* still sits in accept, takes the connection first.
Flowing == \E t \in DataThread : data_thread_at[t] = "process"
NothingFlows ==
    /\ data_running /\ ~Flowing /\ \E i \in Listening : tx_keep_running[i]
    /\ ~\E i \in Tx : tx[i] = "stream" /\ packet_sequence[i] = sensor_session.packets
DataFlows == NothingFlows ~> ~NothingFlows
=============================================================================

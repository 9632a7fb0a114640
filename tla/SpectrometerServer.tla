-------------------------- MODULE SpectrometerServer --------------------------
(* The spectrum server of Saggitarius: a script (rfsoc_spec.py or                *)
(* rfsoc_spec_120khz.py) writes each spectrum to shared memory, the thread of    *)
(* spectrometer_server.c copies it and answers UDP requests with it, and the     *)
(* command thread says which script runs. The flag "ready" is all they share to  *)
(* keep apart.                                                                   *)
EXTENDS Naturals, FiniteSets

CONSTANTS
    Clients,        \* addresses that send requests
    MaxClients,     \* MAX_UDP_CLIENTS, the size of the table of rates
    Period,         \* max_request_rate, in ticks of the clock
    MaxSpectra,     \* bound: spectra in a behaviour
    SpecSessions    \* bounds of a behaviour: [spectra |-> at most MaxSpectra, commands
                    \* |-> starts and stops of scripts, clients |-> who sends requests]

Types == {"STANDARD", "120KHZ"}
NoType == "NONE"
\* The words of the shared memory after the header: the baseline and the data.
Words == {"baseline", "data0", "data1"}
\* A word of spectrum n; n = 0 before there is one.
Word(n, i) == [spectrum |-> n, at |-> i]

ASSUME SpecAssumption ==
    /\ MaxClients \in Nat /\ Period \in Nat /\ MaxSpectra \in Nat
    /\ SpecSessions \subseteq [spectra : 0..MaxSpectra, commands : Nat, clients : SUBSET Clients]

VARIABLES
    spec_session,                       \* the bounds of this behaviour
    shm_ready, shm_type, shm_words,
    script, script_pc, taken,           \* the script that runs, its place, its spectra
    spec_cmd, spec_commands,
    server_running, server_pc, seen,    \* seen: the type the copy was begun with
    current_type, current_ready, current_data,
    spec_overlap,                       \* history: the memory or the type changed under
                                        \* a copy, or a type was set on a spectrum not taken
    client_rates, asked, answered       \* ticks left per known client; the last request
shm_vars == <<shm_ready, shm_type, shm_words>>
script_vars == <<script, script_pc, taken>>
server_vars == <<server_running, server_pc, seen>>
current_vars == <<current_type, current_ready, current_data>>
rate_vars == <<client_rates, asked, answered>>
spec_moves == <<shm_vars, script_vars, spec_cmd, spec_commands, server_vars, current_vars,
                spec_overlap, rate_vars>>
spec_vars == <<spec_session, spec_moves>>

Known == DOMAIN client_rates

SpecTypeOK ==
    /\ spec_session \in SpecSessions
    /\ shm_ready \in BOOLEAN /\ shm_type \in Types \cup {NoType}
    /\ shm_words \in [Words -> [spectrum : 0..MaxSpectra, at : 0..2]]
    /\ script \in Types \cup {NoType} /\ taken \in 0..MaxSpectra
    /\ script_pc \in {"acquires", "half", "rest", "done"}
    /\ spec_cmd \in {"idle", "set_type", "set_none", "join"} /\ spec_commands \in 0..spec_session.commands
    /\ server_running \in BOOLEAN /\ seen \in Types \cup {NoType}
    /\ server_pc \in {"looks", "copies", "copying", "copied", "receives", "ended"}
    /\ current_type \in Types \cup {NoType} /\ current_ready \in BOOLEAN
    /\ spec_overlap \in BOOLEAN
    /\ Known \subseteq Clients /\ Cardinality(Known) <= MaxClients
    /\ asked \in Clients \cup {NoType} /\ answered \in Clients \cup {NoType}

\* After spec_server_init and spec_server_start.
SpecInit ==
    /\ spec_session \in SpecSessions
    /\ shm_ready = FALSE /\ shm_type = NoType /\ shm_words = [w \in Words |-> Word(0, 0)]
    /\ script = NoType /\ script_pc = "acquires" /\ taken = 0
    /\ spec_cmd = "idle" /\ spec_commands = 0
    /\ server_running = TRUE /\ server_pc = "looks" /\ seen = NoType
    /\ current_type = NoType /\ current_ready = FALSE
    /\ current_data = <<Word(0, 0), Word(0, 0)>>
    /\ spec_overlap = FALSE
    /\ client_rates = <<>> /\ asked = NoType /\ answered = NoType

CopyUnderWay == server_pc \in {"copies", "copying", "copied"}

-----------------------------------------------------------------------------
(* The scripts. *)

\* A mutant of "acquires": the memory still says "ready" while it is written.
acquires_StillReady(type) ==
    /\ script = type /\ script_pc = "acquires" /\ taken < spec_session.spectra
    /\ spec_cmd # "set_type"
    /\ taken' = taken + 1 /\ script_pc' = "half"
    /\ shm_type' = type
    /\ spec_overlap' = (spec_overlap \/ CopyUnderWay)
    /\ UNCHANGED <<shm_ready, shm_words, script, spec_cmd, spec_commands, server_vars,
                   current_vars, rate_vars>>

\* A spectrum has been accumulated; "ready" is cleared and the header written.
acquires(type) ==
    /\ script = type /\ script_pc = "acquires" /\ taken < spec_session.spectra
    /\ spec_cmd # "set_type"            \* it takes five seconds to get here
    /\ taken' = taken + 1 /\ script_pc' = "half"
    /\ shm_ready' = FALSE /\ shm_type' = type
    /\ spec_overlap' = (spec_overlap \/ CopyUnderWay)
    /\ UNCHANGED <<shm_words, script, spec_cmd, spec_commands, server_vars, current_vars, rate_vars>>
get_vacc_data == acquires("STANDARD")
get_vacc_data_120khz == acquires("120KHZ")

\* Each script has its idea of where the data begin: offset 24, the baseline of the
\* C structure, or 32, after it.
data_offset_24 == [baseline |-> 0, data0 |-> 1]
data_offset_32 == [baseline |-> 2, data0 |-> 0, data1 |-> 1]
writes(type, layout, words, from, to) ==
    /\ script = type /\ script_pc = from /\ script_pc' = to
    /\ shm_words' = [w \in Words |-> IF w \in words THEN Word(taken, layout[w]) ELSE shm_words[w]]
    /\ spec_overlap' = (spec_overlap \/ CopyUnderWay)
    /\ UNCHANGED <<shm_ready, shm_type, script, taken, spec_cmd, spec_commands, server_vars,
                   current_vars, rate_vars>>
write_to_shared_memory ==
    \/ writes("STANDARD", data_offset_24, {"baseline"}, "half", "rest")
    \/ writes("STANDARD", data_offset_24, {"data0"}, "rest", "done")
write_processed_spectrum_to_shared_memory ==
    \/ writes("120KHZ", data_offset_32, {"baseline", "data0"}, "half", "rest")
    \/ writes("120KHZ", data_offset_32, {"data1"}, "rest", "done")

says_ready ==
    /\ script # NoType /\ script_pc = "done"
    /\ shm_ready' = TRUE /\ script_pc' = "acquires"
    /\ spec_overlap' = (spec_overlap \/ CopyUnderWay)
    /\ UNCHANGED <<shm_type, shm_words, script, taken, spec_cmd, spec_commands, server_vars,
                   current_vars, rate_vars>>

-----------------------------------------------------------------------------
(* The command thread. *)

start_spec(type) ==
    /\ spec_cmd = "idle" /\ server_running /\ script = NoType /\ spec_commands < spec_session.commands
    /\ script' = type /\ script_pc' = "acquires"
    /\ spec_commands' = spec_commands + 1 /\ spec_cmd' = "set_type"
    /\ UNCHANGED <<shm_vars, taken, server_vars, current_vars, spec_overlap, rate_vars>>

\* SIGTERM: the handler closes the memory in the middle of whatever it writes.
stop_spec ==
    /\ spec_cmd = "idle" /\ script # NoType /\ spec_commands < spec_session.commands
    /\ script' = NoType /\ script_pc' = "acquires"
    /\ spec_commands' = spec_commands + 1 /\ spec_cmd' = "set_none"
    /\ UNCHANGED <<shm_vars, taken, server_vars, current_vars, spec_overlap, rate_vars>>

\* Under the mutex, which the thread holds while it copies.
spec_server_set_active_type ==
    /\ spec_cmd \in {"set_type", "set_none"} /\ server_pc # "copying"
    /\ current_type' = script /\ shm_type' = script
    /\ current_ready' = FALSE
    /\ spec_cmd' = "idle"
    /\ spec_overlap' = (spec_overlap \/ CopyUnderWay \/ (shm_ready /\ script # NoType))
    /\ UNCHANGED <<shm_ready, shm_words, script_vars, spec_commands, server_vars, current_data,
                   rate_vars>>

spec_server_stop ==
    /\ spec_cmd = "idle" /\ server_running
    /\ server_running' = FALSE /\ spec_cmd' = "join"
    /\ UNCHANGED <<shm_vars, script_vars, spec_commands, server_pc, seen, current_vars,
                   spec_overlap, rate_vars>>
spec_server_joined ==
    /\ spec_cmd = "join" /\ server_pc = "ended"
    /\ spec_cmd' = "idle"
    /\ UNCHANGED <<shm_vars, script_vars, spec_commands, server_vars, current_vars, spec_overlap,
                   rate_vars>>

-----------------------------------------------------------------------------
(* The thread of the server. *)

looks ==
    /\ server_pc = "looks"
    /\ server_pc' = IF ~server_running THEN "ended"
                    ELSE IF ~shm_ready THEN "receives"
                    ELSE IF shm_type \in Types THEN "copies" ELSE "copied"
    /\ seen' = shm_type
    /\ UNCHANGED <<shm_vars, script_vars, spec_cmd, spec_commands, server_running, current_vars,
                   spec_overlap, rate_vars>>

\* It takes the mutex, sets the type it has seen and copies half of the data ...
copies ==
    /\ server_pc = "copies" /\ server_pc' = "copying"
    /\ current_type' = seen
    /\ current_data' = <<shm_words["data0"], current_data[2]>>
    /\ UNCHANGED <<shm_vars, script_vars, spec_cmd, spec_commands, server_running, seen,
                   current_ready, spec_overlap, rate_vars>>

\* ... then the rest.
process_spectrum ==
    /\ server_pc = "copying" /\ server_pc' = "copied"
    /\ current_data' = <<current_data[1], shm_words["data1"]>>
    /\ current_ready' = TRUE
    /\ UNCHANGED <<shm_vars, script_vars, spec_cmd, spec_commands, server_running, seen,
                   current_type, spec_overlap, rate_vars>>

marks_processed ==
    /\ server_pc = "copied" /\ server_pc' = "receives"
    /\ shm_ready' = FALSE
    /\ UNCHANGED <<shm_type, shm_words, script_vars, spec_cmd, spec_commands, server_running, seen,
                   current_vars, spec_overlap, rate_vars>>

\* No request within a second; or an error of the socket, which ends the thread, or the
\* stop, which closes it.
receives_nothing ==
    /\ server_pc = "receives"
    /\ server_pc' \in {"looks", "ended"}
    /\ UNCHANGED <<shm_vars, script_vars, spec_cmd, spec_commands, server_running, seen,
                   current_vars, spec_overlap, rate_vars>>

\* A client is served if the table has or gets a place for it and its period is over;
\* only then does its period begin again.
check_rate_limit(c) ==
    IF c \in Known THEN client_rates[c] = 0 ELSE Cardinality(Known) < MaxClients
starts_period(c) ==
    client_rates' = [k \in Known \cup {c} |-> IF k = c THEN Period ELSE client_rates[k]]

receives_request(c) ==
    /\ server_pc = "receives" /\ server_running
    /\ server_pc' = "looks" /\ asked' = c
    /\ \/ check_rate_limit(c) /\ starts_period(c) /\ answered' = c
       \/ ~check_rate_limit(c) /\ answered' = NoType /\ UNCHANGED client_rates
    /\ UNCHANGED <<shm_vars, script_vars, spec_cmd, spec_commands, server_running, seen,
                   current_vars, spec_overlap>>

Tick ==
    /\ \E c \in Known : client_rates[c] > 0
    /\ client_rates' = [c \in Known |-> IF client_rates[c] > 0 THEN client_rates[c] - 1 ELSE 0]
    /\ UNCHANGED <<shm_vars, script_vars, spec_cmd, spec_commands, server_vars, current_vars,
                   spec_overlap, asked, answered>>

server_steps ==
    \/ looks \/ copies \/ process_spectrum \/ marks_processed \/ receives_nothing
    \/ \E c \in spec_session.clients : receives_request(c)

SpecStep ==
    \/ get_vacc_data \/ get_vacc_data_120khz
    \/ write_to_shared_memory \/ write_processed_spectrum_to_shared_memory \/ says_ready
    \/ \E type \in Types : start_spec(type)
    \/ stop_spec \/ spec_server_set_active_type \/ spec_server_stop \/ spec_server_joined
    \/ server_steps
    \/ Tick
SpecNext == SpecStep /\ UNCHANGED spec_session

\* The threads run, the clock goes on, and a receive returns within a second.
SpecFair ==
    /\ WF_spec_moves(server_steps) /\ WF_spec_moves(Tick)
    /\ WF_spec_moves(spec_server_set_active_type) /\ WF_spec_moves(spec_server_joined)

SpecServer == SpecInit /\ [][SpecNext]_spec_vars /\ SpecFair

-----------------------------------------------------------------------------
\* What the server holds ready is of the script that runs, after a stop it holds nothing,
\* and a 120 kHz spectrum is one whole spectrum in the order it was written: unless the
\* script or the command thread came between the thread's look at "ready" and the end
\* of its copy, which nothing prevents, or set a type while an old spectrum was still
\* marked ready. Nothing is said of the words of a STANDARD spectrum, which are never
\* whole: see "StandardAsWritten".
ServedIsWhole ==
    current_ready /\ server_pc # "copying" /\ ~spec_overlap =>
        LET n == current_data[1].spectrum IN
        /\ current_type \in Types
        /\ current_type = script \/ spec_cmd = "set_none"
        /\ current_type = "120KHZ" => current_data = <<Word(n, 0), Word(n, 1)>>

\* A client that asks again and again is answered again and again, however fast it asks.
ClientsAnswered ==
    \A c \in Clients :
        ([]<><<receives_request(c)>>_spec_moves /\ [](Cardinality(Clients) <= MaxClients))
            => []<>(answered = c)

\* A spectrum that is ready is taken unless the thread has ended, and the commands return.
SpectrumWaits == (shm_ready /\ server_running /\ server_pc # "ended") \/ spec_cmd # "idle"
SpectraTaken == SpectrumWaits ~> ~SpectrumWaits

\* What rfsoc_spec.py:98 says of its header, that it matches the C structure: the spectrum
\* served is the one it wrote. It does not hold: the data begin one word early, the server
\* loses the first point and takes the last one from an older spectrum.
StandardAsWritten ==
    current_ready /\ current_type = "STANDARD" /\ ~spec_overlap =>
        current_data = <<Word(taken, 0), Word(taken, 1)>>
=============================================================================

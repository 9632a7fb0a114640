------------------------------- MODULE Heaters -------------------------------
(***************************************************************************)
(* The heater control of Saggitarius (heaters.c and the heater commands of  *)
(* cli_Sag.c): the control thread run_heaters_thread, the UDP thread        *)
(* do_server_heaters and the command thread share the array heaters[]       *)
(* without a lock, and only the control thread writes the relays of the     *)
(* LabJack box.  The relays are hardware: they outlive the program.         *)
(*                                                                         *)
(* A step is what a thread does between two accesses another thread can     *)
(* disturb.  Currents are in mA, temperatures in degrees.           *)
(***************************************************************************)
EXTENDS Integers, FiniteSets

CONSTANTS
    NumAuto,        \* heaters 0 .. NumAuto-1 are automatic, NumAuto is the PV heater
    CURRENT_CAP,    \* the limit of the total current
    Draw,           \* the estimated current of one heater (0.8 A)
    Degrees,        \* what an analog input can read as a temperature
    Invalid,        \* no reading
    Measured,       \* what it can read as a current, less the offset: as 10 mV
                    \* are one kelvin, 2 to 4 V over SHUNT_RESISTOR = 200 are
                    \* at most 20 mA
    Commanded,      \* BOUND: the heaters that are sent commands
    Ranges,         \* the pairs of limits that are configured or sent
    DefaultRange,   \* the pair of the configuration
    MaxRefused,     \* BOUND: the relays that refuse at the same time
    Thread          \* BOUND: the control threads that may exist at a time

Automatic   == 0 .. NumAuto - 1
PV     == NumAuto
Heater == Automatic \cup {PV}

ASSUME HeatersAssumption ==
    /\ NumAuto \in Nat /\ CURRENT_CAP \in Nat /\ Draw \in Nat
    /\ Commanded \subseteq 0 .. NumAuto
    /\ Degrees \subseteq Int /\ Invalid \notin Degrees
    /\ Measured \subseteq Int /\ 0 \in Measured
    /\ Ranges \subseteq Int \X Int /\ DefaultRange \in Ranges

VARIABLES
    enabled, state, toggle, temp_diff, current, temp_low, temp_high,    \* heaters[]
    temp,           \* current_temp where temp_valid is true, else Invalid
    relay,          \* what is really on
    refused,        \* history: relays whose last write the LabJack refused
    saved,          \* heater_temp_ranges.conf: the limits, or {} without a file
    heaters_running, shutdown_heaters, heaters_server_running, stop_heaters_server,
    main_heaters_thread,    \* the thread stop_heaters joins
    pc, i, sum, position_difference,    \* the control threads and their locals
    lit, denied,    \* history: heaters switched on, and refused, in this round
    server_at, relay_id,    \* the UDP thread: where it is, for which heater
    cli_at, heater_id, range,   \* the command thread: the same, for which limits
    second          \* history: start_heaters made a thread while there was one

readings == <<temp, temp_diff, current>>
limits   == <<temp_low, temp_high, saved>>
flags    == <<heaters_running, shutdown_heaters, heaters_server_running,
              stop_heaters_server, main_heaters_thread>>
server   == <<server_at, relay_id>>
cli      == <<cli_at, heater_id, range>>
box      == <<relay, refused>>
locals   == <<i, sum, position_difference, lit, denied>>
vars     == <<enabled, state, toggle, box, readings, limits, flags, pc,
              locals, server, cli, second>>

-----------------------------------------------------------------------------
AllOff  == [h \in Heater |-> FALSE]
NoValue == [h \in Heater |-> 0]
AllInvalid == [h \in Automatic |-> Invalid]

Init == /\ enabled = AllOff /\ state = AllOff /\ toggle = AllOff /\ temp = AllInvalid
        /\ temp_diff = NoValue /\ current = NoValue
        /\ temp_low = [h \in Automatic |-> 0] /\ temp_high = [h \in Automatic |-> 0]
        /\ heaters_running = FALSE /\ shutdown_heaters = FALSE
        /\ heaters_server_running = FALSE /\ stop_heaters_server = FALSE
        /\ main_heaters_thread \in Thread
        /\ pc = [t \in Thread |-> "none"] /\ i = [t \in Thread |-> 0]
        /\ sum = [t \in Thread |-> 0]
        /\ position_difference = [t \in Thread |-> [k \in Heater |-> k]]
        /\ lit = [t \in Thread |-> {}] /\ denied = [t \in Thread |-> {}]
        /\ server_at = "none" /\ relay_id = PV
        /\ cli_at = "idle" /\ heater_id = PV /\ range = DefaultRange
        /\ relay = AllOff /\ refused = {} /\ saved = {} /\ second = FALSE

\* The program ends, by exit() in open_labjack, by the command exit or by a
\* crash, and is started again.  The box keeps its relays, the disk its file.
Restart ==
    /\ enabled' = AllOff /\ state' = AllOff /\ toggle' = AllOff /\ temp' = AllInvalid
    /\ temp_diff' = NoValue /\ current' = NoValue
    /\ temp_low' = [h \in Automatic |-> 0] /\ temp_high' = [h \in Automatic |-> 0]
    /\ heaters_running' = FALSE /\ shutdown_heaters' = FALSE
    /\ heaters_server_running' = FALSE /\ stop_heaters_server' = FALSE
    /\ main_heaters_thread' \in Thread
    /\ pc' = [t \in Thread |-> "none"] /\ i' = [t \in Thread |-> 0]
    /\ sum' = [t \in Thread |-> 0]
    /\ position_difference' = [t \in Thread |-> [k \in Heater |-> k]]
    /\ lit' = [t \in Thread |-> {}] /\ denied' = [t \in Thread |-> {}]
    /\ server_at' = "none" /\ relay_id' = PV
    /\ cli_at' = "idle" /\ heater_id' = PV /\ range' = DefaultRange /\ second' = FALSE
    /\ UNCHANGED <<box, saved>>

\* set_relay_state: an error is logged and nobody hears of it.
Write(H, on) ==
    \/ /\ relay' = [h \in Heater |-> IF h \in H THEN on ELSE relay[h]]
       /\ refused' = refused \ H
    \/ \E h \in H : /\ Cardinality(refused \cup {h}) <= MaxRefused
                   /\ relay' = [g \in Heater |-> IF g \in H \ {h} THEN on ELSE relay[g]]
                   /\ refused' = (refused \ H) \cup {h}

\* The file of the limits, written by a command that may fail to open it, and read
\* when a control thread starts; without one the limits of the configuration hold.
save_temp_ranges_to_file(high) ==
    saved' \in {saved, {[h \in Automatic |-> <<temp_low[h], high[h]>>]}}
load_temp_ranges_from_file ==
    IF saved = {} THEN [h \in Automatic |-> DefaultRange] ELSE CHOOSE f \in saved : TRUE

set_toggle(h) == toggle' = [toggle EXCEPT ![h] = TRUE]

\* Either can fail for any heater: its temperature is then invalid, its current taken for 0.
read_temperature == temp' \in [Automatic -> Degrees \cup {Invalid}]
read_relay_current == current' \in [Heater -> Measured]

goto(t, l) == pc' = [pc EXCEPT ![t] = l]

-----------------------------------------------------------------------------
(* The start of run_heaters_thread *)

\* pthread_create of the server; the flag that lets it run comes after it.
CreateServer(t) ==
    /\ pc[t] = "files" /\ goto(t, "server") /\ server_at' = "init" /\ relay_id' = PV
    /\ UNCHANGED <<enabled, state, toggle, box, readings, limits, flags, locals, cli>>

StartFails(t) ==
    /\ pc[t] = "files" /\ goto(t, "none") /\ heaters_running' = FALSE
    /\ UNCHANGED <<enabled, state, toggle, box, readings, limits, shutdown_heaters,
                   heaters_server_running, stop_heaters_server, main_heaters_thread,
                   locals, server, cli>>

ServerRunning(t) ==
    /\ pc[t] = "server" /\ goto(t, "open") /\ heaters_server_running' = TRUE
    /\ UNCHANGED <<enabled, state, toggle, box, readings, limits, heaters_running,
                   shutdown_heaters, stop_heaters_server, main_heaters_thread,
                   locals, server, cli>>

\* initialize_heaters, then load_temp_ranges_from_file
initialize_heaters(t) ==
    /\ pc[t] = "open" /\ goto(t, "eio")
    /\ enabled' = [h \in Heater |-> h \in Automatic]
    /\ state' = AllOff /\ toggle' = AllOff
    /\ temp' = AllInvalid /\ temp_diff' = NoValue /\ current' = NoValue
    /\ temp_low' = [h \in Automatic |-> load_temp_ranges_from_file[h][1]]
    /\ temp_high' = [h \in Automatic |-> load_temp_ranges_from_file[h][2]]
    /\ UNCHANGED <<box, saved, flags, locals, server, cli>>

\* An error sends the thread to cleanup, which writes the relays again.
StartOff(t) ==
    /\ pc[t] = "eio" /\ Write(Heater, FALSE)
    /\ goto(t, IF refused' = {} THEN "calibrate" ELSE "clean")
    /\ UNCHANGED <<enabled, state, toggle, readings, limits, flags, locals, server, cli>>

\* Reading the offsets of the automatic heaters takes about ten seconds, in
\* which nothing says that the heaters are starting.
calibrate_current(t) ==
    /\ pc[t] = "calibrate" /\ goto(t, "top") /\ heaters_running' = TRUE
    /\ UNCHANGED <<enabled, state, toggle, box, readings, limits, shutdown_heaters,
                   heaters_server_running, stop_heaters_server, main_heaters_thread,
                   locals, server, cli>>

-----------------------------------------------------------------------------
(* The control loop of run_heaters_thread *)

\* Mutant: the sum of the last round is carried on.
Top_SumKept(t) ==
    /\ pc[t] = "top"
    /\ goto(t, IF shutdown_heaters THEN "clean" ELSE "read")
    /\ i' = [i EXCEPT ![t] = 0]
    /\ lit' = [lit EXCEPT ![t] = {}] /\ denied' = [denied EXCEPT ![t] = {}]
    /\ UNCHANGED <<sum, enabled, state, toggle, box, readings, limits, flags,
                   position_difference, server, cli>>

Top(t) ==
    /\ pc[t] = "top"
    /\ goto(t, IF shutdown_heaters THEN "clean" ELSE "read")
    /\ i' = [i EXCEPT ![t] = 0] /\ sum' = [sum EXCEPT ![t] = 0]
    /\ lit' = [lit EXCEPT ![t] = {}] /\ denied' = [denied EXCEPT ![t] = {}]
    /\ UNCHANGED <<enabled, state, toggle, box, readings, limits, flags,
                   position_difference, server, cli>>

\* get_total_heater_current, and the sum of the control loop
Total(c) == LET S[h \in Heater] == c[h] + (IF h = 0 THEN 0 ELSE S[h - 1]) IN S[PV]

\* Mutant: the positions are compared, not the differences found there.
bubbleSort_Positions(diff) == [k \in Heater |-> k]

\* bubbleSort: the largest difference first, equal ones in the order they had.
bubbleSort(diff) ==
    CHOOSE p \in [Heater -> Heater] :
        \A a, b \in Heater : a < b =>
            \/ diff[p[a]] > diff[p[b]]
            \/ diff[p[a]] = diff[p[b]] /\ p[a] < p[b]

\* read_temperature and read_relay_current of every heater, each of which can
\* fail; both read the only analog input the heater has.  All heaters are one
\* step: of what another thread writes, reading heater h takes only temp_low[h].
Read(t) ==
    /\ pc[t] = "read" /\ goto(t, "manual")
    /\ read_temperature
    /\ temp_diff' = [h \in Heater |->
          IF h \in Automatic /\ temp'[h] # Invalid /\ temp'[h] < temp_low[h]
          THEN temp_low[h] - temp'[h] ELSE 0]
    /\ read_relay_current
    /\ sum' = [sum EXCEPT ![t] = @ + Total(current')]
    /\ position_difference' = [position_difference EXCEPT ![t] = bubbleSort(temp_diff')]
    /\ UNCHANGED <<enabled, state, toggle, box, limits, flags, i, lit, denied, server, cli>>

NextControl(t) == IF i[t] < NumAuto - 1 THEN i' = [i EXCEPT ![t] = @ + 1] /\ goto(t, "control")
                                        ELSE i' = [i EXCEPT ![t] = 0] /\ goto(t, "top")

\* The manual commands: the flag is taken first, what it asks for after it.
\* Heaters without a flag are passed in the same step: passing one does nothing
\* that another thread sees.
TakeToggle(t) ==
    LET flagged == {h \in Heater : h >= i[t] /\ toggle[h]} IN
    /\ pc[t] = "manual"
    /\ \/ /\ flagged = {}
          /\ i' = [i EXCEPT ![t] = 0] /\ goto(t, "control") /\ UNCHANGED toggle
       \/ \E h \in flagged :
             /\ \A g \in flagged : h <= g
             /\ toggle' = [toggle EXCEPT ![h] = FALSE]
             /\ i' = [i EXCEPT ![t] = h] /\ goto(t, "toggled")
    /\ UNCHANGED <<enabled, state, box, readings, limits, flags, sum, position_difference,
                   lit, denied, server, cli>>

ApplyToggle(t) ==
    LET h == i[t] IN
    /\ pc[t] = "toggled" /\ goto(t, "manual") /\ i' = [i EXCEPT ![t] = @ + 1]
    /\ IF h = PV
       THEN Write({h}, state[h]) /\ UNCHANGED state
       ELSE IF ~enabled[h] /\ state[h]
       THEN Write({h}, FALSE) /\ state' = [state EXCEPT ![h] = FALSE]
       ELSE UNCHANGED <<box, state>>
    /\ UNCHANGED <<enabled, toggle, readings, limits, flags, sum, position_difference,
                   lit, denied, server, cli>>

\* One heater of the automatic control, in the order of need.  Switching on is
\* a step of its own: the tests come before the assignment.
budget(t) == sum[t] + Draw <= CURRENT_CAP

Control(t) ==
    LET h == position_difference[t][i[t]] IN
    /\ pc[t] = "control"
    /\ \/ /\ temp[h] # Invalid /\ enabled[h] /\ temp_diff[h] > 0 /\ ~state[h] /\ budget(t)
          /\ goto(t, "light") /\ UNCHANGED <<i, sum, denied, state, box>>
       \/ /\ temp[h] # Invalid /\ enabled[h] /\ temp_diff[h] > 0 /\ ~state[h] /\ ~budget(t)
          /\ denied' = [denied EXCEPT ![t] = @ \cup {h}]
          /\ NextControl(t) /\ UNCHANGED <<sum, state, box>>
       \/ /\ temp[h] # Invalid /\ enabled[h] /\ temp_diff[h] <= 0
          /\ temp[h] > temp_high[h] /\ state[h]
          /\ state' = [state EXCEPT ![h] = FALSE] /\ Write({h}, FALSE)
          /\ sum' = [sum EXCEPT ![t] = @ - current[h]]
          /\ NextControl(t) /\ UNCHANGED denied
       \/ /\ ~(temp[h] # Invalid /\ enabled[h] /\
               IF temp_diff[h] > 0 THEN ~state[h] ELSE temp[h] > temp_high[h] /\ state[h])
          /\ NextControl(t) /\ UNCHANGED <<sum, denied, state, box>>
    /\ UNCHANGED <<enabled, toggle, readings, limits, flags, position_difference,
                   lit, server, cli>>

SwitchOn(t) ==
    LET h == position_difference[t][i[t]] IN
    /\ pc[t] = "light" /\ NextControl(t)
    /\ state' = [state EXCEPT ![h] = TRUE] /\ Write({h}, TRUE)
    /\ sum' = [sum EXCEPT ![t] = @ + Draw]
    /\ lit' = [lit EXCEPT ![t] = @ \cup {h}]
    /\ UNCHANGED <<enabled, toggle, readings, limits, flags, position_difference,
                   denied, server, cli>>

-----------------------------------------------------------------------------
(* cleanup of run_heaters_thread *)

\* Mutant: only the automatic heaters are switched off.
Cleanup_AutoOnly(t) ==
    /\ pc[t] = "clean"
    /\ goto(t, IF heaters_server_running THEN "join" ELSE "end")
    /\ Write(Automatic, FALSE)
    /\ stop_heaters_server' = (heaters_server_running \/ stop_heaters_server)
    /\ UNCHANGED <<enabled, state, toggle, readings, limits, heaters_running,
                   shutdown_heaters, heaters_server_running, main_heaters_thread,
                   locals, server, cli>>

\* A thread that never opened the box has nothing to switch off.
Cleanup(t) ==
    /\ pc[t] = "clean"
    /\ goto(t, IF heaters_server_running THEN "join" ELSE "end")
    /\ Write(Heater, FALSE)
    /\ stop_heaters_server' = (heaters_server_running \/ stop_heaters_server)
    /\ UNCHANGED <<enabled, state, toggle, readings, limits, heaters_running,
                   shutdown_heaters, heaters_server_running, main_heaters_thread,
                   locals, server, cli>>

\* pthread_join of the server, then the end of the thread.
Ended(t) ==
    /\ pc[t] = "end" \/ (pc[t] = "join" /\ server_at = "none")
    /\ goto(t, "none") /\ shutdown_heaters' = FALSE /\ heaters_running' = FALSE
    /\ UNCHANGED <<enabled, state, toggle, box, readings, limits, heaters_server_running,
                   stop_heaters_server, main_heaters_thread, locals, server, cli>>

run_heaters_thread(t) ==
    /\ \/ CreateServer(t) \/ StartFails(t) \/ ServerRunning(t) \/ initialize_heaters(t)
       \/ StartOff(t) \/ calibrate_current(t)
       \/ Top(t) \/ Read(t) \/ TakeToggle(t) \/ ApplyToggle(t) \/ Control(t) \/ SwitchOn(t)
       \/ Cleanup(t) \/ Ended(t)
    /\ UNCHANGED second

-----------------------------------------------------------------------------
(* do_server_heaters *)

\* A server that looks before the flag is set ends, and resets no flag.
ServerStart ==
    /\ server_at = "init"
    /\ server_at' = (IF heaters_server_running THEN "loop" ELSE "none") /\ UNCHANGED relay_id
    /\ UNCHANGED <<enabled, state, toggle, box, readings, limits, flags, pc, locals, cli>>

\* Mutant: without a timeout the server sees the flag after a request only.
ServerEnd_AfterRequest ==
    /\ server_at = "again" /\ stop_heaters_server
    /\ server_at' = "none" /\ UNCHANGED relay_id
    /\ heaters_server_running' = FALSE /\ stop_heaters_server' = FALSE
    /\ UNCHANGED <<enabled, state, toggle, box, readings, limits, heaters_running,
                   shutdown_heaters, main_heaters_thread, pc, locals, cli>>

\* Every receive ends in time, with a request or without one.
ServerEnd ==
    /\ server_at = "loop" /\ stop_heaters_server
    /\ server_at' = "none" /\ UNCHANGED relay_id
    /\ heaters_server_running' = FALSE /\ stop_heaters_server' = FALSE
    /\ UNCHANGED <<enabled, state, toggle, box, readings, limits, heaters_running,
                   shutdown_heaters, main_heaters_thread, pc, locals, cli>>

\* A request flips enabled of an automatic heater and state of the PV heater.
ServerRequest(h) ==
    /\ server_at = "loop" /\ ~stop_heaters_server
    /\ IF h \in Automatic
       THEN /\ enabled' = [enabled EXCEPT ![h] = ~@] /\ UNCHANGED state
            /\ server_at' = "again" /\ relay_id' = h
       ELSE /\ state' = [state EXCEPT ![h] = ~@] /\ UNCHANGED enabled
            /\ server_at' = "flag" /\ relay_id' = h
    /\ UNCHANGED <<toggle, box, readings, limits, flags, pc, locals, cli>>

\* The toggle flag is set once for an automatic heater, twice for PV.
ServerToggle ==
    /\ server_at \in {"flag", "again"}
    /\ set_toggle(relay_id)
    /\ IF server_at = "flag" THEN server_at' = "again" /\ UNCHANGED relay_id
                            ELSE server_at' = "loop" /\ relay_id' = PV
    /\ UNCHANGED <<enabled, state, box, readings, limits, flags, pc, locals, cli>>

do_server_heaters ==
    /\ ServerStart \/ ServerEnd \/ ServerToggle \/ \E h \in Commanded : ServerRequest(h)
    /\ UNCHANGED second

-----------------------------------------------------------------------------
(* The command thread: exec_command of cli_Sag.c *)

\* Nothing tells that a thread is starting: a second one can be created.
start_heaters ==
    /\ cli_at = "idle" /\ ~heaters_running
    /\ \E t \in Thread : pc[t] = "none" /\ goto(t, "files") /\ main_heaters_thread' = t
    /\ second' = (second \/ \E t \in Thread : pc[t] # "none")
    /\ UNCHANGED <<enabled, state, toggle, box, readings, limits, heaters_running,
                   shutdown_heaters, heaters_server_running, stop_heaters_server,
                   locals, server, cli>>

\* The command exit does the same and then ends the program (Restart).
stop_heaters ==
    /\ cli_at = "idle" /\ heaters_running
    /\ shutdown_heaters' = TRUE /\ cli_at' = "join" /\ UNCHANGED <<heater_id, range>>
    /\ UNCHANGED <<enabled, state, toggle, box, readings, limits, heaters_running,
                   heaters_server_running, stop_heaters_server, main_heaters_thread,
                   pc, locals, server>>

\* *_heater_on and *_heater_off: set_heater_auto_mode
set_heater_auto_mode(h, on) ==
    /\ cli_at = "idle" /\ heaters_running
    /\ enabled' = [enabled EXCEPT ![h] = on]
    /\ IF on THEN UNCHANGED cli
             ELSE cli_at' = "off" /\ heater_id' = h /\ UNCHANGED range
    /\ UNCHANGED <<state, toggle, box, readings, limits, flags, pc, locals, server>>

\* Mutant: the flag is set before the state it announces.
set_pv_heater_manual_FlagFirst(on) ==
    /\ cli_at = "idle" /\ heaters_running
    /\ \/ toggle' = [toggle EXCEPT ![PV] = TRUE] /\ UNCHANGED state
       \/ state' = [state EXCEPT ![PV] = on] /\ UNCHANGED toggle
    /\ UNCHANGED <<enabled, box, readings, limits, flags, pc, locals, server, cli>>

\* pv_heater_on and pv_heater_off: set_pv_heater_manual.  A request over the
\* limit is refused and changes nothing.
set_pv_heater_manual(on) ==
    /\ cli_at = "idle" /\ heaters_running
    /\ on => Total(current) + Draw <= CURRENT_CAP
    /\ state' = [state EXCEPT ![PV] = on]
    /\ cli_at' = "toggle" /\ heater_id' = PV /\ UNCHANGED range
    /\ UNCHANGED <<enabled, toggle, box, readings, limits, flags, pc, locals, server>>

\* set_*_temp: set_heater_temp_range, which checks neither limit
set_heater_temp_range(h, r) ==
    /\ cli_at = "idle" /\ heaters_running
    /\ temp_low' = [temp_low EXCEPT ![h] = r[1]]
    /\ cli_at' = "high" /\ heater_id' = h /\ range' = r
    /\ UNCHANGED <<enabled, state, toggle, box, readings, temp_high, saved, flags, pc,
                   locals, server>>

\* The rest of a command.
Done  == cli_at' = "idle" /\ heater_id' = PV /\ range' = DefaultRange
Go(l) == cli_at' = l /\ UNCHANGED <<heater_id, range>>

CliStep ==
    \/ /\ cli_at = "off" /\ IF state[heater_id] THEN Go("clear") ELSE Done
       /\ UNCHANGED <<state, toggle, temp_high, saved>>
    \/ /\ cli_at = "clear" /\ state' = [state EXCEPT ![heater_id] = FALSE] /\ Go("toggle")
       /\ UNCHANGED <<toggle, temp_high, saved>>
    \/ /\ cli_at = "toggle" /\ set_toggle(heater_id) /\ Done
       /\ UNCHANGED <<state, temp_high, saved>>
    \/ /\ cli_at = "high" /\ temp_high' = [temp_high EXCEPT ![heater_id] = range[2]]
       /\ save_temp_ranges_to_file(temp_high') /\ Done
       /\ UNCHANGED <<state, toggle>>
    \/ /\ cli_at = "join" /\ pc[main_heaters_thread] = "none" /\ Go("joined")
       /\ UNCHANGED <<state, toggle, temp_high, saved>>
    \/ /\ cli_at = "joined" /\ Done /\ UNCHANGED <<state, toggle, temp_high, saved>>

Rest == /\ CliStep
        /\ UNCHANGED <<enabled, box, readings, temp_low, flags, pc, locals, server>>

exec_command ==
    \/ start_heaters
    \/ /\ \/ stop_heaters \/ Rest
          \/ \E h \in Automatic \cap Commanded :
                       \/ \E on \in BOOLEAN : set_heater_auto_mode(h, on)
                       \/ \E r \in Ranges : set_heater_temp_range(h, r)
          \/ \E on \in BOOLEAN : set_pv_heater_manual(on)
       /\ UNCHANGED second

-----------------------------------------------------------------------------
Next == Restart \/ do_server_heaters \/ exec_command
        \/ \E t \in Thread : run_heaters_thread(t)

Spec == Init /\ [][Next]_vars

\* The threads run, and a command that is under way goes on.  Requests and
\* restarts are never owed.
Fairness == /\ \A t \in Thread : WF_vars(run_heaters_thread(t))
            /\ WF_vars((ServerStart \/ ServerEnd \/ ServerToggle) /\ UNCHANGED second)
            /\ WF_vars(Rest /\ UNCHANGED second)

FairSpec == Spec /\ Fairness

-----------------------------------------------------------------------------
(* Properties *)

\* Types.  The control loop takes the first four places of the sorted heaters and
\* relies on the PV heater, which has no thermostat, to be in the last one.
TypeOK ==
    /\ {enabled, state, toggle, relay} \subseteq [Heater -> BOOLEAN]
    /\ refused \subseteq Heater /\ relay_id \in Heater /\ heater_id \in Heater
    /\ main_heaters_thread \in Thread
    /\ {heaters_running, shutdown_heaters, heaters_server_running, stop_heaters_server}
           \subseteq BOOLEAN
    /\ second \in BOOLEAN
    /\ temp \in [Automatic -> Degrees \cup {Invalid}] /\ temp_diff \in [Heater -> Nat]
    /\ current \in [Heater -> Measured]
    /\ \A t \in Thread :
          /\ i[t] \in 0 .. NumAuto + 1 /\ sum[t] \in Int
          /\ lit[t] \cup denied[t] \subseteq Automatic
          /\ \A h \in Automatic : position_difference[t][h] \in Automatic
          /\ position_difference[t][PV] = PV

\* The coldest heater comes first: one that the limit kept off in a round was
\* not colder than one that was switched on in the same round (bubbleSort and
\* the control loop). Like the next two it needs one control thread at a time: a
\* second start_heaters while a first one calibrates makes another.
ColdestFirst ==
    ~second => \A t \in Thread : \A g \in lit[t], h \in denied[t] :
                   temp_diff[g] >= temp_diff[h]

Starting == {"files", "server", "open", "eio", "calibrate"}
Loop     == {"top", "read", "manual", "toggled", "control", "light"}
Ending   == {"clean", "join", "end"}

Pending == \/ toggle[PV]
           \/ cli_at = "toggle" /\ heater_id = PV
           \/ server_at \in {"flag", "again"} /\ relay_id = PV

AllSwitchedOff == \A h \in Heater \ refused : ~relay[h]

\* While the loop runs, the PV relay is what the command thread and the server
\* last asked for, or the request is still on its way to the control thread: the
\* flag is set, about to be set, or taken and about to be acted upon.
PvFollows ==
    ~second => \A t \in Thread :
        (pc[t] \in Loop /\ ~(state[PV] <=> relay[PV]) /\ PV \notin refused) =>
            Pending \/ (pc[t] = "toggled" /\ i[t] = PV)

\* stop_heaters goes on to cut the power of the box only when every heater is
\* off, unless the LabJack refused to switch it.
OffWhenStopped == cli_at = "joined" /\ ~second => AllSwitchedOff

\* An automatic heater that is cold, enabled and readable from some time on, with no
\* more commands, is on in the end, if the heaters that are on besides leave it room
\* under the limit. (The code asks for less room: see the README on the limit.)
HasRoom(h) == Total([g \in Heater |-> IF relay[g] \/ g = h THEN Draw ELSE 0]) <= CURRENT_CAP
ColdHeated ==
    \A h \in Automatic :
        <>[](heaters_running /\ cli_at = "idle" /\ server_at = "loop" /\ refused = {}
             /\ enabled[h] /\ temp_diff[h] > 0 /\ HasRoom(h))
        => <>[](relay[h])

\* A stop ends: the control thread and, through it, the server are joined.
StopEnds == (cli_at = "join") ~> (cli_at # "join")

\* "false to disable and turn OFF": a heater that is taken out of the automatic
\* control is off in the end, or it is put back or the control ends.
OffTurnsOff ==
    \A h \in Automatic : (heaters_running /\ ~enabled[h])
                    ~> (~relay[h] \/ enabled[h] \/ ~heaters_running)
=============================================================================

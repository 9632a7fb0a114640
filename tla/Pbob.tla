-------------------------------- MODULE Pbob --------------------------------
(***************************************************************************)
(* The power boxes of Ophiuchus (Oph/src/pbob.c).                          *)
(*                                                                         *)
(* A PBoB is a LabJack that drives relays.  The rest of the program never   *)
(* switches a relay itself: set_toggle raises a flag of the relay, and the  *)
(* thread run_pbob_thread, which walks over every relay of every box about  *)
(* five times a second, flips the relays whose flag is up.  set_toggle is   *)
(* called by the main thread, which executes ground commands, and by the    *)
(* thread do_server_pbob, which serves toggle requests that other computers *)
(* send over UDP.  The relay table has no lock.                             *)
(*                                                                         *)
(* One action stands for one step that another thread can see: a store to   *)
(* a field of the relay table or a call to the LabJack library.             *)
(***************************************************************************)
EXTENDS Integers

CONSTANTS NumPbob,      \* NUM_PBOB, boxes are numbered from 0
          MaxRelays,    \* NUM_RELAYS, the size of the array of relays
          NumRelays,    \* config.power.pbob<i>.num_relays
          Enabled       \* the boxes with config.power.pbob<i>.enabled

ASSUME PbobAssumption ==
    /\ NumPbob \in Nat \ {0}
    /\ MaxRelays \in Nat
    /\ NumRelays \in [0..(NumPbob-1) -> 0..MaxRelays]
    /\ Enabled \subseteq 0..(NumPbob-1)

Box == 0..(NumPbob-1)

\* A box that is disabled keeps num_relays = 0, so it has no relay.
Relay == {r \in Box \X (0..(MaxRelays-1)) :
             r[1] \in Enabled /\ r[2] < NumRelays[r[1]]}

VARIABLES
    params,     \* boxes whose num_relays and id initialize_parameters has set
    cleared,    \* boxes whose relay entries run_pbob has reset
    link,       \* boxes with an open LabJack handle
    toggle,     \* controller[i].relays[j].toggle
    state,      \* controller[i].relays[j].state, TRUE is ON
    hw,         \* what the relay really does, TRUE is powered
    i, j,       \* the loop variables of run_pbob_thread
    pc,         \* where run_pbob_thread is
    pbob_ready, shutdown_pbob, stop_pbob_server,
    server,     \* where do_server_pbob is
    owed,       \* history: relays asked for since they were last flipped
    suspect     \* history: relays whose last write the LabJack library refused

pollVars   == <<params, cleared, link, i, j, pc, pbob_ready>>
powerVars  == <<state, hw, suspect>>
serverVars == <<server, stop_pbob_server>>
vars == <<params, cleared, link, toggle, state, hw, i, j, pc, pbob_ready,
          shutdown_pbob, stop_pbob_server, server, owed, suspect>>

-----------------------------------------------------------------------------
at == <<i, j>>      \* the relay run_pbob_thread is working on

\* pbob.c all_relays_off: a box without relays counts as off.
all_relays_off == \A r \in Relay : ~state[r]

\* set_toggle finds the entry by its id and relay_id.  Before run_pbob has
\* reset a box every relay_id of it is still 0, so only relay 0 is found.
Found(r) == /\ r \in Relay
            /\ r[1] \in params
            /\ r[1] \in cleared \/ r[2] = 0

set_toggle(r) == /\ Found(r)
                 /\ toggle' = [toggle EXCEPT ![r] = TRUE]
                 /\ owed' = owed \cup {r}

-----------------------------------------------------------------------------
(* run_pbob: one box after the other *)

Init == /\ params = {} /\ cleared = {} /\ link = {}
        /\ toggle = [r \in Relay |-> FALSE]
        /\ state = [r \in Relay |-> FALSE]
        /\ hw \in [Relay -> BOOLEAN]    \* relays keep what an earlier run left
        /\ i = 0 /\ j = 0 /\ pc = "params"
        /\ pbob_ready = FALSE /\ shutdown_pbob = FALSE
        /\ stop_pbob_server = FALSE /\ server = "starting"
        /\ owed = {} /\ suspect = Relay

\* Mutant: the loop over the boxes runs once too often.
NextBox_OffByOne == /\ i' = i + 1 /\ j' = 0
                    /\ pc' = IF i + 1 <= NumPbob THEN "params" ELSE "calibrate"

\* On to the next box, or, after the last one, on to the polling loop.
NextBox == /\ i' = i + 1 /\ j' = 0
           /\ pc' = IF i + 1 < NumPbob THEN "params" ELSE "calibrate"

\* A disabled box is skipped.  For an enabled one num_relays and id are set.
initialize_parameters ==
    /\ pc = "params"
    /\ IF i \in Enabled
       THEN params' = params \cup {i} /\ pc' = "reset" /\ UNCHANGED <<i, j>>
       ELSE NextBox /\ UNCHANGED params
    /\ UNCHANGED <<cleared, link, toggle, pbob_ready, shutdown_pbob, owed>>
    /\ UNCHANGED powerVars /\ UNCHANGED serverVars

\* run_pbob resets the entries: a request that was accepted in between is gone.
reset_relays ==
    /\ pc = "reset"
    /\ cleared' = cleared \cup {i}
    /\ toggle' = [r \in Relay |-> r[1] # i /\ toggle[r]]
    /\ state' = [r \in Relay |-> r[1] # i /\ state[r]]
    /\ pc' = "open"
    /\ UNCHANGED <<params, link, hw, i, j, pbob_ready, shutdown_pbob, owed, suspect>>
    /\ UNCHANGED serverVars

\* A box whose LabJack does not answer stays enabled, without a handle.
open_labjack ==
    /\ pc = "open"
    /\ \/ link' = link \cup {i} /\ pc' = "init" /\ UNCHANGED <<i, j>>
       \/ UNCHANGED link /\ NextBox
    /\ UNCHANGED <<params, cleared, toggle, pbob_ready, shutdown_pbob, owed>>
    /\ UNCHANGED powerVars /\ UNCHANGED serverVars

\* Relay j is made an output and switched off.  The first error ends the box;
\* the write that reports an error may still have reached the relay.
initialize_relays ==
    /\ pc = "init"
    /\ \/ /\ j < NumRelays[i]
          /\ hw' = [hw EXCEPT ![at] = FALSE]
          /\ state' = [state EXCEPT ![at] = FALSE]
          /\ suspect' = suspect \ {at}
          /\ j' = j + 1 /\ UNCHANGED <<i, pc>>
       \/ /\ j < NumRelays[i]
          /\ \E v \in {hw[at], FALSE} : hw' = [hw EXCEPT ![at] = v]
          /\ UNCHANGED <<state, suspect>>
          /\ NextBox
       \/ /\ j >= NumRelays[i]
          /\ NextBox /\ UNCHANGED powerVars
    /\ UNCHANGED <<params, cleared, link, toggle, pbob_ready, shutdown_pbob, owed>>
    /\ UNCHANGED serverVars

calibrate_current ==
    /\ pc = "calibrate"
    /\ pbob_ready' = TRUE
    /\ i' = 0 /\ j' = 0 /\ pc' = "scan"
    /\ UNCHANGED <<params, cleared, link, toggle, shutdown_pbob, owed>>
    /\ UNCHANGED powerVars /\ UNCHANGED serverVars

-----------------------------------------------------------------------------
(* run_pbob_thread: the polling loop *)

\* The for loops step to the next relay, to the next box, or to the end.
ScanStep ==
    /\ pc = "scan"
    /\ \/ i < NumPbob /\ at \notin Relay /\ i' = i + 1 /\ j' = 0 /\ UNCHANGED pc
       \/ at \in Relay /\ ~toggle[at] /\ j' = j + 1 /\ UNCHANGED <<i, pc>>
       \/ at \in Relay /\ toggle[at] /\ pc' = "flip" /\ UNCHANGED <<i, j>>
       \/ i >= NumPbob /\ pc' = "check" /\ UNCHANGED <<i, j>>
    /\ UNCHANGED <<params, cleared, link, toggle, pbob_ready, shutdown_pbob, owed>>
    /\ UNCHANGED powerVars /\ UNCHANGED serverVars

\* toggle_relay, first half: the record is flipped before the relay is.
FlipRecord ==
    /\ pc = "flip"
    /\ state' = [state EXCEPT ![at] = ~@]
    /\ owed' = owed \ {at}
    /\ pc' = "write"
    /\ UNCHANGED <<params, cleared, link, toggle, hw, i, j, pbob_ready,
                   shutdown_pbob, suspect>>
    /\ UNCHANGED serverVars

\* Mutant: the relays are taken to be active high.
WriteOk_WrongPolarity ==
    /\ pc = "write" /\ i \in link
    /\ hw' = [hw EXCEPT ![at] = ~state[at]]
    /\ suspect' = suspect \ {at}
    /\ pc' = "clear"
    /\ UNCHANGED <<params, cleared, link, toggle, state, i, j, pbob_ready,
                   shutdown_pbob, owed>>
    /\ UNCHANGED serverVars

\* toggle_relay, second half, LJM_eWriteAddress succeeds ...
WriteOk ==
    /\ pc = "write" /\ i \in link
    /\ hw' = [hw EXCEPT ![at] = state[at]]
    /\ suspect' = suspect \ {at}
    /\ pc' = "clear"
    /\ UNCHANGED <<params, cleared, link, toggle, state, i, j, pbob_ready,
                   shutdown_pbob, owed>>
    /\ UNCHANGED serverVars

\* ... or reports an error and the record is flipped back.  An error on an
\* open link may be a lost answer to a write that took effect.
WriteError ==
    /\ pc = "write"
    /\ \E v \in {hw[at]} \cup (IF i \in link THEN {state[at]} ELSE {}) :
           hw' = [hw EXCEPT ![at] = v]
    /\ state' = [state EXCEPT ![at] = ~@]
    /\ suspect' = suspect \cup {at}
    /\ pc' = "clear"
    /\ UNCHANGED <<params, cleared, link, toggle, i, j, pbob_ready,
                   shutdown_pbob, owed>>
    /\ UNCHANGED serverVars

\* Mutant: the flag stays up after the flip.
ClearToggle_Forgotten ==
    /\ pc = "clear"
    /\ j' = j + 1 /\ pc' = "scan"
    /\ UNCHANGED <<params, cleared, link, toggle, i, pbob_ready,
                   shutdown_pbob, owed>>
    /\ UNCHANGED powerVars /\ UNCHANGED serverVars

\* The flag is dropped after the write, whatever the write returned.
ClearToggle ==
    /\ pc = "clear"
    /\ toggle' = [toggle EXCEPT ![at] = FALSE]
    /\ j' = j + 1 /\ pc' = "scan"
    /\ UNCHANGED <<params, cleared, link, state, hw, i, pbob_ready,
                   shutdown_pbob, owed, suspect>>
    /\ UNCHANGED serverVars

\* Mutant: the relays that are still on are not waited for.
CheckShutdown_NoWait ==
    /\ pc = "check"
    /\ IF shutdown_pbob
       THEN pc' = "close" /\ UNCHANGED <<i, j>>
       ELSE pc' = "scan" /\ i' = 0 /\ j' = 0
    /\ UNCHANGED <<params, cleared, link, toggle, pbob_ready, shutdown_pbob, owed>>
    /\ UNCHANGED powerVars /\ UNCHANGED serverVars

\* Mutant: the loop over the boxes is not started again.
CheckShutdown_NoRestart ==
    /\ pc = "check"
    /\ pc' = IF shutdown_pbob /\ all_relays_off THEN "close" ELSE "scan"
    /\ UNCHANGED <<params, cleared, link, toggle, i, j, pbob_ready, shutdown_pbob, owed>>
    /\ UNCHANGED powerVars /\ UNCHANGED serverVars

\* The loop ends only when shutdown was asked for and every relay is off.
CheckShutdown ==
    /\ pc = "check"
    /\ IF shutdown_pbob /\ all_relays_off
       THEN pc' = "close" /\ UNCHANGED <<i, j>>
       ELSE pc' = "scan" /\ i' = 0 /\ j' = 0
    /\ UNCHANGED <<params, cleared, link, toggle, pbob_ready, shutdown_pbob, owed>>
    /\ UNCHANGED powerVars /\ UNCHANGED serverVars

\* close_labjack on every enabled box, then the server thread is told to stop.
CloseLabjacks ==
    /\ pc = "close"
    /\ link' = {} /\ stop_pbob_server' = TRUE /\ pc' = "join"
    /\ UNCHANGED <<params, cleared, toggle, i, j, pbob_ready, shutdown_pbob,
                   server, owed>>
    /\ UNCHANGED powerVars

JoinServer ==
    /\ pc = "join" /\ server = "exited"
    /\ pc' = "done"
    /\ UNCHANGED <<params, cleared, link, toggle, i, j, pbob_ready, shutdown_pbob, owed>>
    /\ UNCHANGED powerVars /\ UNCHANGED serverVars

-----------------------------------------------------------------------------
(* do_server_pbob: the thread that serves UDP requests *)

\* The socket is bound, or the thread ends at once.
ServerStart ==
    /\ server = "starting"
    /\ server' \in {"listening", "exited"}
    /\ UNCHANGED <<toggle, shutdown_pbob, stop_pbob_server, owed>>
    /\ UNCHANGED pollVars /\ UNCHANGED powerVars

\* A well-formed request for a relay that set_toggle finds; the sender gets 1.
\* The loop condition is tested before the receive that may last the timeout,
\* so a request can still be taken after stop_pbob_server was raised.
ServeToggle(r) ==
    /\ server = "receiving"
    /\ set_toggle(r)
    /\ server' = "listening"
    /\ UNCHANGED <<shutdown_pbob, stop_pbob_server>>
    /\ UNCHANGED pollVars /\ UNCHANGED powerVars

\* Timeout, malformed request, or a relay that is not found: no answer.
ServeNothing ==
    /\ server = "receiving"
    /\ server' = "listening"
    /\ UNCHANGED <<toggle, shutdown_pbob, stop_pbob_server, owed>>
    /\ UNCHANGED pollVars /\ UNCHANGED powerVars

\* while(!stop_pbob_server): receive once more, or close the socket and return.
ServerLoop ==
    /\ server = "listening"
    /\ IF stop_pbob_server
       THEN server' = "exited" /\ stop_pbob_server' = FALSE
       ELSE server' = "receiving" /\ UNCHANGED stop_pbob_server
    /\ UNCHANGED <<toggle, shutdown_pbob, owed>>
    /\ UNCHANGED pollVars /\ UNCHANGED powerVars

-----------------------------------------------------------------------------
(* The main thread: it waits for pbob_ready, then executes commands, and asks *)
(* for the shutdown as its last act.                                         *)

CommandToggle(r) ==
    /\ pbob_ready /\ ~shutdown_pbob
    /\ set_toggle(r)
    /\ UNCHANGED shutdown_pbob
    /\ UNCHANGED pollVars /\ UNCHANGED powerVars /\ UNCHANGED serverVars

RequestShutdown ==
    /\ pbob_ready /\ ~shutdown_pbob
    /\ shutdown_pbob' = TRUE
    /\ UNCHANGED <<toggle, owed>>
    /\ UNCHANGED pollVars /\ UNCHANGED powerVars /\ UNCHANGED serverVars

-----------------------------------------------------------------------------
Poll == \/ initialize_parameters \/ reset_relays \/ open_labjack
        \/ initialize_relays \/ calibrate_current
        \/ ScanStep \/ FlipRecord \/ WriteOk \/ WriteError \/ ClearToggle
        \/ CheckShutdown \/ CloseLabjacks \/ JoinServer

Serve == \/ ServerStart \/ ServerLoop \/ ServeNothing
         \/ \E r \in Relay : ServeToggle(r)

Terminated == pc = "done" /\ UNCHANGED vars

Next == \/ Poll \/ Serve
        \/ \E r \in Relay : CommandToggle(r)
        \/ RequestShutdown
        \/ Terminated

Spec == Init /\ [][Next]_vars

\* Both threads are scheduled; nobody has to send requests or to shut down.
\* A receive returns at its timeout at the latest, so Serve is fair as well.
FairSpec == Spec /\ WF_vars(Poll) /\ WF_vars(Serve)

-----------------------------------------------------------------------------
(* Properties *)

\* The type invariant; the loop variables stay within the arrays they index.
TypeOK ==
    /\ params \subseteq Box /\ cleared \subseteq Box /\ link \subseteq Box
    /\ toggle \in [Relay -> BOOLEAN]
    /\ state \in [Relay -> BOOLEAN]
    /\ hw \in [Relay -> BOOLEAN]
    /\ i \in 0..NumPbob /\ j \in 0..MaxRelays
    /\ pc \in {"params", "reset", "open", "init", "calibrate", "scan", "flip",
               "write", "clear", "check", "close", "join", "done"}
    /\ pbob_ready \in BOOLEAN /\ shutdown_pbob \in BOOLEAN
    /\ stop_pbob_server \in BOOLEAN
    /\ server \in {"starting", "listening", "receiving", "exited"}
    /\ owed \subseteq Relay /\ suspect \subseteq Relay

\* toggle_relay runs only for a relay somebody asked for since its last flip:
\* one call of set_toggle never flips a relay twice, however the polling
\* thread, the server thread and the commands interleave.
NoSpuriousFlip == pc = "flip" => at \in owed

\* The relay record that telemetry and all_relays_off read is what the relay
\* does, for every relay whose last write the LabJack acknowledged; the only
\* exception is the relay whose write is under way.
RecordMatchesRelay ==
    \A r \in Relay \ suspect : (pc = "write" /\ r = at) \/ hw[r] = state[r]

\* Once run_pbob_thread gave up its LabJacks, no relay is left powered except
\* one whose last write was refused, and none is powered again.
ClosedMeansOff ==
    pc \in {"join", "done"} => \A r \in Relay \ suspect : ~hw[r]

\* Seen from the main thread the boxes are the abstract RelayPower: a relay
\* changes when its write is confirmed, and its request is met at that moment,
\* not when the flag is dropped.
Power == INSTANCE RelayPower WITH
    on      <- [r \in Relay |-> IF pc = "write" /\ r = at THEN ~state[r] ELSE state[r]],
    request <- [r \in Relay |-> toggle[r] /\ ~(pc = "clear" /\ r = at)],
    asked   <- shutdown_pbob,
    ended   <- pc \in {"close", "join", "done"}

\* The polling thread and its two clients implement RelayPower: every confirmed
\* flip answers a request made since the relay's last flip, and the thread ends
\* only with every relay off.
ImplementsPower == Power!Spec

polling == pc \in {"scan", "flip", "write", "clear", "check"}

\* do_server_pbob "toggles the relay accordingly": a request that set_toggle
\* accepted while the loop runs is followed by a flip of that relay, unless it
\* came while a flip of the same relay was under way: the flag that flip drops
\* at its end is then that of both, and the later request is lost.
RequestApplied ==
    \A r \in Relay :
        (toggle[r] /\ r \in owed /\ polling /\ ~(at = r /\ pc \in {"write", "clear"}))
            ~> (r \notin owed \/ ~polling)

=============================================================================

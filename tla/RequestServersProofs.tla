------------------------- MODULE RequestServersProofs -------------------------
(* Proofs about the programs that answer requests: the power boxes, for any number of  *)
(* boxes and relays; the GPS, spectrum and telemetry servers and the remote commands,  *)
(* for any numbers of threads, files, clients, spectra, messages and connections; and  *)
(* of all of them together.                                                            *)
EXTENDS RequestServers, FiniteSetTheorems, SequenceTheorems, TLAPS

-----------------------------------------------------------------------------
(* The power boxes: the inductive invariant *)

\* The relay that toggle_relay works on exists, and its flag is up.
AtRelay == pc \in {"flip", "write", "clear"} => at \in Relay /\ toggle[at]

\* A flag that is up stands for a request that was not answered yet, unless
\* it is the flag of the relay being flipped, which ClearToggle drops next.
FlagsOwed == \A r \in Relay :
    toggle[r] => \/ r \in owed
                 \/ pc \in {"write", "clear"} /\ r = at

\* While run_pbob initialises box i the relays not yet written are suspect.
Unwritten ==
    /\ pc \in {"params", "reset", "open"} =>
         /\ i < NumPbob /\ j = 0
         /\ \A r \in Relay : r[1] >= i => r \in suspect
    /\ pc \in {"reset", "open", "init"} => i \in Enabled
    /\ pc = "init" =>
         /\ j <= NumRelays[i]
         /\ \A r \in Relay : r[1] > i \/ (r[1] = i /\ r[2] >= j) => r \in suspect

\* Before the loop has begun and after it has ended no relay is recorded as on.
EndedOff ==
    pc \in {"params", "reset", "open", "init", "calibrate", "close", "join", "done"}
        => all_relays_off

IInv == /\ TypeOK /\ AtRelay /\ FlagsOwed /\ Unwritten
        /\ RecordMatchesRelay /\ EndedOff

-----------------------------------------------------------------------------
\* A relay entry has a box that is enabled and an index within the array.
LEMMA RelayType ==
    ASSUME NEW r \in Relay
    PROVE  /\ r = <<r[1], r[2]>> /\ r[1] \in Box /\ r[1] \in Enabled
           /\ r[2] \in 0..(MaxRelays-1) /\ r[2] < NumRelays[r[1]]
BY PbobAssumption DEF Relay, Box

\* A pair of loop values within the bounds is a relay.
LEMMA PairIsRelay ==
    ASSUME NEW b \in Enabled, NEW k \in Nat, k < NumRelays[b]
    PROVE  <<b, k>> \in Relay
<1>1. b \in Box /\ NumRelays[b] \in 0..MaxRelays
  BY PbobAssumption DEF Box
<1>2. k \in 0..(MaxRelays-1)
  BY <1>1, PbobAssumption
<1> QED BY <1>1, <1>2 DEF Relay

\* The initial states satisfy the invariant: every relay is suspect.
LEMMA InitIInv == Init => IInv
<1> SUFFICES ASSUME Init PROVE IInv
  OBVIOUS
<1>1. TypeOK
  <2>1. /\ toggle \in [Relay -> BOOLEAN] /\ state \in [Relay -> BOOLEAN]
        /\ hw \in [Relay -> BOOLEAN]
    BY DEF Init
  <2>2. i \in 0..NumPbob /\ j \in 0..MaxRelays
    BY PbobAssumption DEF Init
  <2> QED BY <2>1, <2>2 DEF Init, TypeOK
<1>2. AtRelay /\ EndedOff /\ RecordMatchesRelay
  BY DEF Init, AtRelay, EndedOff, RecordMatchesRelay, all_relays_off
<1>3. FlagsOwed
  BY DEF Init, FlagsOwed
<1>4. Unwritten
  BY PbobAssumption DEF Init, Unwritten
<1> QED BY <1>1, <1>2, <1>3, <1>4 DEF IInv

\* Steps of the polling thread that move it on without touching a relay.
LEMMA MoveOn ==
    ASSUME IInv,
           \/ initialize_parameters \/ open_labjack \/ calibrate_current
           \/ ScanStep \/ CheckShutdown \/ CloseLabjacks \/ JoinServer
    PROVE  IInv'
<1> USE DEF IInv
<1>0. UNCHANGED <<toggle, state, hw, owed, suspect>>
  BY DEF initialize_parameters, open_labjack, calibrate_current, ScanStep,
         CheckShutdown, CloseLabjacks, JoinServer, powerVars
<1>1. pc \notin {"write", "clear"} /\ pc' \notin {"write", "clear"}
  BY DEF initialize_parameters, open_labjack, calibrate_current, ScanStep,
         CheckShutdown, CloseLabjacks, JoinServer, NextBox
<1>2. FlagsOwed'
  BY <1>0, <1>1 DEF FlagsOwed
<1>3. RecordMatchesRelay'
  BY <1>0, <1>1 DEF RecordMatchesRelay
<1>4. EndedOff'
  BY <1>0 DEF EndedOff, all_relays_off, initialize_parameters, open_labjack,
      calibrate_current, ScanStep, CheckShutdown, CloseLabjacks, JoinServer, NextBox
<1>5. AtRelay'
  BY <1>1 DEF AtRelay, at, initialize_parameters, open_labjack,
      calibrate_current, ScanStep, CheckShutdown, CloseLabjacks, JoinServer, NextBox
<1>6. TypeOK' /\ Unwritten'
  <2>1. CASE initialize_parameters
    BY <1>0, <2>1, RelayType, PbobAssumption
    DEF initialize_parameters, NextBox, TypeOK, Unwritten, Box, serverVars
  <2>2. CASE open_labjack
    BY <1>0, <2>2, RelayType, PbobAssumption
    DEF open_labjack, NextBox, TypeOK, Unwritten, Box, serverVars
  <2>3. CASE calibrate_current
    BY <1>0, <2>3, PbobAssumption
    DEF calibrate_current, TypeOK, Unwritten, Box, serverVars
  <2>4. CASE ScanStep
    BY <1>0, <2>4, RelayType, PbobAssumption
    DEF ScanStep, at, TypeOK, Unwritten, Box, serverVars
  <2>5. CASE CheckShutdown
    BY <1>0, <2>5, PbobAssumption
    DEF CheckShutdown, TypeOK, Unwritten, Box, serverVars
  <2>6. CASE CloseLabjacks
    BY <1>0, <2>6 DEF CloseLabjacks, TypeOK, Unwritten, Box
  <2>7. CASE JoinServer
    BY <1>0, <2>7 DEF JoinServer, TypeOK, Unwritten, Box, serverVars
  <2> QED BY <2>1, <2>2, <2>3, <2>4, <2>5, <2>6, <2>7
<1> QED BY <1>2, <1>3, <1>4, <1>5, <1>6

\* initialize_parameters aside, run_pbob resets the entries of box i.
LEMMA ResetRelays == ASSUME IInv, reset_relays PROVE IInv'
<1> USE DEF IInv, reset_relays
<1>1. TypeOK'
  <2>1. cleared' \subseteq Box
    BY PbobAssumption DEF TypeOK, Unwritten, Box
  <2>2. toggle' \in [Relay -> BOOLEAN]
    BY Zenon
  <2>3. state' \in [Relay -> BOOLEAN]
    BY Zenon
  <2> QED BY <2>1, <2>2, <2>3 DEF TypeOK, serverVars
<1>2. AtRelay' /\ EndedOff'
  BY DEF AtRelay, EndedOff, all_relays_off
<1>3. FlagsOwed'
  BY DEF FlagsOwed
<1>4. Unwritten'
  BY DEF Unwritten
<1>5. RecordMatchesRelay'
  <2> SUFFICES ASSUME NEW r \in Relay, r \notin suspect PROVE hw[r] = state'[r]
    BY DEF RecordMatchesRelay
  <2>1. r[1] # i
    BY RelayType, PbobAssumption DEF Unwritten, TypeOK, Box
  <2> QED BY <2>1 DEF RecordMatchesRelay, TypeOK
<1> QED BY <1>1, <1>2, <1>3, <1>4, <1>5

\* initialize_relays switches one relay off, gives up, or goes to the next box.
LEMMA InitializeRelays == ASSUME IInv, initialize_relays PROVE IInv'
<1> USE DEF IInv, initialize_relays
<1>0. i \in Enabled /\ i \in Box /\ i \in Nat /\ j \in Nat /\ NumRelays[i] \in 0..MaxRelays
  BY PbobAssumption DEF Unwritten, TypeOK, Box
<1>a. j < NumRelays[i] => at \in Relay
  BY <1>0, PairIsRelay DEF at
<1>1. TypeOK'
  <2>1. /\ state' \in [Relay -> BOOLEAN] /\ hw' \in [Relay -> BOOLEAN]
        /\ suspect' \subseteq Relay
    BY DEF TypeOK, powerVars
  <2>2. i' \in 0..NumPbob /\ j' \in 0..MaxRelays /\ pc' \in {"init", "params", "calibrate"}
    BY <1>0, PbobAssumption DEF TypeOK, NextBox, Box
  <2> QED BY <2>1, <2>2 DEF TypeOK, serverVars
<1>2. AtRelay' /\ EndedOff'
  <2>1. AtRelay'
    BY DEF AtRelay, NextBox
  <2>2. \A r \in Relay : state'[r] => state[r]
    BY DEF TypeOK, powerVars
  <2> QED BY <2>1, <2>2 DEF EndedOff, all_relays_off
<1>3. FlagsOwed'
  BY DEF FlagsOwed
<1>4. Unwritten'
  BY <1>0, <1>a, RelayType, PbobAssumption DEF Unwritten, NextBox, powerVars, at, TypeOK
<1>5. RecordMatchesRelay'
  <2> SUFFICES ASSUME NEW r \in Relay, r \notin suspect' PROVE hw'[r] = state'[r]
    BY DEF RecordMatchesRelay
  <2>1. CASE r = at /\ j < NumRelays[i]
    <3>1. r[1] = i /\ r[2] >= j
      BY <2>1, <1>0 DEF at
    <3>2. r \in suspect
      BY <3>1 DEF Unwritten
    <3>3. hw'[r] = FALSE /\ state'[r] = FALSE
      BY <2>1, <3>2 DEF TypeOK, powerVars
    <3> QED BY <3>3
  <2>2. CASE r # at \/ ~(j < NumRelays[i])
    BY <1>0, <1>a, <2>2 DEF RecordMatchesRelay, TypeOK, NextBox, powerVars
  <2> QED BY <2>1, <2>2
<1> QED BY <1>1, <1>2, <1>3, <1>4, <1>5

\* toggle_relay flips the record of a relay that was asked for.
LEMMA Flip == ASSUME IInv, FlipRecord PROVE IInv'
<1> USE DEF IInv, FlipRecord
<1>0. at \in Relay /\ at' = at
  BY DEF AtRelay, at
<1>1. TypeOK'
  BY <1>0 DEF TypeOK, serverVars
<1>2. AtRelay' /\ EndedOff' /\ Unwritten'
  BY <1>0 DEF AtRelay, EndedOff, Unwritten
<1>3. FlagsOwed'
  BY <1>0 DEF FlagsOwed
<1>4. RecordMatchesRelay'
  BY <1>0 DEF RecordMatchesRelay, TypeOK
<1> QED BY <1>1, <1>2, <1>3, <1>4

\* The LabJack write succeeds or fails.
LEMMA Write == ASSUME IInv, WriteOk \/ WriteError PROVE IInv'
<1> USE DEF IInv
<1>0. at \in Relay /\ at' = at
  BY DEF AtRelay, at, WriteOk, WriteError
<1>1. TypeOK'
  <2>1. CASE WriteOk BY <2>1, <1>0 DEF WriteOk, TypeOK, serverVars
  <2>2. CASE WriteError BY <2>2, <1>0 DEF WriteError, TypeOK, serverVars
  <2> QED BY <2>1, <2>2
<1>2. AtRelay' /\ EndedOff' /\ Unwritten'
  BY <1>0 DEF AtRelay, EndedOff, Unwritten, WriteOk, WriteError
<1>3. FlagsOwed'
  BY <1>0 DEF FlagsOwed, WriteOk, WriteError
<1>4. RecordMatchesRelay'
  BY <1>0 DEF RecordMatchesRelay, TypeOK, WriteOk, WriteError
<1> QED BY <1>1, <1>2, <1>3, <1>4

\* The flag of the relay that was flipped is dropped.
LEMMA Clear == ASSUME IInv, ClearToggle PROVE IInv'
<1> USE DEF IInv, ClearToggle
<1>0. at \in Relay
  BY DEF AtRelay
<1>1. TypeOK'
  <2>1. j' \in 0..MaxRelays
    BY <1>0, RelayType, PbobAssumption DEF at, TypeOK
  <2> QED BY <2>1, <1>0 DEF TypeOK, serverVars
<1>2. AtRelay' /\ EndedOff' /\ Unwritten'
  BY DEF AtRelay, EndedOff, Unwritten
<1>3. FlagsOwed'
  BY <1>0 DEF FlagsOwed, TypeOK
<1>4. RecordMatchesRelay'
  BY DEF RecordMatchesRelay
<1> QED BY <1>1, <1>2, <1>3, <1>4

\* set_toggle, called by the server or by a command, in any state of the loop.
LEMMA Ask ==
    ASSUME IInv, NEW r \in Relay, ServeToggle(r) \/ CommandToggle(r)
    PROVE  IInv'
<1> USE DEF IInv
<1>0. /\ toggle' = [toggle EXCEPT ![r] = TRUE] /\ owed' = owed \cup {r}
      /\ UNCHANGED <<state, hw, suspect, i, j, pc, params, cleared, link, pbob_ready>>
  BY DEF ServeToggle, CommandToggle, set_toggle, pollVars, powerVars
<1>1. TypeOK'
  BY <1>0 DEF TypeOK, ServeToggle, CommandToggle, serverVars
<1>2. AtRelay' /\ EndedOff' /\ Unwritten'
  BY <1>0 DEF AtRelay, EndedOff, Unwritten, at, all_relays_off
<1>3. FlagsOwed'
  BY <1>0 DEF FlagsOwed, TypeOK, at
<1>4. RecordMatchesRelay'
  BY <1>0 DEF RecordMatchesRelay, at
<1> QED BY <1>1, <1>2, <1>3, <1>4

\* The other steps leave the loop and the relays alone.
LEMMA Rest ==
    ASSUME IInv,
           \/ ServerStart \/ ServerLoop \/ ServeNothing \/ RequestShutdown
           \/ UNCHANGED vars
    PROVE  IInv'
<1> USE DEF IInv
<1>0. UNCHANGED <<toggle, owed, state, hw, suspect, i, j, pc, params, cleared, link, pbob_ready>>
  BY DEF ServerStart, ServerLoop, ServeNothing, RequestShutdown, vars, pollVars, powerVars
<1>1. TypeOK'
  BY <1>0 DEF TypeOK, ServerStart, ServerLoop, ServeNothing, RequestShutdown,
              vars, serverVars
<1>2. (AtRelay /\ EndedOff /\ Unwritten /\ FlagsOwed /\ RecordMatchesRelay)'
  BY <1>0 DEF AtRelay, EndedOff, Unwritten, FlagsOwed, RecordMatchesRelay, at,
              all_relays_off
<1> QED BY <1>1, <1>2

\* Every step preserves the invariant.
LEMMA NextIInv == IInv /\ [Next]_vars => IInv'
<1> SUFFICES ASSUME IInv, [Next]_vars PROVE IInv'
  OBVIOUS
<1>1. CASE Poll
  BY <1>1, MoveOn, ResetRelays, InitializeRelays, Flip, Write, Clear DEF Poll
<1>2. CASE Serve
  BY <1>2, Ask, Rest DEF Serve
<1>3. CASE \E r \in Relay : CommandToggle(r)
  BY <1>3, Ask
<1>4. CASE RequestShutdown \/ Terminated \/ UNCHANGED vars
  BY <1>4, Rest DEF Terminated
<1> QED BY <1>1, <1>2, <1>3, <1>4 DEF Next

\* The power boxes never leave the inductive invariant.
THEOREM Invariance == Spec => []IInv
BY InitIInv, NextIInv, PTL DEF Spec

\* The loop variables of run_pbob_thread stay within the arrays and every
\* other variable keeps its type, whatever the threads do.
THEOREM TypeCorrect == Spec => []TypeOK
<1>1. IInv => TypeOK
  BY DEF IInv
<1> QED BY <1>1, Invariance, PTL

\* No flip without a request of its own.
THEOREM FlipsAreAskedFor == Spec => []NoSpuriousFlip
<1>1. IInv => NoSpuriousFlip
  BY DEF IInv, NoSpuriousFlip, AtRelay, FlagsOwed
<1> QED BY <1>1, Invariance, PTL

\* What telemetry reports of a relay is what the relay does, unless its last
\* write was refused or its write is under way.
THEOREM RecordsAreRight == Spec => []RecordMatchesRelay
<1>1. IInv => RecordMatchesRelay
  BY DEF IInv
<1> QED BY <1>1, Invariance, PTL

\* run_pbob_thread leaves no relay powered that it knows how to switch.
THEOREM ShutdownIsOff == Spec => []ClosedMeansOff
<1>1. IInv => ClosedMeansOff
  BY DEF IInv, ClosedMeansOff, EndedOff, all_relays_off, RecordMatchesRelay
<1> QED BY <1>1, Invariance, PTL

-----------------------------------------------------------------------------
(* The code implements the abstract RelayPower *)

\* What the refinement shows of the relays.
seenOn == [r \in Relay |-> IF pc = "write" /\ r = at THEN ~state[r] ELSE state[r]]
seenRequest == [r \in Relay |-> toggle[r] /\ ~(pc = "clear" /\ r = at)]
seenEnded == pc \in {"close", "join", "done"}

\* Steps that change nothing an observer of RelayPower can see.
LEMMA Unseen ==
    ASSUME UNCHANGED <<seenOn, seenRequest, seenEnded, shutdown_pbob>>
    PROVE  UNCHANGED Power!vars
BY DEF Power!vars, seenOn, seenRequest, seenEnded

\* The polling thread moves on: only the end of its loop is seen.
LEMMA MoveOnRefines ==
    ASSUME IInv,
           \/ initialize_parameters \/ open_labjack \/ calibrate_current
           \/ ScanStep \/ CheckShutdown \/ CloseLabjacks \/ JoinServer
    PROVE  [Power!Next]_(Power!vars)
<1>1. UNCHANGED <<toggle, state, shutdown_pbob>>
  BY DEF initialize_parameters, open_labjack, calibrate_current, ScanStep,
         CheckShutdown, CloseLabjacks, JoinServer, powerVars
<1>2. pc \notin {"write", "clear"} /\ pc' \notin {"write", "clear"}
  BY DEF initialize_parameters, open_labjack, calibrate_current, ScanStep,
         CheckShutdown, CloseLabjacks, JoinServer, NextBox
<1>3. seenOn = state /\ seenOn' = state'
  BY <1>1, <1>2 DEF seenOn, IInv, TypeOK
<1>4. seenRequest = toggle /\ seenRequest' = toggle'
  BY <1>1, <1>2, Zenon DEF seenRequest, IInv, TypeOK
<1>5. CASE seenEnded' = seenEnded
  BY <1>1, <1>3, <1>4, <1>5, Unseen
<1>6. CASE seenEnded' # seenEnded
  <2>1. CheckShutdown /\ pc = "check" /\ pc' = "close" /\ shutdown_pbob /\ all_relays_off
    BY <1>6 DEF seenEnded, initialize_parameters, open_labjack, calibrate_current,
        ScanStep, CheckShutdown, CloseLabjacks, JoinServer, NextBox
  <2>2. \A r \in Relay : ~seenOn[r]
    BY <2>1, <1>3 DEF all_relays_off
  <2>3. Power!Finish
    BY <1>1, <1>3, <1>4, <2>1, <2>2 DEF Power!Finish, seenOn, seenRequest
  <2> QED BY <2>3 DEF Power!Next
<1> QED BY <1>5, <1>6

\* Resetting the entries of a box drops the requests for its relays.
LEMMA ResetRefines ==
    ASSUME IInv, reset_relays PROVE [Power!Next]_(Power!vars)
<1> PICK b \in Box : b = i
  BY PbobAssumption DEF IInv, TypeOK, Unwritten, Box, reset_relays
<1> DEFINE R == {r \in Relay : r[1] = b}
<1> USE DEF IInv
<1>1. seenOn = state /\ seenOn' = state'
  BY DEF seenOn, reset_relays, TypeOK
<1>2. seenRequest = toggle /\ seenRequest' = toggle'
  <2>1. seenRequest = toggle
    BY Zenon DEF seenRequest, reset_relays, TypeOK
  <2>2. seenRequest' = toggle'
    BY Zenon DEF seenRequest, reset_relays
  <2> QED BY <2>1, <2>2
<1>3. state' = state
  <2>1. \A r \in Relay : ~state[r]
    BY DEF EndedOff, all_relays_off, reset_relays
  <2>2. state' = [r \in Relay |-> FALSE]
    BY <2>1 DEF reset_relays
  <2>3. state = [r \in Relay |-> FALSE]
    BY <2>1 DEF TypeOK
  <2> QED BY <2>2, <2>3
<1>4. seenEnded' = seenEnded /\ ~seenEnded /\ UNCHANGED shutdown_pbob
  BY DEF seenEnded, reset_relays
<1>5. toggle' = [r \in Relay |-> r \notin R /\ toggle[r]]
  BY DEF reset_relays
<1>6. CASE \E r \in R : toggle[r]
  <2>1. Power!Drop(R)
    BY <1>1, <1>2, <1>3, <1>4, <1>5, <1>6 DEF Power!Drop, seenOn, seenRequest, seenEnded
  <2>2. R \in SUBSET Relay
    OBVIOUS
  <2> QED BY <2>1, <2>2 DEF Power!Next
<1>7. CASE ~ \E r \in R : toggle[r]
  <2>1. toggle' = toggle
    BY <1>5, <1>7 DEF TypeOK
  <2> QED BY <2>1, <1>1, <1>2, <1>3, <1>4, Unseen
<1> QED BY <1>6, <1>7

\* Writing the relays off at start is not seen: they are recorded as off.
LEMMA InitializeRefines ==
    ASSUME IInv, initialize_relays PROVE UNCHANGED Power!vars
<1> USE DEF IInv, initialize_relays
<1>1. seenOn = state /\ seenOn' = state'
  BY DEF seenOn, NextBox, powerVars, TypeOK
<1>2. seenRequest = toggle /\ seenRequest' = toggle'
  BY Zenon DEF seenRequest, NextBox, TypeOK
<1>3. state' = state
  <2>1. \A r \in Relay : ~state[r]
    BY DEF EndedOff, all_relays_off
  <2> QED BY <2>1 DEF TypeOK, powerVars
<1>4. seenEnded' = seenEnded /\ UNCHANGED <<shutdown_pbob, toggle>>
  BY DEF seenEnded, NextBox
<1> QED BY <1>1, <1>2, <1>3, <1>4, Unseen

\* toggle_relay: the flip counts when it is confirmed.
LEMMA FlipRefines ==
    ASSUME IInv, FlipRecord PROVE UNCHANGED Power!vars
<1> USE DEF IInv, FlipRecord
<1>1. at \in Relay /\ at' = at
  BY DEF AtRelay, at
<1>2. seenOn' = seenOn
  BY <1>1 DEF seenOn, TypeOK
<1>3. seenRequest' = seenRequest
  BY DEF seenRequest
<1> QED BY <1>2, <1>3, Unseen DEF seenEnded

LEMMA WriteOkRefines ==
    ASSUME IInv, WriteOk, NEW r \in Relay, r = at PROVE Power!Apply(r)
<1> USE DEF IInv, WriteOk
<1>1. r \in Relay /\ toggle[at] /\ at' = at
  BY DEF AtRelay, at
<1>2. seenOn' = [seenOn EXCEPT ![r] = ~@]
  BY <1>1 DEF seenOn, TypeOK
<1>3. seenRequest' = [seenRequest EXCEPT ![r] = FALSE] /\ seenRequest[r]
  BY <1>1, Zenon DEF seenRequest
<1>4. UNCHANGED <<seenEnded, shutdown_pbob>> /\ ~seenEnded
  BY DEF seenEnded
<1> QED BY <1>2, <1>3, <1>4 DEF Power!Apply, seenOn, seenRequest, seenEnded

\* A refused write drops the request.
LEMMA WriteErrorRefines ==
    ASSUME IInv, WriteError, NEW r \in Relay, r = at PROVE Power!Drop({r})
<1> USE DEF IInv, WriteError
<1>1. at \in Relay /\ toggle[at] /\ at' = at
  BY DEF AtRelay, at
<1>2. seenOn' = seenOn
  BY <1>1 DEF seenOn, TypeOK
<1>3. seenRequest' = [x \in Relay |-> x \notin {r} /\ seenRequest[x]] /\ seenRequest[r]
  BY <1>1, Zenon DEF seenRequest
<1>4. UNCHANGED <<seenEnded, shutdown_pbob>> /\ ~seenEnded
  BY DEF seenEnded
<1> QED BY <1>2, <1>3, <1>4 DEF Power!Drop, seenOn, seenRequest, seenEnded

\* Dropping the flag afterwards is not seen; a set_toggle since the write is
\* not seen either, which is how it gets lost.
LEMMA ClearRefines ==
    ASSUME IInv, ClearToggle PROVE UNCHANGED Power!vars
<1> USE DEF IInv, ClearToggle
<1>1. at \in Relay
  BY DEF AtRelay
<1>2. seenOn' = seenOn
  BY DEF seenOn
<1>3. seenRequest' = seenRequest
  BY <1>1, Zenon DEF seenRequest, TypeOK
<1> QED BY <1>2, <1>3, Unseen DEF seenEnded

\* set_toggle is a request, or nothing when the relay is being dealt with.
LEMMA AskRefines ==
    ASSUME IInv, NEW r \in Relay, ServeToggle(r) \/ CommandToggle(r)
    PROVE  [Power!Next]_(Power!vars)
<1> USE DEF IInv
<1>1. /\ toggle' = [toggle EXCEPT ![r] = TRUE]
      /\ UNCHANGED <<state, i, j, pc, shutdown_pbob>>
  BY DEF ServeToggle, CommandToggle, set_toggle, pollVars, powerVars
<1>2. UNCHANGED <<seenOn, seenEnded>> /\ at' = at
  BY <1>1 DEF seenOn, seenEnded, at
<1>3. CASE pc = "clear" /\ r = at
  <2>1. seenRequest' = seenRequest
    BY <1>1, <1>2, <1>3, Zenon DEF seenRequest, TypeOK
  <2> QED BY <2>1, <1>1, <1>2, Unseen
<1>4. CASE ~(pc = "clear" /\ r = at)
  <2>1. seenRequest' = [x \in Relay |-> x \in {r} \/ seenRequest[x]]
    BY <1>1, <1>2, <1>4, Zenon DEF seenRequest, TypeOK
  <2>2. Power!Request({r})
    BY <2>1, <1>1, <1>2 DEF Power!Request, seenOn, seenRequest, seenEnded
  <2> QED BY <2>2 DEF Power!Next
<1> QED BY <1>3, <1>4

\* Every step of the code is a step of RelayPower, or is not seen.
LEMMA NextRefines ==
    ASSUME IInv, [Next]_vars PROVE [Power!Next]_(Power!vars)
<1>1. CASE \/ initialize_parameters \/ open_labjack \/ calibrate_current
           \/ ScanStep \/ CheckShutdown \/ CloseLabjacks \/ JoinServer
  BY <1>1, MoveOnRefines
<1>2. CASE reset_relays
  BY <1>2, ResetRefines
<1>3. CASE initialize_relays \/ FlipRecord \/ ClearToggle
  BY <1>3, InitializeRefines, FlipRefines, ClearRefines
<1>4. CASE WriteOk
  <2>1. PICK r \in Relay : r = at
    BY <1>4 DEF IInv, AtRelay, WriteOk
  <2>2. Power!Apply(r)
    BY <2>1, <1>4, WriteOkRefines
  <2> QED BY <2>2 DEF Power!Next
<1>5. CASE WriteError
  <2>1. PICK r \in Relay : r = at
    BY <1>5 DEF IInv, AtRelay, WriteError
  <2>2. Power!Drop({r})
    BY <2>1, <1>5, WriteErrorRefines
  <2> QED BY <2>2 DEF Power!Next
<1>6. CASE \E r \in Relay : ServeToggle(r) \/ CommandToggle(r)
  BY <1>6, AskRefines
<1>7. CASE RequestShutdown
  <2>1. UNCHANGED <<seenOn, seenRequest, seenEnded>>
    BY <1>7 DEF RequestShutdown, pollVars, powerVars, seenOn, seenRequest, seenEnded, at
  <2>2. Power!AskShutdown
    BY <1>7, <2>1 DEF RequestShutdown, Power!AskShutdown, seenOn, seenRequest, seenEnded
  <2> QED BY <2>2 DEF Power!Next
<1>8. CASE ServerStart \/ ServerLoop \/ ServeNothing \/ UNCHANGED vars
  <2>1. UNCHANGED <<toggle, state, i, j, pc, shutdown_pbob>>
    BY <1>8 DEF ServerStart, ServerLoop, ServeNothing, vars, pollVars, powerVars
  <2>2. UNCHANGED <<seenOn, seenRequest, seenEnded, shutdown_pbob>>
    BY <2>1 DEF seenOn, seenRequest, seenEnded, at
  <2> QED BY <2>2, Unseen
<1> QED BY <1>1, <1>2, <1>3, <1>4, <1>5, <1>6, <1>7, <1>8 DEF Next, Poll, Serve, Terminated

\* Nothing is on and nothing is asked for at the start.
LEMMA InitRefines == ASSUME Init PROVE Power!Init
<1>1. seenOn = [r \in Relay |-> FALSE]
  BY DEF Init, seenOn
<1>2. seenRequest = [r \in Relay |-> FALSE]
  BY DEF Init, seenRequest
<1>3. shutdown_pbob = FALSE /\ seenEnded = FALSE
  BY DEF Init, seenEnded
<1> QED BY <1>1, <1>2, <1>3 DEF Power!Init, seenOn, seenRequest, seenEnded

\* pbob.c implements RelayPower: what the rest of the program may rely on when
\* it calls set_toggle and waits for run_pbob_thread to end.
THEOREM Refinement == Spec => ImplementsPower
<1>1. Init => Power!Init
  BY InitRefines
<1>2. IInv /\ [Next]_vars => [Power!Next]_(Power!vars)
  BY NextRefines
<1> QED BY <1>1, <1>2, Invariance, PTL DEF Spec, ImplementsPower, Power!Spec

-----------------------------------------------------------------------------
(* The GPS server *)

\* The file that is open is that of the log, and there is none when nothing is logged.
OneFile ==
    /\ open_files = IF logfile = NULL THEN {} ELSE {logfile}
    /\ ~logging /\ gps_cmd \notin {"join_gps", "join_nmea"} => open_files = {}

\* A serial thread that is alive is the one a stop will join, and before that stop
\* is over, unless a rotation failed.
OneReader ==
    ~rotation_failed =>
        \A t \in Logger : nmea_thread[t] \in {"running", "writing"} =>
            /\ nmea_thread_running /\ nmea_handle = t
            /\ logging \/ gps_cmd \in {"join_gps", "join_nmea"}

\* A server's thread is started for a start of the logs; the one that lives is that of the
\* handle a stop joins, no stop is over before its end, and the open socket is its own.
OneServer ==
    /\ gps_cmd = "start_udp" => started >= 1
    /\ \A t \in Server : udp_thread[t] \notin {"none", "ended"} =>
           t = udp_server_thread /\ (udp_server_running \/ gps_cmd = "waits")
    /\ \A o \in udp_open : /\ udp_thread[o] \in {"loop", "receiving", "closing"}
                           /\ udp_server_socket = o

\* The parts of the type invariant.
GpsFlagTypes ==
    /\ gps_session \in GpsSessions
    /\ logging \in BOOLEAN /\ gpsd_socket \in BOOLEAN /\ nmea_fd \in BOOLEAN
    /\ started \in 0..GpsStarts
    /\ gps_cmd \in {"idle", "start_udp", "stop_udp", "waits", "stop_log", "join_gps", "join_nmea"}
GpsFileTypes ==
    /\ logfile \in Logs \cup {NULL} /\ files \in 0..MaxFiles /\ open_files \subseteq Logs
    /\ rotated \subseteq Logs /\ rotation_failed \in BOOLEAN
GpsThreadTypes ==
    /\ gps_thread \in [Logger -> {"none", "running", "ended"}]
    /\ nmea_thread \in [Logger -> {"none", "running", "writing", "ended"}]
    /\ held \in [Logger -> Logs \cup {NULL}]
    /\ nmea_thread_running \in BOOLEAN /\ nmea_handle \in Logger \cup {0}
GpsDataTypes == valid \subseteq Kinds /\ fresh \subseteq Kinds
GpsUdpTypes ==
    /\ udp_server_running \in BOOLEAN /\ udp_server_socket \in Server \cup {NULL}
    /\ udp_open \subseteq Server
    /\ udp_thread \in [Server -> {"none", "setup", "loop", "receiving", "closing", "ended"}]
    /\ udp_recv \in [Server -> Server \cup {NULL}]
    /\ udp_server_thread \in Server \cup {0} /\ udp_failed \in BOOLEAN

GpsTypes == GpsFlagTypes /\ GpsFileTypes /\ GpsThreadTypes /\ GpsDataTypes /\ GpsUdpTypes

GpsInv == GpsTypes /\ OneFile /\ OneReader /\ WritesOpenFile /\ OneServer /\ UdpServes

\* The bounds of a behaviour are numbers within the constants.
LEMMA GpsBounds ==
    ASSUME GpsFlagTypes
    PROVE  /\ GpsStarts \in Nat /\ MaxFiles \in Nat
           /\ gps_session.starts \in 0..GpsStarts /\ gps_session.files \in 0..MaxFiles
           /\ gps_session.device \in BOOLEAN
BY GpsAssumption DEF GpsFlagTypes

LEMMA InitGpsInv == GpsInit => GpsInv
<1> SUFFICES ASSUME GpsInit PROVE GpsInv
  OBVIOUS
<1>0. GpsStarts \in Nat /\ MaxFiles \in Nat
  BY GpsAssumption
<1>1. GpsTypes
  <2>1. GpsFlagTypes
    <3>1. gpsd_socket \in BOOLEAN BY Zenon DEF GpsInit, connect_to_gpsd
    <3>2. /\ logging = FALSE /\ nmea_fd = FALSE /\ started = 0 /\ gps_cmd = "idle"
          /\ gps_session \in GpsSessions
      BY Zenon DEF GpsInit
    <3>3. 0 \in 0..GpsStarts BY <1>0
    <3> QED BY <3>1, <3>2, <3>3, Zenon DEF GpsFlagTypes
  <2>2. GpsFileTypes
    <3>1. /\ logfile = NULL /\ files = 0 /\ open_files = {} /\ rotated = {}
          /\ rotation_failed = FALSE
      BY Zenon DEF GpsInit
    <3>2. 0 \in 0..MaxFiles BY <1>0
    <3> QED BY <3>1, <3>2, Zenon DEF GpsFileTypes
  <2>3. GpsThreadTypes BY DEF GpsInit, GpsThreadTypes
  <2>4. GpsDataTypes BY DEF GpsInit, GpsDataTypes
  <2>5. GpsUdpTypes BY DEF GpsInit, GpsUdpTypes
  <2> QED BY <2>1, <2>2, <2>3, <2>4, <2>5 DEF GpsTypes
<1>2. OneFile BY DEF GpsInit, OneFile
<1>3. OneReader BY DEF GpsInit, OneReader
<1>4. WritesOpenFile BY DEF GpsInit, WritesOpenFile
<1>5. OneServer
  <2>1. gps_cmd = "idle" /\ udp_open = {} /\ udp_thread = [t \in Server |-> "none"]
    BY Zenon DEF GpsInit
  <2> QED BY <2>1 DEF OneServer
<1>6. UdpServes BY DEF GpsInit, UdpServes
<1> QED BY <1>1, <1>2, <1>3, <1>4, <1>5, <1>6 DEF GpsInv

\* The new data of a sentence are of the two kinds.
LEMMA SentenceTypes ==
    ASSUME GpsDataTypes, process_nmea_sentence PROVE GpsDataTypes'
BY DEF GpsDataTypes, process_nmea_sentence, parse_hehdt_sentence, parse_gprmc_sentence,
       parse_gpgga_sentence, Kinds, data_vars

\* The steps of the command thread that start the logs.
LEMMA StartStep ==
    ASSUME GpsInv, gps_start_logging \/ gps_start_logging_fails, gps_session' = gps_session
    PROVE  GpsInv'
<1> USE DEF input_vars, nmea_vars, data_vars, udp_vars, Idle
<1>0. /\ GpsFlagTypes /\ GpsFileTypes /\ GpsThreadTypes /\ GpsDataTypes /\ GpsUdpTypes
      /\ GpsStarts \in Nat /\ MaxFiles \in Nat /\ started + 1 \in 1..GpsStarts
      /\ gps_session.files \in 0..MaxFiles /\ gps_session.device \in BOOLEAN
  <2>1. /\ GpsFlagTypes /\ GpsFileTypes /\ GpsThreadTypes /\ GpsDataTypes /\ GpsUdpTypes
    BY DEF GpsInv, GpsTypes
  <2>2. started < gps_session.starts
    BY DEF gps_start_logging, gps_start_logging_fails
  <2> QED BY <2>1, <2>2, GpsBounds DEF GpsFlagTypes
<1>1. open_files = {} /\ ~logging /\ gps_cmd = "idle"
  BY DEF GpsInv, OneFile, gps_start_logging, gps_start_logging_fails
<1>2. ~rotation_failed => \A t \in Logger : nmea_thread[t] \notin {"running", "writing"}
  BY <1>1 DEF GpsInv, OneReader
<1>3. GpsTypes'
  <2>1. GpsFlagTypes'
    <3>1. CASE gps_start_logging
      <4>1. nmea_fd' \in BOOLEAN
        BY <1>0, <3>1 DEF gps_start_logging, open_nmea_device
      <4>2. gps_cmd' \in {"idle", "start_udp"}
        BY <3>1 DEF gps_start_logging
      <4> QED BY <1>0, <3>1, <4>1, <4>2 DEF GpsFlagTypes, gps_start_logging
    <3>2. CASE gps_start_logging_fails
      <4>1. nmea_fd' = nmea_fd \/ nmea_fd' = FALSE
        BY <3>2 DEF gps_start_logging_fails
      <4>2. started' \in 0..GpsStarts
        BY <1>0, <3>2 DEF gps_start_logging_fails
      <4> QED BY <1>0, <3>2, <4>1, <4>2, Zenon DEF GpsFlagTypes, gps_start_logging_fails
    <3> QED BY <3>1, <3>2
  <2>2. GpsFileTypes'
    <3>1. files < gps_session.files => files + 1 \in Logs /\ files + 1 \in 0..MaxFiles
      BY <1>0 DEF GpsFileTypes, Logs
    <3> QED BY <1>0, <3>1 DEF GpsFileTypes, gps_start_logging, gps_start_logging_fails,
                rotate_logfile, rotate_logfile_fails
  <2>3. GpsThreadTypes'
    BY <1>0 DEF GpsThreadTypes, gps_start_logging, gps_start_logging_fails, Logger
  <2>4. GpsDataTypes' /\ GpsUdpTypes'
    BY <1>0 DEF GpsDataTypes, GpsUdpTypes, gps_start_logging, gps_start_logging_fails
  <2> QED BY <2>1, <2>2, <2>3, <2>4 DEF GpsTypes
<1>4. OneFile'
  <2>1. files + 1 # NULL /\ files \in Nat
    BY <1>0 DEF GpsFileTypes, NULL
  <2> QED
    BY <1>1, <2>1 DEF OneFile, gps_start_logging, gps_start_logging_fails,
       rotate_logfile, rotate_logfile_fails
<1>5. OneReader'
  BY <1>0, <1>2 DEF OneReader, gps_start_logging, gps_start_logging_fails, GpsThreadTypes
<1>6. WritesOpenFile'
  BY <1>0, <1>2 DEF WritesOpenFile, gps_start_logging, gps_start_logging_fails, GpsThreadTypes
<1>7. OneServer' /\ UdpServes'
  <2>1. /\ gps_cmd' = "start_udp" => started' >= 1
        /\ UNCHANGED udp_vars /\ gps_cmd # "waits"
    BY <1>0, <1>1 DEF gps_start_logging, gps_start_logging_fails, GpsFlagTypes, Idle
  <2> QED BY <2>1 DEF GpsInv, OneServer, UdpServes
<1> QED BY <1>3, <1>4, <1>5, <1>6, <1>7 DEF GpsInv

\* The steps of the logging threads.
LEMMA ThreadStep ==
    ASSUME GpsInv, NEW t \in Logger, gps_thread_steps(t), gps_session' = gps_session
    PROVE  GpsInv'
<1> USE DEF input_vars, file_vars, nmea_vars, join_vars, data_vars, udp_vars
<1>0. /\ GpsFlagTypes /\ GpsFileTypes /\ GpsThreadTypes /\ GpsDataTypes /\ GpsUdpTypes
      /\ GpsStarts \in Nat /\ MaxFiles \in Nat /\ gps_session.files \in 0..MaxFiles
  BY GpsBounds DEF GpsInv, GpsTypes
<1>1. OneServer' /\ UdpServes'
  <2>1. UNCHANGED <<udp_vars, gps_cmd, started>>
    BY DEF gps_thread_steps, gps_receives, gps_logging_thread_ends, nmea_reads,
           nmea_writes, nmea_reading_thread_ends
  <2> QED BY <2>1 DEF GpsInv, OneServer, UdpServes
<1>2. GpsDataTypes' /\ GpsUdpTypes'
  BY <1>0, SentenceTypes DEF GpsDataTypes, GpsUdpTypes, gps_thread_steps, gps_receives,
     gps_logging_thread_ends, nmea_reads, nmea_writes, nmea_reading_thread_ends
<1>3. CASE gps_receives(t)
  <2> USE <1>3 DEF gps_receives
  <2>1. files < gps_session.files => files + 1 \in Logs /\ files + 1 # NULL
    BY <1>0 DEF GpsFileTypes, Logs, NULL
  <2>2. GpsFlagTypes' /\ GpsThreadTypes'
    BY <1>0 DEF GpsFlagTypes, GpsThreadTypes
  <2>3. GpsFileTypes'
    <3>1. files < gps_session.files => files + 1 \in 0..MaxFiles
      BY <1>0 DEF GpsFileTypes
    <3> QED BY <1>0, <2>1, <3>1 DEF GpsFileTypes, rotate_logfile, rotate_logfile_fails
  <2>4. OneFile'
    BY <2>1 DEF GpsInv, OneFile, rotate_logfile, rotate_logfile_fails
  <2>5. CASE UNCHANGED <<logging, logfile, files, open_files, rotated, rotation_failed>>
    <3>1. OneReader' /\ WritesOpenFile'
      BY <2>5 DEF GpsInv, OneReader, WritesOpenFile
    <3> QED BY <1>1, <1>2, <2>2, <2>3, <2>4, <3>1 DEF GpsInv, GpsTypes
  <2>6. CASE /\ logfile # NULL
             /\ rotated' = rotated \cup {logfile}
             /\ rotate_logfile /\ UNCHANGED <<logging, rotation_failed>>
    <3>1. OneReader'
      BY <2>6 DEF GpsInv, OneReader
    <3>2. open_files \cup rotated \subseteq open_files' \cup rotated'
      BY <2>6 DEF GpsInv, OneFile, rotate_logfile
    <3>3. WritesOpenFile'
      BY <2>6, <3>2 DEF GpsInv, WritesOpenFile
    <3> QED BY <1>1, <1>2, <2>2, <2>3, <2>4, <3>1, <3>3 DEF GpsInv, GpsTypes
  <2>7. CASE logging' = FALSE /\ rotation_failed' = TRUE
    <3>1. OneReader' /\ WritesOpenFile'
      BY <2>7 DEF OneReader, WritesOpenFile
    <3> QED BY <1>1, <1>2, <2>2, <2>3, <2>4, <3>1 DEF GpsInv, GpsTypes
  <2> QED BY <2>5, <2>6, <2>7
<1>4. CASE gps_logging_thread_ends(t)
  <2>1. GpsFlagTypes' /\ GpsFileTypes' /\ GpsThreadTypes'
    BY <1>0, <1>4 DEF gps_logging_thread_ends, GpsFlagTypes, GpsFileTypes, GpsThreadTypes
  <2>2. OneFile' /\ OneReader' /\ WritesOpenFile'
    BY <1>4 DEF gps_logging_thread_ends, GpsInv, OneFile, OneReader, WritesOpenFile
  <2> QED BY <1>1, <1>2, <2>1, <2>2 DEF GpsInv, GpsTypes
<1>5. CASE nmea_reads(t) \/ nmea_writes(t) \/ nmea_reading_thread_ends(t)
  <2> USE <1>5 DEF nmea_reads, nmea_writes, nmea_reading_thread_ends
  <2>0. /\ \A o \in Logger : nmea_thread'[o] \in {"running", "writing"} =>
               nmea_thread[o] \in {"running", "writing"}
        /\ \A o \in Logger \ {t} : nmea_thread'[o] = nmea_thread[o] /\ held'[o] = held[o]
    BY <1>0 DEF GpsThreadTypes
  <2>1. GpsFlagTypes' /\ GpsFileTypes' /\ GpsThreadTypes'
    BY <1>0 DEF GpsFlagTypes, GpsFileTypes, GpsThreadTypes, NULL
  <2>2. OneFile' /\ OneReader'
    BY <2>0 DEF GpsInv, OneFile, OneReader
  <2>3. WritesOpenFile'
    <3>1. nmea_thread'[t] = "writing" => held'[t] = logfile
      BY <1>0 DEF GpsThreadTypes
    <3>2. logfile # NULL => logfile \in open_files
      BY DEF GpsInv, OneFile
    <3> QED BY <2>0, <3>1, <3>2 DEF GpsInv, WritesOpenFile
  <2> QED BY <1>1, <1>2, <2>1, <2>2, <2>3 DEF GpsInv, GpsTypes
<1> QED BY <1>3, <1>4, <1>5 DEF gps_thread_steps

\* The stop of the logs, which joins the two threads and closes the file.
LEMMA StopStep ==
    ASSUME GpsInv, gps_stop_logging \/ stop_joins_gps \/ stop_joins_nmea \/ Expires,
           gps_session' = gps_session
    PROVE  GpsInv'
<1> USE DEF input_vars, file_vars, nmea_vars, join_vars, data_vars, udp_vars, log_vars,
            gps_stop_logging, stop_joins_gps, stop_joins_nmea, Expires
<1>0. GpsFlagTypes /\ GpsFileTypes /\ GpsThreadTypes /\ GpsDataTypes /\ GpsUdpTypes
  BY DEF GpsInv, GpsTypes
<1>1. GpsFlagTypes' /\ GpsFileTypes' /\ GpsThreadTypes'
  <2>1. GpsFlagTypes' BY <1>0 DEF GpsFlagTypes
  <2>2. GpsFileTypes' BY <1>0 DEF GpsFileTypes
  <2>3. GpsThreadTypes' BY <1>0 DEF GpsThreadTypes
  <2> QED BY <2>1, <2>2, <2>3
<1>2. GpsDataTypes' /\ GpsUdpTypes'
  BY <1>0 DEF GpsDataTypes, GpsUdpTypes
<1>3. OneServer' /\ UdpServes'
  BY DEF GpsInv, OneServer, UdpServes
<1>4. OneFile'
  BY DEF GpsInv, OneFile, NULL
<1>5. CASE stop_joins_nmea
  <2>1. ~rotation_failed => \A t \in Logger : nmea_thread[t] \notin {"running", "writing"}
    BY <1>5 DEF GpsInv, OneReader
  <2>2. OneReader' /\ WritesOpenFile'
    BY <1>5, <2>1 DEF OneReader, WritesOpenFile
  <2> QED BY <1>1, <1>2, <1>3, <1>4, <2>2 DEF GpsInv, GpsTypes
<1>6. CASE gps_stop_logging \/ stop_joins_gps \/ Expires
  <2>1. OneReader' /\ WritesOpenFile'
    BY <1>6 DEF GpsInv, OneReader, WritesOpenFile
  <2> QED BY <1>1, <1>2, <1>3, <1>4, <2>1 DEF GpsInv, GpsTypes
<1> QED BY <1>5, <1>6

\* The steps of the UDP server and of its start and its stop.
LEMMA UdpStep ==
    ASSUME GpsInv, gps_session' = gps_session,
           \/ stop_gps \/ gps_start_udp_server \/ gps_stop_udp_server \/ stop_joins_udp
           \/ \E t \in Server : udp_thread_steps(t)
    PROVE  GpsInv'
<1> USE DEF input_vars, file_vars, nmea_vars, join_vars, data_vars, udp_vars,
            unchanged_but_udp, Idle, stop_gps, gps_start_udp_server, gps_stop_udp_server,
            stop_joins_udp, udp_thread_steps, udp_binds, udp_loops, udp_received, udp_closes
<1>0. GpsFlagTypes /\ GpsFileTypes /\ GpsThreadTypes /\ GpsDataTypes /\ GpsUdpTypes
  BY DEF GpsInv, GpsTypes
<1>1. UNCHANGED <<input_vars, file_vars, gps_thread, nmea_vars, join_vars, data_vars>>
  OBVIOUS
<1>2. /\ GpsFlagTypes' /\ GpsFileTypes' /\ GpsThreadTypes' /\ GpsDataTypes'
      /\ (gps_cmd' = "start_udp" => gps_cmd = "start_udp")
      /\ (gps_cmd \in {"join_gps", "join_nmea"} <=> gps_cmd' \in {"join_gps", "join_nmea"})
  <2>1. /\ gps_cmd' \in {"idle", "start_udp", "stop_udp", "waits", "stop_log", "join_gps",
                         "join_nmea"}
        /\ (gps_cmd' = "start_udp" => gps_cmd = "start_udp")
        /\ (gps_cmd \in {"join_gps", "join_nmea"} <=> gps_cmd' \in {"join_gps", "join_nmea"})
    BY <1>0 DEF GpsFlagTypes
  <2> QED BY <1>0, <1>1, <2>1
          DEF GpsFlagTypes, GpsFileTypes, GpsThreadTypes, GpsDataTypes
<1>3. OneFile' /\ OneReader' /\ WritesOpenFile'
  BY <1>1, <1>2 DEF GpsInv, OneFile, OneReader, WritesOpenFile
<1>4. gps_cmd = "start_udp" => started \in Server
  BY <1>0 DEF GpsInv, OneServer, GpsFlagTypes, Server
<1>5. udp_open \subseteq {udp_server_socket}
  BY DEF GpsInv, OneServer
<1>6. GpsUdpTypes' /\ OneServer' /\ UdpServes'
  <2>1. CASE stop_gps
    BY <2>1, <1>0, <1>1, <1>2 DEF GpsInv, GpsUdpTypes, OneServer, UdpServes
  <2>5. CASE stop_joins_udp
    <3>1. \A t \in Server : udp_thread[t] \in {"none", "ended"}
      BY <2>5 DEF GpsInv, OneServer
    <3> QED BY <3>1, <2>5, <1>0, <1>1, <1>2 DEF GpsInv, GpsUdpTypes, OneServer, UdpServes
  <2>2. CASE gps_stop_udp_server
    BY <2>2, <1>0, <1>1, <1>2, <1>5 DEF GpsInv, GpsUdpTypes, OneServer, UdpServes, NULL
  <2>3. CASE gps_start_udp_server
    <3>0. CASE UNCHANGED <<udp_server_running, udp_thread, udp_server_thread>>
      BY <3>0, <2>3, <1>0, <1>1, <1>2 DEF GpsInv, GpsUdpTypes, OneServer, UdpServes
    <3>1. CASE /\ ~udp_server_running
               /\ udp_server_running' = TRUE
               /\ udp_thread' = [udp_thread EXCEPT ![started] = "setup"]
               /\ udp_server_thread' = started
      <4>3. \A t \in Server : udp_thread[t] \in {"none", "ended"}
        BY <3>1, <2>3 DEF GpsInv, OneServer
      <4>4. udp_open = {}
        BY <4>3, <1>0 DEF GpsInv, OneServer, GpsUdpTypes
      <4>5. udp_thread'[started] = "setup" /\ started \in Server
        BY <3>1, <2>3, <1>0, <1>4 DEF GpsUdpTypes
      <4>6. GpsUdpTypes'
        BY <3>1, <2>3, <4>5, <1>0 DEF GpsUdpTypes
      <4>7. OneServer'
        <5>1. gps_cmd' # "start_udp" /\ udp_open' = {}
          BY <2>3, <4>4
        <5>3. \A t \in Server : udp_thread'[t] \notin {"none", "ended"} => t = started
          BY <4>3, <3>1, <1>0 DEF GpsUdpTypes
        <5> QED BY <5>1, <5>3, <3>1, Zenon DEF OneServer
      <4>8. UdpServes'
        BY <4>5 DEF UdpServes
      <4> QED BY <4>6, <4>7, <4>8
    <3> QED BY <2>3, <3>0, <3>1
  <2>4. ASSUME NEW t \in Server, udp_thread_steps(t) PROVE GpsUdpTypes' /\ OneServer' /\ UdpServes'
    <3>0. udp_thread[t] \notin {"none", "ended"}
      BY <2>4
    <3>1. \A o \in Server : udp_thread[o] \notin {"none", "ended"} => o = t
      BY <3>0 DEF GpsInv, OneServer
    <3>2. UNCHANGED <<udp_server_thread, udp_server_running, started, gps_cmd>>
      BY <2>4
    <3>3. \A o \in Server \ {t} : udp_thread'[o] = udp_thread[o]
      BY <2>4, <1>0 DEF GpsUdpTypes
    <3>4. udp_open \subseteq {t}
      BY <3>1, <1>0 DEF GpsInv, OneServer, GpsUdpTypes
    <3>5. CASE udp_binds(t)
      <4>1. udp_open = {}
        BY <3>4, <3>5 DEF GpsInv, OneServer
      <4>2. ~PortTaken
        BY <4>1, <3>1, <3>5 DEF PortTaken
      <4>3. CASE /\ ~PortTaken
                 /\ udp_server_socket' = t /\ udp_open' = udp_open \cup {t}
                 /\ udp_thread' = [udp_thread EXCEPT ![t] = "loop"]
                 /\ UNCHANGED udp_failed
        <5>1. GpsUdpTypes'
          BY <4>3, <3>5, <1>0 DEF GpsUdpTypes
        <5>2. udp_thread'[t] = "loop" /\ t \in udp_open' /\ udp_server_socket' = t
          BY <4>3, <1>0 DEF GpsUdpTypes
        <5>3. OneServer'
          BY <5>2, <3>1, <3>2, <3>3, <3>4, <4>3 DEF GpsInv, OneServer
        <5> QED BY <5>1, <5>2, <5>3 DEF UdpServes
      <4>4. CASE /\ udp_server_socket' = NULL /\ udp_failed' = (udp_failed \/ ~PortTaken)
                 /\ udp_thread' = [udp_thread EXCEPT ![t] = "ended"]
                 /\ UNCHANGED udp_open
        <5>1. udp_failed' = TRUE
          BY <4>2, <4>4, <1>0, Zenon DEF GpsUdpTypes
        <5>2. GpsUdpTypes'
          BY <4>4, <3>5, <5>1, <1>0 DEF GpsUdpTypes
        <5>3. OneServer'
          BY <4>4, <4>1, <3>1, <3>2, <3>3 DEF GpsInv, OneServer
        <5> QED BY <5>1, <5>2, <5>3, <3>2 DEF UdpServes
      <4> QED BY <3>5, <4>3, <4>4
    <3>6. CASE udp_loops(t) \/ udp_received(t)
      <4>1. GpsUdpTypes'
        <5>1. CASE udp_loops(t) BY <5>1, <1>0 DEF GpsUdpTypes
        <5>2. CASE udp_received(t) BY <5>2, <1>0 DEF GpsUdpTypes
        <5> QED BY <3>6, <5>1, <5>2
      <4>2. udp_thread'[t] \in {"loop", "receiving", "closing"}
        BY <3>6, <1>0 DEF GpsUdpTypes
      <4>3. UNCHANGED <<udp_open, udp_server_socket, udp_server_running>>
        BY <3>6
      <4>4. OneServer'
        BY <4>2, <4>3, <3>1, <3>2, <3>3, <3>4 DEF GpsInv, OneServer
      <4>5. UdpServes'
        <5> SUFFICES ASSUME udp_server_running', ~udp_failed'
                     PROVE  /\ udp_thread'[t] \in {"loop", "receiving"}
                            /\ udp_server_socket' = t /\ t \in udp_open'
          BY DEF UdpServes
        <5>1. ~udp_failed
          BY <3>6
        <5>2. PICK o \in Server :
                  \/ udp_thread[o] = "setup"
                  \/ udp_thread[o] \in {"loop", "receiving"} /\ udp_server_socket = o /\ o \in udp_open
          BY <5>1, <4>3, <3>2 DEF GpsInv, UdpServes
        <5>3. o = t
          BY <5>2, <3>1, <3>2
        <5>4. udp_server_socket = t /\ t \in udp_open /\ t # NULL
          <6>1. udp_thread[t] # "setup" BY <3>6
          <6>2. t # NULL BY GpsAssumption DEF Server, NULL
          <6> QED BY <5>2, <5>3, <6>1, <6>2, Zenon
        <5>5. udp_thread'[t] \in {"loop", "receiving"}
          BY <5>4, <4>3, <3>6, <1>0 DEF GpsUdpTypes
        <5> QED BY <5>4, <5>5, <4>3
      <4> QED BY <4>1, <4>4, <4>5
    <3>7. CASE udp_closes(t)
      <4>1. GpsUdpTypes'
        BY <3>7, <1>0 DEF GpsUdpTypes
      <4>2. udp_open' = {}
        BY <3>7, <1>5
      <4>3. OneServer'
        BY <3>7, <4>2, <3>1, <3>2, <3>3, <1>0 DEF GpsInv, OneServer, GpsUdpTypes
      <4>4. ~(udp_server_running /\ ~udp_failed)
        BY <3>7, <3>1 DEF GpsInv, UdpServes
      <4>5. UdpServes'
        BY <3>7, <4>4 DEF UdpServes
      <4> QED BY <4>1, <4>3, <4>5
    <3> QED BY <2>4, <3>5, <3>6, <3>7 DEF udp_thread_steps
  <2> QED BY <2>1, <2>2, <2>3, <2>4, <2>5
<1> QED BY <1>2, <1>3, <1>6 DEF GpsInv, GpsTypes

\* A step that changes nothing.
LEMMA GpsRests == ASSUME GpsInv, UNCHANGED gps_vars PROVE GpsInv'
<1> USE DEF gps_vars, gps_moves, log_vars, input_vars, file_vars, nmea_vars, join_vars,
            data_vars, udp_vars
<1>1. GpsTypes' BY DEF GpsInv, GpsTypes, GpsFlagTypes, GpsFileTypes, GpsThreadTypes, GpsDataTypes,
                      GpsUdpTypes
<1>2. OneFile' /\ OneReader' /\ WritesOpenFile' /\ OneServer' /\ UdpServes'
  BY DEF GpsInv, OneFile, OneReader, WritesOpenFile, OneServer, UdpServes
<1> QED BY <1>1, <1>2 DEF GpsInv

LEMMA NextGpsInv == GpsInv /\ [GpsNext]_gps_vars => GpsInv'
<1> SUFFICES ASSUME GpsInv, [GpsNext]_gps_vars PROVE GpsInv'
  OBVIOUS
<1>1. CASE GpsNext
  <2>1. gps_session' = gps_session /\ GpsStep
    BY <1>1 DEF GpsNext
  <2>2. CASE gps_start_logging \/ gps_start_logging_fails
    BY <2>1, <2>2, StartStep
  <2>3. CASE \E t \in Logger : gps_thread_steps(t)
    BY <2>1, <2>3, ThreadStep
  <2>4. CASE gps_stop_logging \/ stop_joins_gps \/ stop_joins_nmea \/ Expires
    BY <2>1, <2>4, StopStep
  <2>5. CASE \/ stop_gps \/ gps_start_udp_server \/ gps_stop_udp_server \/ stop_joins_udp
             \/ \E t \in Server : udp_thread_steps(t)
    BY <2>1, <2>5, UdpStep
  <2> QED BY <2>1, <2>2, <2>3, <2>4, <2>5 DEF GpsStep, gps_command_steps
<1>2. CASE UNCHANGED gps_vars
  BY <1>2, GpsRests
<1> QED BY <1>1, <1>2

\* The invariant gives the types, and what is claimed of the files.
LEMMA GpsInvMeans == GpsInv => GpsTypeOK /\ FilesAreClosed
BY DEF GpsInv, GpsTypes, GpsTypeOK, GpsFlagTypes, GpsFileTypes, GpsThreadTypes, GpsDataTypes,
       GpsUdpTypes, OneFile, FilesAreClosed, Idle

-----------------------------------------------------------------------------
(* The spectrum server *)

\* The data words hold one spectrum of the 120 kHz script, in its order.
Whole(type, first, second) ==
    type = "120KHZ" => first = Word(first.spectrum, 0) /\ second = Word(first.spectrum, 1)

\* A script that writes is the one the type in the memory names, the memory is not
\* marked ready meanwhile, and a command that is not done tells what was started.
OneScript ==
    /\ script_pc # "acquires" => /\ script \in Types /\ ~shm_ready
                                 /\ spec_cmd \in {"idle", "join"}
    /\ spec_cmd \in {"idle", "join"} => shm_type = script
    /\ spec_cmd = "set_type" => shm_type = NoType
    /\ spec_cmd = "set_none" => script = NoType

\* No word is of a spectrum to come, and those of the spectrum that is written are
\* where its script puts them.
WordsSoFar ==
    /\ \A w \in Words : shm_words[w].spectrum <= taken
    /\ script_pc = "half" => \A w \in Words : shm_words[w].spectrum < taken
    /\ script_pc \in {"rest", "done"} /\ script = "120KHZ" => shm_words["data0"] = Word(taken, 0)
    /\ script_pc = "done" /\ script = "120KHZ" => shm_words["data1"] = Word(taken, 1)

\* What is marked ready is whole, and of the script that runs or is being stopped.
ReadyIsWhole ==
    shm_ready /\ shm_type \in Types /\ ~spec_overlap =>
        /\ Whole(shm_type, shm_words["data0"], shm_words["data1"])
        /\ shm_type = script \/ spec_cmd = "set_none"

\* While the thread copies, the memory stays as it was when it looked.
CopyIsOfTheReady ==
    ~spec_overlap =>
        /\ server_pc \in {"copies", "copying"} => shm_ready /\ shm_type \in Types /\ seen = shm_type
        /\ server_pc = "copying" => /\ current_type = seen
                                    /\ current_data[1] = shm_words["data0"]

\* What is served is whole, in the words of the above.
CurrentIsWhole ==
    current_ready /\ server_pc # "copying" /\ ~spec_overlap =>
        /\ current_type \in Types
        /\ current_type = script \/ spec_cmd = "set_none"
        /\ current_data = <<current_data[1], current_data[2]>>
        /\ Whole(current_type, current_data[1], current_data[2])

ShmTypes ==
    /\ shm_ready \in BOOLEAN /\ shm_type \in Types \cup {NoType}
    /\ shm_words \in [Words -> [spectrum : 0..MaxSpectra, at : 0..2]]
ScriptTypes ==
    /\ spec_session \in SpecSessions
    /\ script \in Types \cup {NoType} /\ taken \in 0..MaxSpectra
    /\ script_pc \in {"acquires", "half", "rest", "done"}
    /\ spec_cmd \in {"idle", "set_type", "set_none", "join"}
    /\ spec_commands \in 0..spec_session.commands
ServerTypes ==
    /\ server_running \in BOOLEAN /\ seen \in Types \cup {NoType}
    /\ server_pc \in {"looks", "copies", "copying", "copied", "receives", "ended"}
    /\ current_type \in Types \cup {NoType} /\ current_ready \in BOOLEAN
    /\ spec_overlap \in BOOLEAN
RateTypes ==
    /\ Known \subseteq Clients /\ IsFiniteSet(Known) /\ Cardinality(Known) <= MaxClients
    /\ asked \in Clients \cup {NoType} /\ answered \in Clients \cup {NoType}
SpecTypes == ShmTypes /\ ScriptTypes /\ ServerTypes /\ RateTypes

SpecInv == SpecTypes /\ OneScript /\ WordsSoFar /\ ReadyIsWhole /\ CopyIsOfTheReady /\ CurrentIsWhole

\* The bounds of a behaviour are numbers within the constants.
LEMMA SpecBounds ==
    ASSUME ScriptTypes
    PROVE  /\ MaxSpectra \in Nat /\ MaxClients \in Nat
           /\ spec_session.spectra \in 0..MaxSpectra /\ spec_session.commands \in Nat
           /\ spec_session.clients \subseteq Clients
BY SpecAssumption DEF ScriptTypes

\* A word that is written is a word.
LEMMA WordType ==
    ASSUME NEW n \in 0..MaxSpectra, NEW k \in 0..2
    PROVE  /\ Word(n, k) \in [spectrum : 0..MaxSpectra, at : 0..2]
           /\ Word(n, k).spectrum = n
BY DEF Word

LEMMA InitSpecInv == SpecInit => SpecInv
<1> SUFFICES ASSUME SpecInit PROVE SpecInv
  OBVIOUS
<1>0. MaxSpectra \in Nat /\ MaxClients \in Nat /\ 0 \in 0..MaxSpectra
  BY SpecAssumption
<1>1. ShmTypes
  <2>1. Word(0, 0) \in [spectrum : 0..MaxSpectra, at : 0..2]
    BY <1>0, WordType
  <2>2. /\ shm_ready = FALSE /\ shm_type = NoType /\ shm_words = [w \in Words |-> Word(0, 0)]
    BY DEF SpecInit
  <2> QED BY <2>1, <2>2 DEF ShmTypes
<1>2. ScriptTypes
  <2>1. spec_session.commands \in Nat
    BY SpecAssumption DEF SpecInit
  <2> QED BY <1>0, <2>1 DEF SpecInit, ScriptTypes
<1>3. ServerTypes
  BY DEF SpecInit, ServerTypes
<1>4. RateTypes
  <2>1. Known = {}
    BY DEF SpecInit, Known
  <2>2. IsFiniteSet(Known) /\ Cardinality(Known) = 0
    BY <2>1, FS_EmptySet
  <2> QED BY <1>0, <2>1, <2>2 DEF SpecInit, RateTypes
<1>5. OneScript
  BY DEF SpecInit, OneScript
<1>6. WordsSoFar
  <2>1. /\ \A w \in Words : shm_words[w].spectrum = 0
        /\ taken = 0 /\ script_pc = "acquires"
    BY <1>0, WordType DEF SpecInit, Words, Word
  <2> QED BY <2>1 DEF WordsSoFar
<1>7. ReadyIsWhole /\ CopyIsOfTheReady /\ CurrentIsWhole
  BY DEF SpecInit, ReadyIsWhole, CopyIsOfTheReady, CurrentIsWhole
<1> QED BY <1>1, <1>2, <1>3, <1>4, <1>5, <1>6, <1>7 DEF SpecInv, SpecTypes

\* The history variable stays a truth value, and does not forget.
LEMMA OverlapStays ==
    ASSUME spec_overlap \in BOOLEAN, NEW b \in BOOLEAN, spec_overlap' = (spec_overlap \/ b)
    PROVE  spec_overlap' \in BOOLEAN /\ (~spec_overlap' => ~spec_overlap /\ ~b)
BY Zenon

\* A script has a spectrum and clears the mark.
LEMMA AcquiresStep ==
    ASSUME SpecInv, spec_session' = spec_session, NEW type \in Types, acquires(type)
    PROVE  SpecInv'
<1> USE DEF server_vars, current_vars, rate_vars
<1>0. /\ ShmTypes /\ ScriptTypes /\ ServerTypes /\ RateTypes
      /\ MaxSpectra \in Nat /\ spec_session.spectra \in 0..MaxSpectra
  BY SpecBounds DEF SpecInv, SpecTypes
<1>1. /\ spec_overlap' \in BOOLEAN
      /\ ~spec_overlap' => ~spec_overlap /\ ~CopyUnderWay
  BY <1>0, Zenon DEF acquires, ServerTypes
<1>2. /\ shm_ready' = FALSE /\ shm_type' = type /\ script = type /\ script' = type
      /\ taken' = taken + 1 /\ script_pc' = "half" /\ taken \in Nat
      /\ UNCHANGED <<shm_words, spec_cmd, spec_commands, server_running, server_pc, seen,
                     current_type, current_ready, current_data, client_rates, asked, answered>>
      /\ spec_cmd # "set_type" /\ taken < spec_session.spectra
  BY <1>0 DEF acquires, ScriptTypes
<1>3. spec_cmd \in {"idle", "join"}
  <2>1. type # NoType BY DEF Types, NoType
  <2> QED BY <1>0, <1>2, <2>1 DEF SpecInv, OneScript, ScriptTypes
<1>4. SpecTypes'
  <2>1. taken' \in 0..MaxSpectra BY <1>0, <1>2
  <2>2. ShmTypes' /\ ServerTypes' /\ RateTypes'
    BY <1>0, <1>1, <1>2 DEF ShmTypes, ServerTypes, RateTypes, Known
  <2>3. ScriptTypes' BY <1>0, <1>2, <2>1 DEF ScriptTypes
  <2> QED BY <2>2, <2>3 DEF SpecTypes
<1>5. OneScript'
  <2>1. type # NoType BY DEF Types, NoType
  <2> QED BY <1>2, <1>3, <2>1 DEF OneScript
<1>6. WordsSoFar'
  <2>1. \A w \in Words : shm_words[w].spectrum <= taken /\ shm_words[w].spectrum \in Nat
    BY <1>0 DEF SpecInv, WordsSoFar, ShmTypes
  <2> QED BY <1>2, <2>1 DEF WordsSoFar
<1>7. ReadyIsWhole' /\ CopyIsOfTheReady'
  BY <1>1, <1>2 DEF ReadyIsWhole, CopyIsOfTheReady, CopyUnderWay
<1>8. CurrentIsWhole'
  BY <1>1, <1>2 DEF SpecInv, CurrentIsWhole
<1> QED BY <1>4, <1>5, <1>6, <1>7, <1>8 DEF SpecInv

\* A script writes some words where its layout has them.
LEMMA WritesStep ==
    ASSUME SpecInv, spec_session' = spec_session,
           write_to_shared_memory \/ write_processed_spectrum_to_shared_memory
    PROVE  SpecInv'
<1> USE DEF server_vars, current_vars, rate_vars
<1> DEFINE Writes(type, words, from, to) ==
               /\ script = type /\ script_pc = from /\ script_pc' = to
               /\ \A w \in Words \ words : shm_words'[w] = shm_words[w]
               /\ \A w \in words : shm_words'[w].spectrum = taken
               /\ shm_words' \in [Words -> [spectrum : 0..MaxSpectra, at : 0..2]]
<1>0. /\ ShmTypes /\ ScriptTypes /\ ServerTypes /\ RateTypes /\ MaxSpectra \in Nat
      /\ taken \in 0..MaxSpectra
  BY SpecBounds DEF SpecInv, SpecTypes, ScriptTypes
<1>1. UNCHANGED <<shm_ready, shm_type, script, taken, spec_cmd, spec_commands, server_vars,
                  current_vars, rate_vars>>
  BY DEF write_to_shared_memory, write_processed_spectrum_to_shared_memory, writes
<1>2. /\ spec_overlap' \in BOOLEAN
      /\ ~spec_overlap' => ~spec_overlap /\ ~CopyUnderWay
  <2>1. spec_overlap' = (spec_overlap \/ CopyUnderWay)
    BY Zenon DEF write_to_shared_memory, write_processed_spectrum_to_shared_memory, writes
  <2> QED BY <1>0, <2>1, Zenon DEF ServerTypes
<1>3. \A k \in 0..2 : /\ Word(taken, k) \in [spectrum : 0..MaxSpectra, at : 0..2]
                      /\ Word(taken, k).spectrum = taken
  BY <1>0, WordType
<1>4. \/ /\ Writes("STANDARD", {"baseline"}, "half", "rest")
      \/ /\ Writes("STANDARD", {"data0"}, "rest", "done")
         /\ shm_words'["data0"] = Word(taken, 1)
      \/ /\ Writes("120KHZ", {"baseline", "data0"}, "half", "rest")
         /\ shm_words'["data0"] = Word(taken, 0)
      \/ /\ Writes("120KHZ", {"data1"}, "rest", "done")
         /\ shm_words'["data1"] = Word(taken, 1)
  <2>1. CASE writes("STANDARD", data_offset_24, {"baseline"}, "half", "rest")
    <3>1. shm_words' = [w \in Words |-> IF w = "baseline" THEN Word(taken, 0) ELSE shm_words[w]]
      BY <2>1 DEF writes, data_offset_24
    <3> QED BY <2>1, <3>1, <1>0, <1>3 DEF writes, ShmTypes, Words
  <2>2. CASE writes("STANDARD", data_offset_24, {"data0"}, "rest", "done")
    <3>1. shm_words' = [w \in Words |-> IF w = "data0" THEN Word(taken, 1) ELSE shm_words[w]]
      BY <2>2 DEF writes, data_offset_24
    <3> QED BY <2>2, <3>1, <1>0, <1>3 DEF writes, ShmTypes, Words
  <2>3. CASE writes("120KHZ", data_offset_32, {"baseline", "data0"}, "half", "rest")
    <3>1. shm_words' = [w \in Words |-> IF w = "baseline" THEN Word(taken, 2)
                                        ELSE IF w = "data0" THEN Word(taken, 0) ELSE shm_words[w]]
      BY <2>3 DEF writes, data_offset_32
    <3> QED BY <2>3, <3>1, <1>0, <1>3 DEF writes, ShmTypes, Words
  <2>4. CASE writes("120KHZ", data_offset_32, {"data1"}, "rest", "done")
    <3>1. shm_words' = [w \in Words |-> IF w = "data1" THEN Word(taken, 1) ELSE shm_words[w]]
      BY <2>4 DEF writes, data_offset_32
    <3> QED BY <2>4, <3>1, <1>0, <1>3 DEF writes, ShmTypes, Words
  <2> QED BY <2>1, <2>2, <2>3, <2>4
          DEF write_to_shared_memory, write_processed_spectrum_to_shared_memory
<1>5. /\ script_pc # "acquires" /\ script_pc' \in {"rest", "done"}
      /\ shm_words' \in [Words -> [spectrum : 0..MaxSpectra, at : 0..2]]
  BY <1>4
<1>6. SpecTypes'
  <2>1. ShmTypes' BY <1>0, <1>1, <1>5 DEF ShmTypes
  <2>2. ScriptTypes' BY <1>0, <1>1, <1>5 DEF ScriptTypes
  <2>3. ServerTypes' /\ RateTypes' BY <1>0, <1>1, <1>2 DEF ServerTypes, RateTypes, Known
  <2> QED BY <2>1, <2>2, <2>3 DEF SpecTypes
<1>7. OneScript'
  BY <1>1, <1>5 DEF SpecInv, OneScript
<1>8. WordsSoFar'
  <2>1. \A w \in Words : shm_words[w].spectrum <= taken /\ shm_words[w].spectrum \in Nat
    BY <1>0 DEF SpecInv, WordsSoFar, ShmTypes
  <2>2. \A w \in Words : shm_words'[w].spectrum <= taken
    BY <1>0, <1>4, <2>1 DEF Words
  <2>3. /\ script_pc = "half" => shm_words["data1"].spectrum < taken
        /\ script_pc = "rest" /\ script = "120KHZ" => shm_words["data0"] = Word(taken, 0)
    BY DEF SpecInv, WordsSoFar, Words
  <2> QED BY <1>1, <1>4, <2>2, <2>3 DEF WordsSoFar, Words
<1>9. ReadyIsWhole' /\ CopyIsOfTheReady'
  <2>1. ~shm_ready'
    BY <1>1, <1>5 DEF SpecInv, OneScript
  <2>2. ~spec_overlap' => server_pc' \notin {"copies", "copying"}
    BY <1>1, <1>2 DEF CopyUnderWay
  <2> QED BY <2>1, <2>2 DEF ReadyIsWhole, CopyIsOfTheReady
<1>10. CurrentIsWhole'
  BY <1>1, <1>2 DEF SpecInv, CurrentIsWhole
<1> QED BY <1>6, <1>7, <1>8, <1>9, <1>10 DEF SpecInv

\* A script marks its spectrum ready.
LEMMA ReadyStep ==
    ASSUME SpecInv, spec_session' = spec_session, says_ready
    PROVE  SpecInv'
<1> USE DEF server_vars, current_vars, rate_vars
<1>0. /\ ShmTypes /\ ScriptTypes /\ ServerTypes /\ RateTypes /\ taken \in Nat
  BY SpecBounds DEF SpecInv, SpecTypes, ScriptTypes
<1>1. /\ shm_ready' = TRUE /\ script_pc = "done" /\ script_pc' = "acquires"
      /\ UNCHANGED <<shm_type, shm_words, script, taken, spec_cmd, spec_commands, server_vars,
                     current_vars, rate_vars>>
  BY DEF says_ready
<1>2. /\ spec_overlap' \in BOOLEAN
      /\ ~spec_overlap' => ~spec_overlap /\ ~CopyUnderWay
  BY <1>0, Zenon DEF says_ready, ServerTypes
<1>3. SpecTypes'
  BY <1>0, <1>1, <1>2 DEF SpecTypes, ShmTypes, ScriptTypes, ServerTypes, RateTypes, Known
<1>4. OneScript' /\ WordsSoFar'
  BY <1>1 DEF SpecInv, OneScript, WordsSoFar
<1>5. ReadyIsWhole'
  <2>1. shm_type = script
    BY <1>1 DEF SpecInv, OneScript
  <2>2. Word(taken, 0).spectrum = taken /\ Word(taken, 1).spectrum = taken
    BY DEF Word
  <2>3. Whole(shm_type, shm_words["data0"], shm_words["data1"])
    BY <1>1, <2>1, <2>2 DEF SpecInv, WordsSoFar, Whole
  <2> QED BY <1>1, <2>1, <2>3 DEF ReadyIsWhole, Whole
<1>6. CopyIsOfTheReady'
  BY <1>1, <1>2 DEF CopyIsOfTheReady, CopyUnderWay
<1>7. CurrentIsWhole'
  BY <1>1, <1>2 DEF SpecInv, CurrentIsWhole, Whole
<1> QED BY <1>3, <1>4, <1>5, <1>6, <1>7 DEF SpecInv

\* The commands: a script starts or stops, and the server stops.
LEMMA CommandStep ==
    ASSUME SpecInv, spec_session' = spec_session,
           \/ \E type \in Types : start_spec(type)
           \/ stop_spec \/ spec_server_stop \/ spec_server_joined
    PROVE  SpecInv'
<1> USE DEF shm_vars, script_vars, server_vars, current_vars, rate_vars
<1>0. /\ ShmTypes /\ ScriptTypes /\ ServerTypes /\ RateTypes
      /\ spec_session.commands \in Nat
  BY SpecBounds DEF SpecInv, SpecTypes
<1>1. /\ UNCHANGED <<shm_vars, taken, server_pc, seen, current_vars, spec_overlap, rate_vars>>
      /\ server_running' = server_running \/ server_running' = FALSE
  BY DEF start_spec, stop_spec, spec_server_stop, spec_server_joined
<1>2. \/ /\ spec_cmd = "idle" /\ script = NoType /\ script' \in Types
         /\ script_pc' = "acquires" /\ spec_cmd' = "set_type"
      \/ /\ spec_cmd = "idle" /\ script' = NoType
         /\ script_pc' = "acquires" /\ spec_cmd' = "set_none"
      \/ /\ spec_cmd \in {"idle", "join"} /\ spec_cmd' \in {"idle", "join"}
         /\ UNCHANGED <<script, script_pc>>
  BY DEF start_spec, stop_spec, spec_server_stop, spec_server_joined
<1>3. SpecTypes'
  <2>1. spec_commands' \in 0..spec_session.commands
    BY <1>0 DEF start_spec, stop_spec, spec_server_stop, spec_server_joined, ScriptTypes
  <2>2. ScriptTypes'
    BY <1>0, <1>1, <1>2, <2>1 DEF ScriptTypes
  <2>3. ShmTypes' /\ ServerTypes' /\ RateTypes'
    BY <1>0, <1>1 DEF ShmTypes, ServerTypes, RateTypes, Known
  <2> QED BY <2>2, <2>3 DEF SpecTypes
<1>4. shm_type = script
  BY <1>2 DEF SpecInv, OneScript
<1>5. OneScript' /\ WordsSoFar'
  BY <1>1, <1>2, <1>4 DEF SpecInv, OneScript, WordsSoFar
<1>6. ReadyIsWhole' /\ CopyIsOfTheReady' /\ CurrentIsWhole'
  <2>1. NoType \notin Types BY DEF Types, NoType
  <2> QED BY <1>1, <1>2, <1>4, <2>1
          DEF SpecInv, ReadyIsWhole, CopyIsOfTheReady, CurrentIsWhole, Whole
<1> QED BY <1>3, <1>5, <1>6 DEF SpecInv

\* The command thread sets the type for the script that was started, or for none.
LEMMA SetTypeStep ==
    ASSUME SpecInv, spec_session' = spec_session, spec_server_set_active_type
    PROVE  SpecInv'
<1> USE DEF script_vars, server_vars, rate_vars
<1>0. /\ ShmTypes /\ ScriptTypes /\ ServerTypes /\ RateTypes
  BY DEF SpecInv, SpecTypes
<1>1. /\ spec_cmd \in {"set_type", "set_none"} /\ spec_cmd' = "idle"
      /\ current_type' = script /\ shm_type' = script /\ current_ready' = FALSE
      /\ server_pc # "copying"
      /\ UNCHANGED <<shm_ready, shm_words, script_vars, spec_commands, server_vars,
                     current_data, rate_vars>>
  BY DEF spec_server_set_active_type
<1>2. /\ spec_overlap' \in BOOLEAN
      /\ ~spec_overlap' => ~CopyUnderWay /\ ~(shm_ready /\ script # NoType)
  <2>1. (CopyUnderWay \/ (shm_ready /\ script # NoType)) \in BOOLEAN
    BY Zenon
  <2> QED BY <1>0, <2>1, Zenon DEF spec_server_set_active_type, ServerTypes
<1>3. SpecTypes'
  BY <1>0, <1>1, <1>2 DEF SpecTypes, ShmTypes, ScriptTypes, ServerTypes, RateTypes, Known
<1>4. OneScript' /\ WordsSoFar'
  BY <1>1 DEF SpecInv, OneScript, WordsSoFar
<1>5. ReadyIsWhole' /\ CopyIsOfTheReady' /\ CurrentIsWhole'
  <2>1. NoType \notin Types BY DEF Types, NoType
  <2> QED BY <1>1, <1>2, <2>1 DEF ReadyIsWhole, CopyIsOfTheReady, CurrentIsWhole, CopyUnderWay
<1> QED BY <1>3, <1>4, <1>5 DEF SpecInv

\* The thread of the server looks, copies and marks.
LEMMA ServerStep ==
    ASSUME SpecInv, spec_session' = spec_session,
           looks \/ copies \/ process_spectrum \/ marks_processed \/ receives_nothing
    PROVE  SpecInv'
<1> USE DEF shm_vars, script_vars, rate_vars, current_vars
<1>0. /\ ShmTypes /\ ScriptTypes /\ ServerTypes /\ RateTypes
  BY DEF SpecInv, SpecTypes
<1>1. UNCHANGED <<shm_type, shm_words, script_vars, spec_cmd, spec_commands, server_running,
                  spec_overlap, rate_vars>>
  BY DEF looks, copies, process_spectrum, marks_processed, receives_nothing
<1>2. shm_ready' = shm_ready \/ shm_ready' = FALSE
  BY DEF looks, copies, process_spectrum, marks_processed, receives_nothing
<1>3. SpecTypes'
  <2>1. ServerTypes'
    <3>1. CASE looks BY <3>1, <1>0, <1>1 DEF looks, ServerTypes, ShmTypes
    <3>2. CASE copies BY <3>2, <1>0, <1>1 DEF copies, ServerTypes
    <3>3. CASE process_spectrum BY <3>3, <1>0, <1>1 DEF process_spectrum, ServerTypes
    <3>4. CASE marks_processed \/ receives_nothing
      BY <3>4, <1>0, <1>1 DEF marks_processed, receives_nothing, ServerTypes
    <3> QED BY <3>1, <3>2, <3>3, <3>4
  <2> QED BY <1>0, <1>1, <1>2, <2>1 DEF SpecTypes, ShmTypes, ScriptTypes, RateTypes, Known
<1>4. OneScript' /\ WordsSoFar' /\ ReadyIsWhole'
  BY <1>0, <1>1, <1>2 DEF SpecInv, OneScript, WordsSoFar, ReadyIsWhole, ShmTypes, Whole
<1>5. CASE looks
  BY <1>1, <1>3, <1>4, <1>5 DEF looks, SpecInv, CopyIsOfTheReady, CurrentIsWhole, Whole
<1>6. CASE copies
  <2>1. CurrentIsWhole' BY <1>6 DEF copies, CurrentIsWhole
  <2>2. CopyIsOfTheReady' BY <1>1, <1>6 DEF copies, SpecInv, CopyIsOfTheReady
  <2> QED BY <1>3, <1>4, <2>1, <2>2 DEF SpecInv
<1>7. CASE process_spectrum
  <2>1. CopyIsOfTheReady' BY <1>7 DEF process_spectrum, CopyIsOfTheReady
  <2>2. current_data' = <<current_data[1], shm_words["data1"]>> /\ UNCHANGED current_type
    BY <1>7 DEF process_spectrum
  <2>3. CurrentIsWhole'
    <3> SUFFICES ASSUME ~spec_overlap
                 PROVE  /\ current_type \in Types
                        /\ current_type = script \/ spec_cmd = "set_none"
                        /\ Whole(current_type, current_data[1], shm_words["data1"])
      BY <1>1, <2>2 DEF CurrentIsWhole, Whole
    <3>1. /\ shm_ready /\ shm_type \in Types /\ seen = shm_type /\ current_type = seen
          /\ current_data[1] = shm_words["data0"]
      BY <1>7 DEF process_spectrum, SpecInv, CopyIsOfTheReady
    <3> QED BY <3>1 DEF SpecInv, ReadyIsWhole
  <2> QED BY <1>3, <1>4, <2>1, <2>3 DEF SpecInv
<1>8. CASE marks_processed \/ receives_nothing
  <2>1. CopyIsOfTheReady'
    BY <1>8 DEF marks_processed, receives_nothing, CopyIsOfTheReady
  <2>2. CurrentIsWhole'
    BY <1>1, <1>8 DEF marks_processed, receives_nothing, SpecInv, CurrentIsWhole, Whole
  <2> QED BY <1>3, <1>4, <2>1, <2>2 DEF SpecInv
<1> QED BY <1>5, <1>6, <1>7, <1>8

\* Requests and the clock: the table of clients stays within its bound.
LEMMA RateStep ==
    ASSUME SpecInv, spec_session' = spec_session,
           Tick \/ \E c \in spec_session.clients : receives_request(c)
    PROVE  SpecInv'
<1> USE DEF shm_vars, script_vars, server_vars, current_vars
<1>0. /\ ShmTypes /\ ScriptTypes /\ ServerTypes /\ RateTypes /\ MaxClients \in Nat
      /\ spec_session.clients \subseteq Clients
  BY SpecBounds DEF SpecInv, SpecTypes
<1>1. /\ UNCHANGED <<shm_vars, script_vars, spec_cmd, spec_commands, server_running, seen,
                     current_vars, spec_overlap>>
      /\ server_pc' = server_pc \/ (server_pc' = "looks" /\ server_pc = "receives")
  BY DEF Tick, receives_request
<1>2. RateTypes'
  <2>1. CASE Tick
    <3>1. Known' = Known BY <2>1 DEF Tick, Known
    <3> QED BY <1>0, <2>1, <3>1 DEF Tick, RateTypes
  <2>2. ASSUME NEW c \in spec_session.clients, receives_request(c) PROVE RateTypes'
    <3>1. /\ asked' \in Clients \cup {NoType} /\ answered' \in Clients \cup {NoType}
      BY <1>0, <2>2 DEF receives_request
    <3>2. CASE ~check_rate_limit(c) /\ UNCHANGED client_rates
      BY <1>0, <3>1, <3>2 DEF RateTypes, Known
    <3>3. CASE check_rate_limit(c) /\ starts_period(c)
      <4>1. Known' = Known \cup {c}
        BY <3>3 DEF starts_period, Known
      <4>2. IsFiniteSet(Known')
        BY <1>0, <4>1, FS_AddElement DEF RateTypes
      <4>3. Cardinality(Known') <= MaxClients
        <5>1. CASE c \in Known
          <6>1. Known' = Known BY <4>1, <5>1
          <6> QED BY <1>0, <6>1 DEF RateTypes
        <5>2. CASE c \notin Known
          <6>1. Cardinality(Known) < MaxClients
            BY <3>3, <5>2 DEF check_rate_limit
          <6>2. Cardinality(Known) \in Nat
            BY <1>0, FS_CardinalityType DEF RateTypes
          <6>3. Cardinality(Known') = Cardinality(Known) + 1
            BY <1>0, <4>1, <5>2, FS_AddElement DEF RateTypes
          <6> QED BY <1>0, <6>1, <6>2, <6>3
        <5> QED BY <5>1, <5>2
      <4> QED BY <1>0, <3>1, <4>1, <4>2, <4>3 DEF RateTypes
    <3> QED BY <2>2, <3>2, <3>3 DEF receives_request
  <2> QED BY <2>1, <2>2
<1>3. SpecTypes'
  BY <1>0, <1>1, <1>2 DEF SpecTypes, ShmTypes, ScriptTypes, ServerTypes
<1>4. OneScript' /\ WordsSoFar' /\ ReadyIsWhole'
  BY <1>1 DEF SpecInv, OneScript, WordsSoFar, ReadyIsWhole, Whole
<1>5. CopyIsOfTheReady' /\ CurrentIsWhole'
  BY <1>1 DEF SpecInv, CopyIsOfTheReady, CurrentIsWhole, Whole
<1> QED BY <1>3, <1>4, <1>5 DEF SpecInv

LEMMA NextSpecInv == SpecInv /\ [SpecNext]_spec_vars => SpecInv'
<1> SUFFICES ASSUME SpecInv, [SpecNext]_spec_vars PROVE SpecInv'
  OBVIOUS
<1>1. CASE SpecNext
  <2>1. SpecStep /\ spec_session' = spec_session
    BY <1>1 DEF SpecNext
  <2>2. CASE get_vacc_data \/ get_vacc_data_120khz
    BY <2>1, <2>2, AcquiresStep DEF get_vacc_data, get_vacc_data_120khz, Types
  <2>3. CASE write_to_shared_memory \/ write_processed_spectrum_to_shared_memory
    BY <2>1, <2>3, WritesStep
  <2>4. CASE says_ready
    BY <2>1, <2>4, ReadyStep
  <2>5. CASE \/ \E type \in Types : start_spec(type)
             \/ stop_spec \/ spec_server_stop \/ spec_server_joined
    BY <2>1, <2>5, CommandStep
  <2>6. CASE spec_server_set_active_type
    BY <2>1, <2>6, SetTypeStep
  <2>7. CASE server_steps \/ Tick
    <3>1. CASE looks \/ copies \/ process_spectrum \/ marks_processed \/ receives_nothing
      BY <2>1, <3>1, ServerStep
    <3>2. CASE Tick \/ \E c \in spec_session.clients : receives_request(c)
      BY <2>1, <3>2, RateStep
    <3> QED BY <2>7, <3>1, <3>2 DEF server_steps
  <2> QED BY <2>1, <2>2, <2>3, <2>4, <2>5, <2>6, <2>7 DEF SpecStep
<1>2. CASE UNCHANGED spec_vars
  <2> USE <1>2 DEF spec_vars, spec_moves, shm_vars, script_vars, server_vars, current_vars, rate_vars
  <2>1. SpecTypes'
    BY DEF SpecInv, SpecTypes, ShmTypes, ScriptTypes, ServerTypes, RateTypes, Known
  <2>2. OneScript' /\ WordsSoFar' /\ ReadyIsWhole' /\ CopyIsOfTheReady' /\ CurrentIsWhole'
    BY DEF SpecInv, OneScript, WordsSoFar, ReadyIsWhole, CopyIsOfTheReady, CurrentIsWhole, Whole
  <2> QED BY <2>1, <2>2 DEF SpecInv
<1> QED BY <1>1, <1>2

\* The invariant gives the types, and what is claimed of the spectrum served.
LEMMA SpecInvMeans == SpecInv => SpecTypeOK /\ ServedIsWhole
<1>1. SpecInv => SpecTypeOK
  BY DEF SpecInv, SpecTypes, SpecTypeOK, ShmTypes, ScriptTypes, ServerTypes, RateTypes
<1>2. SpecInv => ServedIsWhole
  BY DEF SpecInv, CurrentIsWhole, ServedIsWhole, Whole
<1> QED BY <1>1, <1>2

-----------------------------------------------------------------------------
(* The telemetry server *)

\* The flags that say a thread runs do, but for its first and its last moments.
FlagsTell ==
    /\ tel_server_running <=> tel_thread \in {"bind", "loop", "locks", "answers"}
    /\ system_monitor_running <=> sys_thread \in {"locks", "writes", "sleeps"}
    /\ stop_system_monitor <=> main \in {"sys_join", "sys_cleanup", "done"}
    /\ sys_thread \in {"ending", "ended"} => stop_system_monitor

\* Unless exit came early, main goes past the stop of a thread only when that has ended;
\* and past its own stop the monitor takes no sample, early or not.
EndsInOrder ==
    /\ ~early /\ main # "commands" => /\ tel_thread \notin {"socket", "bind"}
                                      /\ sys_thread \notin {"starting", "opened"}
    /\ ~early /\ main \in {"tel_cleanup", "system", "sys_join", "sys_cleanup", "done"} =>
           tel_thread = "ended"
    /\ main \in {"sys_cleanup", "done"} => sys_thread \notin {"locks", "writes"}
    /\ ~early /\ main \in {"sys_cleanup", "done"} => sys_thread = "ended"

\* The mutexes and the log live until main is at their end.
LiveUntilTheEnd ==
    /\ main \notin {"system", "sys_join", "sys_cleanup", "done"} => aquila_mutex /\ tel_log
    /\ main # "done" => sys_mutex
    /\ main = "commands" => pos_mutex

TelFlagTypes ==
    /\ tel_session \in TelSessions
    /\ tel_server_running \in BOOLEAN /\ stop_telemetry_server \in BOOLEAN
    /\ tel_thread \in {"socket", "bind", "loop", "locks", "answers", "ended"}
    /\ tel_log \in BOOLEAN
    /\ pos_initialized \in BOOLEAN /\ pos_mutex \in BOOLEAN /\ aquila_mutex \in BOOLEAN
AskTypes ==
    /\ inbox \in Seq(Requests) /\ request \in Requests \cup {NoRequest}
    /\ reply \in [to : Askers \cup {"nobody"}, id : Channels \cup {"none"}, data : BOOLEAN]
AquilaTypes ==
    /\ aquila_sent \in 0..MaxStatuses /\ datagrams \subseteq Statuses
    /\ aquila_status \in [Parts -> 0..MaxStatuses]
    /\ data_valid \in BOOLEAN /\ recent \in BOOLEAN
SysTypes ==
    /\ sys_thread \in {"starting", "opened", "locks", "writes", "sleeps",
                       "ending", "ended"}
    /\ system_monitor_running \in BOOLEAN /\ stop_system_monitor \in BOOLEAN
    /\ sys_owner \in {"nobody", "tel", "sys"} /\ sys_mutex \in BOOLEAN /\ sys_log \in BOOLEAN
MainTypes ==
    /\ main \in {"commands", "sensors", "uninitialize", "telemetry", "tel_join", "tel_cleanup",
                 "system", "sys_join", "sys_cleanup", "done"}
    /\ early \in BOOLEAN
TelTypes == TelFlagTypes /\ AskTypes /\ AquilaTypes /\ SysTypes /\ MainTypes

TelInv == TelTypes /\ FlagsTell /\ EndsInOrder /\ LiveUntilTheEnd /\ SamplesAreWhole

\* The bounds of a behaviour are within the constants.
LEMMA TelBounds ==
    ASSUME TelFlagTypes
    PROVE  /\ MaxStatuses \in Nat /\ tel_session.statuses \in 0..MaxStatuses
           /\ tel_session.asks \subseteq Channels
BY TelAssumption DEF TelFlagTypes

\* The stages of main in their order.
LEMMA StagesInOrder ==
    /\ After("sensors") = "uninitialize" /\ After("uninitialize") = "telemetry"
    /\ After("tel_cleanup") = "system"
<1>1. (CHOOSE k \in 1..9 : Stages[k] = "sensors") = 2
  BY DEF Stages
<1>2. (CHOOSE k \in 1..9 : Stages[k] = "uninitialize") = 3
  BY DEF Stages
<1>3. (CHOOSE k \in 1..9 : Stages[k] = "tel_cleanup") = 6
  BY DEF Stages
<1> QED BY <1>1, <1>2, <1>3 DEF After, Stages

LEMMA InitTelInv == TelInit => TelInv
<1> SUFFICES ASSUME TelInit PROVE TelInv
  OBVIOUS
<1>0. MaxStatuses \in Nat /\ 0 \in 0..MaxStatuses
  BY TelAssumption
<1>1. TelFlagTypes BY DEF TelInit, TelFlagTypes
<1>2. AskTypes
  <2>1. inbox \in Seq(Requests) BY DEF TelInit
  <2>2. request \in Requests \cup {NoRequest} BY DEF TelInit
  <2>3. reply \in [to : Askers \cup {"nobody"}, id : Channels \cup {"none"}, data : BOOLEAN]
    BY DEF TelInit
  <2> QED BY <2>1, <2>2, <2>3 DEF AskTypes
<1>3. AquilaTypes
  <2>1. /\ aquila_sent = 0 /\ datagrams = {} /\ aquila_status = [p \in Parts |-> 0]
        /\ data_valid = FALSE /\ recent = FALSE
    BY DEF TelInit
  <2> QED BY <1>0, <2>1 DEF AquilaTypes
<1>4. SysTypes /\ MainTypes
  BY DEF TelInit, SysTypes, MainTypes
<1>5. FlagsTell /\ EndsInOrder /\ LiveUntilTheEnd
  BY DEF TelInit, FlagsTell, EndsInOrder, LiveUntilTheEnd
<1>6. SamplesAreWhole
  BY DEF TelInit, SamplesAreWhole
<1> QED BY <1>1, <1>2, <1>3, <1>4, <1>5, <1>6 DEF TelInv, TelTypes

\* The server thread begins, ends, and gets the messages of the recorder's monitor.
LEMMA TelThreadStep ==
    ASSUME TelInv, tel_session' = tel_session, main # "done",
           telemetry_init_socket \/ aquila_status_update_from_json \/ telemetry_server_thread_ends
    PROVE  TelInv'
<1> USE DEF tel_vars, ask_vars, aquila_vars, sys_vars, source_vars, end_vars
<1>0. TelFlagTypes /\ AskTypes /\ AquilaTypes /\ SysTypes /\ MainTypes
  BY DEF TelInv, TelTypes
<1>1. UNCHANGED <<sys_vars, source_vars, end_vars, tel_log, aquila_mutex, ask_vars>>
  BY DEF telemetry_init_socket, aquila_status_update_from_json, telemetry_server_thread_ends
<1>2. /\ tel_thread' = tel_thread \/ (tel_thread \in {"socket", "bind", "loop"}
                                      /\ tel_thread' \in {"bind", "loop", "ended"})
      /\ tel_thread' = "bind" => tel_thread \in {"bind", "socket"}
      /\ tel_server_running' <=> tel_thread' \in {"bind", "loop", "locks", "answers"}
      /\ tel_server_running' \in BOOLEAN /\ stop_telemetry_server' \in BOOLEAN
      /\ tel_thread' = "answers" => tel_thread = "answers"
  <2>1. CASE aquila_status_update_from_json
    BY <1>0, <2>1 DEF aquila_status_update_from_json, TelInv, FlagsTell, TelFlagTypes
  <2>2. CASE telemetry_init_socket
    <3>1. CASE /\ tel_thread = "socket"
               /\ \/ tel_thread' = "bind" /\ tel_server_running' = TRUE
                  \/ tel_thread' = "ended" /\ UNCHANGED tel_server_running
      <4>1. tel_server_running = FALSE
        BY <1>0, <3>1 DEF TelInv, FlagsTell, TelFlagTypes
      <4>2. stop_telemetry_server' \in BOOLEAN
        BY <1>0, <2>2 DEF telemetry_init_socket, TelFlagTypes
      <4> QED BY <3>1, <4>1, <4>2
    <3>2. CASE /\ tel_thread = "bind"
               /\ \/ tel_thread' = "loop" /\ UNCHANGED tel_server_running
                  \/ tel_thread' = "ended" /\ tel_server_running' = FALSE
      BY <1>0, <2>2, <3>2 DEF telemetry_init_socket, TelInv, FlagsTell, TelFlagTypes
    <3> QED BY <2>2, <3>1, <3>2 DEF telemetry_init_socket
  <2>3. CASE telemetry_server_thread_ends
    BY <1>0, <2>3 DEF telemetry_server_thread_ends
  <2> QED BY <2>1, <2>2, <2>3
<1>3. AquilaTypes' /\ \A p, q \in Parts : aquila_status'[p] = aquila_status'[q]
  <2>1. CASE aquila_status_update_from_json
    <3>1. PICK n \in datagrams : /\ datagrams' = datagrams \ {n}
                                 /\ aquila_status' = [p \in Parts |-> n]
      BY <2>1 DEF aquila_status_update_from_json
    <3>2. n \in 0..MaxStatuses
      BY <1>0, TelAssumption DEF AquilaTypes, Statuses
    <3> QED BY <1>0, <2>1, <3>1, <3>2 DEF aquila_status_update_from_json, AquilaTypes
  <2>2. CASE telemetry_init_socket \/ telemetry_server_thread_ends
    BY <1>0, <2>2 DEF telemetry_init_socket, telemetry_server_thread_ends, AquilaTypes,
       TelInv, SamplesAreWhole
  <2> QED BY <2>1, <2>2
<1>4. TelTypes'
  <2>1. TelFlagTypes' BY <1>0, <1>1, <1>2 DEF TelFlagTypes
  <2> QED BY <1>0, <1>1, <1>3, <2>1 DEF TelTypes, AskTypes, SysTypes, MainTypes
<1>5. FlagsTell' /\ LiveUntilTheEnd'
  BY <1>1, <1>2 DEF TelInv, FlagsTell, LiveUntilTheEnd
<1>6. EndsInOrder'
  BY <1>0, <1>1, <1>2 DEF TelInv, EndsInOrder, MainTypes
<1>7. SamplesAreWhole'
  BY <1>1, <1>2, <1>3 DEF TelInv, SamplesAreWhole
<1> QED BY <1>4, <1>5, <1>6, <1>7 DEF TelInv

\* A request is taken, looked up and answered.
LEMMA AnswerStep ==
    ASSUME TelInv, tel_session' = tel_session, main # "done",
           telemetry_sock_listen \/ answers_request
    PROVE  TelInv'
<1> USE DEF tel_vars, ask_vars, aquila_vars, sys_vars, source_vars, end_vars
<1>0. TelFlagTypes /\ AskTypes /\ AquilaTypes /\ SysTypes /\ MainTypes
  BY DEF TelInv, TelTypes
<1> DEFINE Lookup == \/ system_channels \/ position_channels \/ aquila_channels
                     \/ heater_channels \/ unknown_channel
<1>1. /\ UNCHANGED <<sys_thread, system_monitor_running, stop_system_monitor, sys_mutex, sys_log,
                     source_vars, end_vars, tel_log, aquila_vars, tel_server_running,
                     stop_telemetry_server>>
      /\ tel_thread \in {"loop", "locks", "answers"}
      /\ tel_thread' \in {"loop", "locks", "answers"}
  <2>1. CASE Lookup
    BY <2>1 DEF system_channels, position_channels, aquila_channels, heater_channels,
       unknown_channel, looks_up
  <2>2. CASE telemetry_sock_listen \/ position_not_available \/ telemetry_send_metric
    BY <2>2 DEF telemetry_sock_listen, position_not_available, telemetry_send_metric
  <2> QED BY <2>1, <2>2 DEF answers_request
<1>2. /\ sys_owner' \in {"nobody", "tel", "sys"}
      /\ sys_owner = "sys" => sys_owner' = "sys"
  <2>1. CASE Lookup
    BY <1>0, <2>1 DEF system_channels, position_channels, aquila_channels, heater_channels,
       unknown_channel, looks_up, SysTypes
  <2>2. CASE telemetry_sock_listen \/ position_not_available
    BY <1>0, <2>2 DEF telemetry_sock_listen, position_not_available, SysTypes
  <2>3. CASE telemetry_send_metric
    <3>1. sys_owner' = IF sys_owner = "tel" THEN "nobody" ELSE sys_owner
      BY <2>3 DEF telemetry_send_metric
    <3> QED BY <1>0, <3>1 DEF SysTypes
  <2> QED BY <2>1, <2>2, <2>3 DEF answers_request
<1>3. AskTypes'
  <2>0. request.from \in Askers \cup {"nobody"} /\ request.id \in Channels \cup {"none"}
    BY <1>0 DEF AskTypes, Requests, NoRequest
  <2>1. CASE Lookup
    BY <1>0, <2>1 DEF system_channels, position_channels, aquila_channels, heater_channels,
       unknown_channel, looks_up, AskTypes
  <2>2. CASE telemetry_sock_listen
    <3>1. Head(inbox) \in Requests /\ Tail(inbox) \in Seq(Requests)
      BY <1>0, <2>2, HeadTailProperties DEF telemetry_sock_listen, AskTypes
    <3> QED BY <1>0, <2>2, <3>1 DEF telemetry_sock_listen, AskTypes
  <2>3. CASE position_not_available
    BY <1>0, <2>0, <2>3 DEF position_not_available, AskTypes
  <2>4. CASE telemetry_send_metric
    <3>1. PICK d \in CASE request.id = "aquila" -> {aquila_status_get_data}
                       [] request.id = "system" -> {sys_owner = "tel"}
                       [] request.id \in {"position", "heater"} -> BOOLEAN
                       [] OTHER -> {FALSE} :
              reply' = [to |-> request.from, id |-> request.id, data |-> d]
      BY <2>4, Zenon DEF telemetry_send_metric
    <3>2. {aquila_status_get_data} \subseteq BOOLEAN /\ {sys_owner = "tel"} \subseteq BOOLEAN
      BY Zenon DEF aquila_status_get_data
    <3>3. d \in BOOLEAN
      BY <3>1, <3>2
    <3>4. reply' \in [to : Askers \cup {"nobody"}, id : Channels \cup {"none"}, data : BOOLEAN]
      BY <2>0, <3>1, <3>3
    <3> QED BY <1>0, <2>4, <3>4 DEF telemetry_send_metric, AskTypes
  <2> QED BY <2>1, <2>2, <2>3, <2>4 DEF answers_request
<1>4. TelTypes'
  <2>1. TelFlagTypes' BY <1>0, <1>1 DEF TelFlagTypes
  <2> QED BY <1>0, <1>1, <1>2, <1>3, <2>1 DEF TelTypes, AquilaTypes, SysTypes, MainTypes
<1>5. FlagsTell' /\ LiveUntilTheEnd' /\ EndsInOrder'
  BY <1>0, <1>1 DEF TelInv, FlagsTell, LiveUntilTheEnd, EndsInOrder
<1>6. SamplesAreWhole'
  BY <1>1, <1>2 DEF TelInv, SamplesAreWhole
<1> QED BY <1>4, <1>5, <1>6 DEF TelInv

\* Those who ask, and the recorder's monitor.
LEMMA OutsideStep ==
    ASSUME TelInv, tel_session' = tel_session, asks \/ send_status_update \/ AquilaSilent
    PROVE  TelInv'
<1> USE DEF tel_vars, ask_vars, aquila_vars, sys_vars, source_vars, end_vars
<1>0. /\ TelFlagTypes /\ AskTypes /\ AquilaTypes /\ SysTypes /\ MainTypes
      /\ MaxStatuses \in Nat /\ tel_session.statuses \in 0..MaxStatuses
      /\ tel_session.asks \subseteq Channels
  BY TelBounds DEF TelInv, TelTypes
<1>1. UNCHANGED <<tel_vars, request, reply, aquila_status, data_valid, aquila_mutex, sys_vars,
                  source_vars, end_vars>>
  BY DEF asks, send_status_update, AquilaSilent
<1>2. AskTypes'
  <2>1. CASE asks
    <3>1. PICK a \in Askers, c \in tel_session.asks :
              inbox' = Append(inbox, [from |-> a, id |-> c])
      BY <2>1 DEF asks
    <3>2. [from |-> a, id |-> c] \in Requests
      BY <1>0 DEF Requests
    <3>3. inbox' \in Seq(Requests)
      BY <1>0, <3>1, <3>2, AppendProperties DEF AskTypes
    <3> QED BY <1>0, <1>1, <3>3 DEF AskTypes
  <2>2. CASE send_status_update \/ AquilaSilent
    BY <1>0, <2>2 DEF send_status_update, AquilaSilent, AskTypes
  <2> QED BY <2>1, <2>2
<1>3. AquilaTypes'
  <2>1. CASE send_status_update
    <3>1. aquila_sent + 1 \in Statuses /\ aquila_sent + 1 \in 0..MaxStatuses
      BY <1>0, <2>1 DEF send_status_update, AquilaTypes, Statuses
    <3> QED BY <1>0, <2>1, <3>1 DEF send_status_update, AquilaTypes
  <2>2. CASE asks \/ AquilaSilent
    BY <1>0, <2>2 DEF asks, AquilaSilent, AquilaTypes
  <2> QED BY <2>1, <2>2
<1>4. TelTypes'
  BY <1>0, <1>1, <1>2, <1>3 DEF TelTypes, TelFlagTypes, SysTypes, MainTypes
<1>5. FlagsTell' /\ LiveUntilTheEnd' /\ EndsInOrder' /\ SamplesAreWhole'
  BY <1>1 DEF TelInv, FlagsTell, LiveUntilTheEnd, EndsInOrder, SamplesAreWhole
<1> QED BY <1>4, <1>5 DEF TelInv

\* The thread of the system monitor.
LEMMA SysStep ==
    ASSUME TelInv, tel_session' = tel_session, main # "done", run_system_monitor_thread
    PROVE  TelInv'
<1> USE DEF tel_vars, ask_vars, aquila_vars, sys_vars, source_vars, end_vars,
            UNCHANGED_but_sys, run_system_monitor_thread, sys_starts, sys_samples, sys_ends
<1>0. TelFlagTypes /\ AskTypes /\ AquilaTypes /\ SysTypes /\ MainTypes
  BY DEF TelInv, TelTypes
<1>1. UNCHANGED <<tel_vars, ask_vars, aquila_vars, source_vars, end_vars, stop_system_monitor,
                  sys_mutex>>
  OBVIOUS
<1>2. SysTypes'
  BY <1>0 DEF SysTypes
<1>3. TelTypes'
  BY <1>0, <1>1, <1>2 DEF TelTypes, TelFlagTypes, AskTypes, AquilaTypes, MainTypes
<1>4. FlagsTell'
  BY <1>0 DEF TelInv, FlagsTell, SysTypes, MainTypes
<1>5. EndsInOrder' /\ LiveUntilTheEnd'
  BY <1>0 DEF TelInv, FlagsTell, EndsInOrder, LiveUntilTheEnd, SysTypes, MainTypes
<1>6. SamplesAreWhole'
  BY <1>0 DEF TelInv, SamplesAreWhole, SysTypes
<1> QED BY <1>3, <1>4, <1>5, <1>6 DEF TelInv

\* The end of main.
LEMMA MainStep ==
    ASSUME TelInv, tel_session' = tel_session, exits \/ main_ends
    PROVE  TelInv'
<1> USE DEF tel_vars, ask_vars, aquila_vars, sys_vars, source_vars
<1>0. TelFlagTypes /\ AskTypes /\ AquilaTypes /\ SysTypes /\ MainTypes
  BY DEF TelInv, TelTypes
<1>1. UNCHANGED <<tel_server_running, tel_thread, ask_vars, aquila_sent, datagrams, aquila_status,
                  data_valid, recent, sys_thread, system_monitor_running, sys_owner>>
  BY DEF exits, main_ends, position_sensors_cleanup, telemetry_server_stop,
         telemetry_server_cleanup, shutdown_system_monitor
<1>2. SamplesAreWhole'
  BY <1>1 DEF TelInv, SamplesAreWhole
<1>3. AskTypes' /\ AquilaTypes'
  BY <1>0, <1>1 DEF AskTypes, AquilaTypes
<1>4. CASE exits
  <2>1. /\ early' \in BOOLEAN
        /\ ~early' => /\ ~(tel_thread \in {"socket", "bind"})
                      /\ ~(sys_thread \in {"starting", "opened"})
    <3>1. early' = (tel_thread \in {"socket", "bind"} \/ sys_thread \in {"starting", "opened"})
      BY <1>4 DEF exits
    <3> QED BY <3>1, Zenon
  <2>2. TelTypes'
    BY <1>0, <1>3, <1>4, <2>1 DEF exits, TelTypes, TelFlagTypes, SysTypes, MainTypes
  <2>3. FlagsTell' /\ EndsInOrder' /\ LiveUntilTheEnd'
    BY <1>4, <2>1 DEF exits, TelInv, FlagsTell, EndsInOrder, LiveUntilTheEnd
  <2> QED BY <1>2, <2>2, <2>3 DEF TelInv
<1>5. CASE position_sensors_cleanup
  <2>1. /\ \/ main = "sensors" /\ main' = "uninitialize"
           \/ main = "uninitialize" /\ main' = "telemetry"
        /\ UNCHANGED <<tel_vars, aquila_vars, sys_vars, early>>
        /\ pos_mutex' = FALSE /\ pos_initialized' \in BOOLEAN
    BY <1>5, StagesInOrder DEF position_sensors_cleanup
  <2>2. TelTypes'
    <3>1. TelFlagTypes' BY <1>0, <1>1, <2>1 DEF TelFlagTypes
    <3>2. SysTypes' BY <1>0, <1>1, <2>1 DEF SysTypes
    <3>3. MainTypes' BY <1>0, <1>1, <2>1 DEF MainTypes
    <3> QED BY <1>3, <3>1, <3>2, <3>3 DEF TelTypes
  <2>3. FlagsTell' /\ EndsInOrder' /\ LiveUntilTheEnd'
    BY <2>1 DEF TelInv, FlagsTell, EndsInOrder, LiveUntilTheEnd
  <2> QED BY <1>2, <2>2, <2>3 DEF TelInv
<1>6. CASE telemetry_server_stop
  <2>1. TelTypes'
    <3>1. TelFlagTypes' BY <1>0, <1>6 DEF telemetry_server_stop, TelFlagTypes
    <3>2. SysTypes' BY <1>0, <1>6 DEF telemetry_server_stop, SysTypes
    <3>3. MainTypes' BY <1>0, <1>6 DEF telemetry_server_stop, MainTypes
    <3> QED BY <1>3, <3>1, <3>2, <3>3 DEF TelTypes
  <2>2. FlagsTell' /\ LiveUntilTheEnd'
    BY <1>6 DEF telemetry_server_stop, TelInv, FlagsTell, LiveUntilTheEnd
  <2>3. EndsInOrder'
    BY <1>0, <1>6 DEF telemetry_server_stop, TelInv, FlagsTell, EndsInOrder, TelFlagTypes
  <2> QED BY <1>2, <2>1, <2>2, <2>3 DEF TelInv
<1>7. CASE telemetry_server_cleanup
  <2>1. /\ main = "tel_cleanup" /\ main' = "system"
        /\ aquila_mutex' = FALSE /\ tel_log' = FALSE
        /\ UNCHANGED <<stop_telemetry_server, sys_vars, source_vars, early>>
    BY <1>7, StagesInOrder DEF telemetry_server_cleanup
  <2>2. TelTypes'
    <3>1. TelFlagTypes' BY <1>0, <1>1, <2>1 DEF TelFlagTypes
    <3>2. SysTypes' BY <1>0, <1>1, <2>1 DEF SysTypes
    <3>3. MainTypes' BY <1>0, <1>1, <2>1 DEF MainTypes
    <3> QED BY <1>3, <3>1, <3>2, <3>3 DEF TelTypes
  <2>3. FlagsTell' /\ EndsInOrder' /\ LiveUntilTheEnd'
    BY <1>1, <2>1 DEF TelInv, FlagsTell, EndsInOrder, LiveUntilTheEnd
  <2> QED BY <1>2, <2>2, <2>3 DEF TelInv
<1>8. CASE shutdown_system_monitor
  <2>1. TelTypes'
    <3>1. TelFlagTypes' BY <1>0, <1>8 DEF shutdown_system_monitor, TelFlagTypes
    <3>2. SysTypes' BY <1>0, <1>8 DEF shutdown_system_monitor, SysTypes
    <3>3. MainTypes' BY <1>0, <1>8 DEF shutdown_system_monitor, MainTypes
    <3> QED BY <1>3, <3>1, <3>2, <3>3 DEF TelTypes
  <2>2. FlagsTell' /\ LiveUntilTheEnd'
    BY <1>8 DEF shutdown_system_monitor, TelInv, FlagsTell, LiveUntilTheEnd
  <2>3. EndsInOrder'
    <3>1. /\ UNCHANGED <<tel_thread, sys_thread, early>>
          /\ \/ main = "system" /\ main' = "sys_join"
             \/ main = "system" /\ main' = "sys_cleanup" /\ ~system_monitor_running
             \/ main = "sys_join" /\ sys_thread = "ended" /\ main' = "sys_cleanup"
             \/ main = "sys_cleanup" /\ main' = "done"
      BY <1>8 DEF shutdown_system_monitor
    <3>2. main = "system" => ~stop_system_monitor /\ sys_thread \notin {"ending", "ended"}
      BY DEF TelInv, FlagsTell
    <3>3. ~system_monitor_running => sys_thread \notin {"locks", "writes", "sleeps"}
      BY DEF TelInv, FlagsTell
    <3>4. main # "commands" BY <3>1
    <3>5. main = "system" /\ ~system_monitor_running => early
      BY <1>0, <3>2, <3>3, <3>4 DEF TelInv, EndsInOrder, SysTypes
    <3> QED BY <3>1, <3>3, <3>5 DEF TelInv, EndsInOrder
  <2> QED BY <1>2, <2>1, <2>2, <2>3 DEF TelInv
<1> QED BY <1>4, <1>5, <1>6, <1>7, <1>8 DEF main_ends

LEMMA NextTelInv == TelInv /\ [TelNext]_telemetry_vars => TelInv'
<1> SUFFICES ASSUME TelInv, [TelNext]_telemetry_vars PROVE TelInv'
  OBVIOUS
<1>1. CASE TelNext
  <2>1. TelStep /\ tel_session' = tel_session
    BY <1>1 DEF TelNext
  <2>2. main # "done"
    BY <2>1 DEF TelStep
  <2>3. CASE \/ telemetry_init_socket \/ aquila_status_update_from_json
             \/ telemetry_server_thread_ends
    BY <2>1, <2>2, <2>3, TelThreadStep
  <2>4. CASE telemetry_sock_listen \/ answers_request
    BY <2>1, <2>2, <2>4, AnswerStep
  <2>5. CASE asks \/ send_status_update \/ AquilaSilent
    BY <2>1, <2>5, OutsideStep
  <2>6. CASE run_system_monitor_thread
    BY <2>1, <2>2, <2>6, SysStep
  <2>7. CASE exits \/ main_ends
    BY <2>1, <2>7, MainStep
  <2> QED BY <2>1, <2>3, <2>4, <2>5, <2>6, <2>7 DEF TelStep, telemetry_server_thread
<1>2. CASE UNCHANGED telemetry_vars
  <2> USE <1>2 DEF telemetry_vars, tel_moves, tel_vars, ask_vars, aquila_vars, sys_vars,
                   source_vars, end_vars
  <2>1. TelTypes'
    BY DEF TelInv, TelTypes, TelFlagTypes, AskTypes, AquilaTypes, SysTypes, MainTypes
  <2>2. FlagsTell' /\ EndsInOrder' /\ LiveUntilTheEnd' /\ SamplesAreWhole'
    BY DEF TelInv, FlagsTell, EndsInOrder, LiveUntilTheEnd, SamplesAreWhole
  <2> QED BY <2>1, <2>2 DEF TelInv
<1> QED BY <1>1, <1>2

\* The invariant gives the types, and what is claimed of the mutexes.
LEMMA TelInvMeans == TelInv => TelTypeOK /\ MutexesLive
<1> SUFFICES ASSUME TelInv PROVE TelTypeOK /\ MutexesLive
  OBVIOUS
<1>1. main \in {Stages[k] : k \in 1..10}
  BY DEF TelInv, TelTypes, MainTypes, Stages
<1>2. TelTypeOK
  BY <1>1 DEF TelInv, TelTypes, TelTypeOK, TelFlagTypes, AskTypes, AquilaTypes, SysTypes, MainTypes
<1>3. MutexesLive
  BY DEF TelInv, TelTypes, MainTypes, SysTypes, FlagsTell, EndsInOrder, LiveUntilTheEnd, MutexesLive
<1> QED BY <1>2, <1>3

-----------------------------------------------------------------------------
(* The commands to the other computers *)

\* How far a connection's thread is fits what it was asked; and unless a client gave up,
\* only the connection that is waited for was asked anything but the status.
HandlersFit ==
    /\ \A c \in Connections :
           /\ handler[c] \in {"checked", "started"} => asked_for[c] = "start_vlbi"
           /\ handler[c] = "terminated" => asked_for[c] = "stop_vlbi"
           /\ handler[c] = "script" => asked_for[c] = "configure_clock"
    /\ ~gave_up => \A c \in Connections :
           asked_for[c] \in Commands \cup {"configure_clock"} => c = waiting

\* What has not begun has no output, and what has told of its capture has been read.
RunsBegin ==
    /\ \A r \in Recorder : recorder[r] = "none" => monitor[r] = "none" /\ r \notin told
    /\ \A r \in told : monitor[r] # "none"

\* Unless two starts were past the check at once: what is alive is the daemon's run, and
\* there is none while a start is past the check, alone.
OneAlive ==
    ~vlbi_raced =>
        /\ \A r \in Recorder : recorder[r] \in {"running", "stopping"} => r = vlbi_process
        /\ \A c \in Connections : handler[c] = "checked" =>
               /\ \A r \in Recorder : recorder[r] \notin {"running", "stopping"}
               /\ \A d \in Connections \ {c} : handler[d] # "checked"

\* Unless a run also began early: all that is not over is the daemon's run, one start is
\* under way, before its output is read; and the stage tells whether a capture is read.
OneRun ==
    ~vlbi_raced /\ ~vlbi_early =>
        /\ \A r \in Recorder : recorder[r] \notin {"none", "ended"} => r = vlbi_process
        /\ \A r \in Recorder : monitor[r] = "reading" => r = vlbi_process
        /\ \A c \in Connections : handler[c] = "started" =>
               /\ \A d \in Connections \ {c} : handler[d] # "started"
               /\ vlbi_process \in Recorder /\ monitor[vlbi_process] = "none"
        /\ stage = "capturing" <=> \E r \in told : monitor[r] = "reading"

\* What a success says of the daemon.
SuccessIsTrue ==
    \A c \in Connections :
        /\ asked_for[c] = "stop_vlbi" /\ handler[c] = "success" => ~Running \/ gave_up
        /\ asked_for[c] = "start_vlbi" /\ handler[c] = "success" => vlbi_process # None

Places == {Free, "received", "checked", "started", "terminated", "script"} \cup Answers
ConnectionTypes ==
    /\ asked_for \in [Connections -> Commands \cup {"configure_clock", "get_vlbi_status", Free}]
    /\ handler \in [Connections -> Places]
DaemonTypes ==
    /\ vlbi_process \in Recorder \cup {None}
    /\ recorder \in [Recorder -> {"none", "running", "stopping", "lingering", "ended"}]
    /\ monitor \in [Recorder -> {"none", "reading", "ended"}] /\ told \subseteq Recorder
    /\ stage \in {"stopped", "capturing"}
    /\ vlbi_raced \in BOOLEAN /\ vlbi_early \in BOOLEAN
CommandTypes ==
    /\ remote_session \in RemoteSessions
    /\ waiting \in Connections \cup {None} /\ sent \in 0..remote_session.commands
    /\ gave_up \in BOOLEAN
StreamTypes ==
    /\ stop_streaming \in BOOLEAN /\ streaming \in {"off", "asks", "waits", "sleeps", "joined"}
    /\ poll \in Connections \cup {None} /\ vlbi_status_valid \in BOOLEAN
    /\ vlbi_is_running \in BOOLEAN
RemoteTypes == ConnectionTypes /\ DaemonTypes /\ CommandTypes /\ StreamTypes

RemoteInv == RemoteTypes /\ HandlersFit /\ RunsBegin /\ OneAlive /\ OneRun /\ SuccessIsTrue

\* The number that stands for no connection and no run is none of them.
LEMMA NoneIsNone == None \notin Connections /\ None \notin Recorder
BY RemoteAssumption DEF None, Connections, Recorder

LEMMA InitRemoteInv == RemoteInit => RemoteInv
<1> SUFFICES ASSUME RemoteInit PROVE RemoteInv
  OBVIOUS
<1>1. ConnectionTypes BY DEF RemoteInit, ConnectionTypes, Places
<1>2. DaemonTypes BY DEF RemoteInit, DaemonTypes
<1>3. CommandTypes
  <2>1. remote_session.commands \in Nat BY RemoteAssumption DEF RemoteInit
  <2>2. 0 \in 0..remote_session.commands BY <2>1
  <2> QED BY <2>2 DEF RemoteInit, CommandTypes
<1>4. StreamTypes BY DEF RemoteInit, StreamTypes
<1>5. HandlersFit BY DEF RemoteInit, HandlersFit, Commands, Free
<1>6. RunsBegin /\ SuccessIsTrue BY DEF RemoteInit, RunsBegin, SuccessIsTrue, Free
<1>7. OneAlive /\ OneRun BY DEF RemoteInit, OneAlive, OneRun, Free
<1> QED BY <1>1, <1>2, <1>3, <1>4, <1>5, <1>6, <1>7 DEF RemoteInv, RemoteTypes

\* What a change of one connection does: it connects, closes or goes on.
Changes(c, command, place) ==
    /\ ConnectionTypes'
    /\ asked_for'[c] = command /\ handler'[c] = place
    /\ \A d \in Connections \ {c} : asked_for'[d] = asked_for[d] /\ handler'[d] = handler[d]

LEMMA ClosesChanges ==
    ASSUME ConnectionTypes, NEW c \in Connections, closes(c)
    PROVE  Changes(c, Free, Free)
BY DEF Changes, closes, ConnectionTypes, Places

LEMMA GoesChanges ==
    ASSUME ConnectionTypes, NEW c \in Connections, NEW place \in Places, goes(c, place),
           UNCHANGED asked_for
    PROVE  Changes(c, asked_for[c], place)
BY DEF Changes, goes, ConnectionTypes

LEMMA AnswersChanges ==
    ASSUME ConnectionTypes, NEW c \in Connections, NEW a \in Answers, answers(c, a)
    PROVE  Changes(c, Free, Free) \/ (waiting = c /\ Changes(c, asked_for[c], a))
<1>1. CASE waiting = c
  BY <1>1, GoesChanges DEF answers, Places
<1>2. CASE waiting # c
  BY <1>2, ClosesChanges DEF answers
<1> QED BY <1>1, <1>2

\* A change of connections, while the daemon's runs stay as they are.
LEMMA DaemonRests ==
    ASSUME RemoteInv, UNCHANGED daemon_vars, gave_up' = gave_up \/ gave_up',
           \A c \in Connections : handler'[c] \in {"checked", "started"} => handler'[c] = handler[c],
           \A c \in Connections : asked_for'[c] \in {"start_vlbi", "stop_vlbi"}
                                      /\ handler'[c] = "success" =>
               asked_for[c] = asked_for'[c] /\ handler[c] = "success"
    PROVE  DaemonTypes' /\ RunsBegin' /\ OneAlive' /\ OneRun' /\ SuccessIsTrue'
<1> USE DEF daemon_vars, run_vars
<1>1. DaemonTypes' BY DEF RemoteInv, RemoteTypes, DaemonTypes
<1>2. RunsBegin' BY DEF RemoteInv, RunsBegin
<1>3. OneAlive' /\ OneRun' BY DEF RemoteInv, OneAlive, OneRun
<1>4. Running' <=> Running BY DEF Running, Alive
<1>5. SuccessIsTrue' BY <1>4 DEF RemoteInv, SuccessIsTrue
<1> QED BY <1>1, <1>2, <1>3, <1>5

\* The clients: a command is sent, answered or given up.
LEMMA SendStep ==
    ASSUME RemoteInv, remote_session' = remote_session, NEW c \in Connections,
           NEW command \in Commands, send_command(c, command)
    PROVE  RemoteInv'
<1>0. ConnectionTypes /\ DaemonTypes /\ CommandTypes /\ StreamTypes
  BY DEF RemoteInv, RemoteTypes
<1>1. Changes(c, command, "received")
  BY <1>0 DEF send_command, connects, Changes, ConnectionTypes, Places
<1>2. waiting = None /\ waiting' = c /\ UNCHANGED <<gave_up, daemon_vars, stream_vars>>
  BY DEF send_command
<1>3. CommandTypes'
  <2>1. remote_session.commands \in Nat BY <1>0, RemoteAssumption DEF CommandTypes
  <2>2. sent' \in 0..remote_session.commands BY <1>0, <2>1 DEF CommandTypes, send_command
  <2> QED BY <1>0, <1>2, <2>2 DEF CommandTypes
<1>4. HandlersFit'
  <2>1. ~gave_up => \A d \in Connections : asked_for[d] \notin Commands \cup {"configure_clock"}
    BY <1>2, NoneIsNone DEF RemoteInv, HandlersFit
  <2> QED BY <1>1, <1>2, <2>1 DEF RemoteInv, HandlersFit, Changes
<1>5. DaemonTypes' /\ RunsBegin' /\ OneAlive' /\ OneRun' /\ SuccessIsTrue'
  BY <1>1, <1>2, DaemonRests DEF Changes
<1>6. StreamTypes' BY <1>0, <1>2 DEF StreamTypes, stream_vars
<1> QED BY <1>1, <1>3, <1>4, <1>5, <1>6 DEF RemoteInv, RemoteTypes, Changes

LEMMA ResponseStep ==
    ASSUME RemoteInv, remote_session' = remote_session,
           receive_response \/ rfsoc_configure_ocxo \/ receive_times_out
    PROVE  RemoteInv'
<1>0. ConnectionTypes /\ DaemonTypes /\ CommandTypes /\ StreamTypes
  BY DEF RemoteInv, RemoteTypes
<1>1. waiting \in Connections /\ UNCHANGED daemon_vars
  BY <1>0, NoneIsNone DEF receive_response, rfsoc_configure_ocxo, receive_times_out, CommandTypes
<1>2. CASE receive_response
  <2>1. /\ Changes(waiting, Free, Free) /\ waiting' = None
        /\ UNCHANGED <<sent, gave_up, stop_streaming, poll, vlbi_status_valid, vlbi_is_running>>
        /\ streaming' \in {"asks", streaming}
    BY <1>0, <1>1, <1>2, ClosesChanges DEF receive_response
  <2>2. CommandTypes' /\ StreamTypes'
    BY <1>0, <2>1 DEF CommandTypes, StreamTypes
  <2>3. HandlersFit'
    BY <1>1, <2>1 DEF RemoteInv, HandlersFit, Changes, Commands, Free
  <2>4. DaemonTypes' /\ RunsBegin' /\ OneAlive' /\ OneRun' /\ SuccessIsTrue'
    BY <1>1, <2>1, DaemonRests DEF Changes, Free
  <2> QED BY <2>1, <2>2, <2>3, <2>4 DEF RemoteInv, RemoteTypes, Changes
<1>3. CASE rfsoc_configure_ocxo
  <2>1. Changes(waiting, "configure_clock", "received") /\ UNCHANGED <<command_vars, stream_vars>>
    BY <1>0, <1>1, <1>3 DEF rfsoc_configure_ocxo, Changes, ConnectionTypes, Places
  <2>2. CommandTypes' /\ StreamTypes'
    BY <1>0, <2>1 DEF CommandTypes, StreamTypes, command_vars, stream_vars
  <2>3. HandlersFit'
    BY <1>1, <2>1 DEF RemoteInv, HandlersFit, Changes, command_vars
  <2>4. DaemonTypes' /\ RunsBegin' /\ OneAlive' /\ OneRun' /\ SuccessIsTrue'
    BY <1>1, <2>1, DaemonRests DEF Changes, command_vars
  <2> QED BY <2>1, <2>2, <2>3, <2>4 DEF RemoteInv, RemoteTypes, Changes
<1>4. CASE receive_times_out
  <2>1. /\ waiting' = None /\ gave_up' = TRUE
        /\ UNCHANGED <<asked_for, handler, sent, stream_vars>>
    BY <1>4 DEF receive_times_out
  <2>2. ConnectionTypes' /\ CommandTypes' /\ StreamTypes'
    BY <1>0, <2>1 DEF ConnectionTypes, CommandTypes, StreamTypes, stream_vars
  <2>3. HandlersFit'
    BY <2>1 DEF RemoteInv, HandlersFit
  <2>4. DaemonTypes' /\ RunsBegin' /\ OneAlive' /\ OneRun' /\ SuccessIsTrue'
    BY <1>1, <2>1, DaemonRests
  <2> QED BY <2>2, <2>3, <2>4 DEF RemoteInv, RemoteTypes
<1> QED BY <1>2, <1>3, <1>4

\* The thread that polls the status, and the end of the program.
LEMMA PollStep ==
    ASSUME RemoteInv, remote_session' = remote_session, status_poll \/ vlbi_client_cleanup
    PROVE  RemoteInv'
<1>0. ConnectionTypes /\ DaemonTypes /\ CommandTypes /\ StreamTypes
  BY DEF RemoteInv, RemoteTypes
<1>1. UNCHANGED <<daemon_vars, command_vars>>
  BY DEF status_poll, vlbi_get_status, status_received, status_fails, vlbi_streaming_thread,
         vlbi_client_cleanup
<1>2. \/ UNCHANGED <<asked_for, handler>>
      \/ \E c \in Connections : Changes(c, "get_vlbi_status", "received")
      \/ \E c \in Connections : Changes(c, Free, Free)
  <2>1. CASE vlbi_streaming_thread \/ vlbi_client_cleanup
    BY <2>1 DEF vlbi_streaming_thread, vlbi_client_cleanup
  <2>2. ASSUME NEW c \in Connections, vlbi_get_status(c)
        PROVE  UNCHANGED <<asked_for, handler>> \/ Changes(c, "get_vlbi_status", "received")
    <3>1. connects(c, "get_vlbi_status") => Changes(c, "get_vlbi_status", "received")
      BY <1>0 DEF connects, Changes, ConnectionTypes, Places
    <3> QED BY <2>2, <3>1 DEF vlbi_get_status
  <2>3. CASE status_received \/ status_fails
    <3>1. closes(poll)
      BY <2>3 DEF status_received, status_fails
    <3>2. CASE poll \in Connections
      BY <1>0, <3>1, <3>2, ClosesChanges
    <3>3. CASE poll \notin Connections
      BY <1>0, <3>1, <3>3 DEF closes, ConnectionTypes
    <3> QED BY <3>2, <3>3
  <2> QED BY <2>1, <2>2, <2>3 DEF status_poll
<1>3. StreamTypes'
  <2>1. CASE vlbi_streaming_thread \/ vlbi_client_cleanup
    BY <1>0, <2>1 DEF vlbi_streaming_thread, vlbi_client_cleanup, StreamTypes
  <2>2. ASSUME NEW c \in Connections, vlbi_get_status(c) PROVE StreamTypes'
    BY <1>0, <2>2 DEF vlbi_get_status, StreamTypes
  <2>3. CASE status_received
    <3>1. vlbi_is_running' \in BOOLEAN
      BY <2>3, Zenon DEF status_received, Polled
    <3> QED BY <1>0, <2>3, <3>1 DEF status_received, StreamTypes
  <2>4. CASE status_fails
    BY <1>0, <2>4 DEF status_fails, StreamTypes
  <2> QED BY <2>1, <2>2, <2>3, <2>4 DEF status_poll
<1>4. ConnectionTypes' /\ CommandTypes'
  BY <1>0, <1>1, <1>2 DEF ConnectionTypes, CommandTypes, command_vars, Changes
<1>5. HandlersFit'
  BY <1>1, <1>2 DEF RemoteInv, HandlersFit, Changes, Commands, command_vars, Free
<1>6. DaemonTypes' /\ RunsBegin' /\ OneAlive' /\ OneRun' /\ SuccessIsTrue'
  BY <1>1, <1>2, DaemonRests DEF Changes, command_vars, Free
<1> QED BY <1>3, <1>4, <1>5, <1>6 DEF RemoteInv, RemoteTypes

\* The threads of the daemons, where no run of the script changes.
LEMMA AnswerOnlyStep ==
    ASSUME RemoteInv, remote_session' = remote_session, NEW c \in Connections,
           start_vlbi_fails(c) \/ configure_clock(c) \/ ping(c)
    PROVE  RemoteInv'
<1>0. ConnectionTypes /\ DaemonTypes /\ CommandTypes /\ StreamTypes
  BY DEF RemoteInv, RemoteTypes
<1>1. UNCHANGED <<daemon_vars, command_vars, stream_vars>>
  BY DEF start_vlbi_fails, configure_clock, ping
<1>2. \/ Changes(c, Free, Free)
      \/ asked_for[c] = "configure_clock" /\ Changes(c, "configure_clock", "script")
      \/ Changes(c, asked_for[c], "error")
      \/ /\ asked_for[c] \in {"configure_clock", "ping"}
         /\ Changes(c, asked_for[c], "success")
  <2>2. CASE start_vlbi_fails(c)
    BY <1>0, <2>2, AnswersChanges DEF start_vlbi_fails, Answers
  <2>3. CASE configure_clock(c)
    BY <1>0, <2>3, GoesChanges, AnswersChanges DEF configure_clock, Places, Answers
  <2>4. CASE ping(c)
    BY <1>0, <2>4, AnswersChanges DEF ping, Answers
  <2> QED BY <2>2, <2>3, <2>4
<1>3. ConnectionTypes' /\ CommandTypes' /\ StreamTypes'
  BY <1>0, <1>1, <1>2 DEF Changes, CommandTypes, StreamTypes, command_vars, stream_vars
<1>4. HandlersFit'
  BY <1>1, <1>2 DEF RemoteInv, HandlersFit, Changes, Commands, command_vars, Free
<1>5. DaemonTypes' /\ RunsBegin' /\ OneAlive' /\ OneRun' /\ SuccessIsTrue'
  BY <1>1, <1>2, DaemonRests DEF Changes, command_vars, Free
<1> QED BY <1>3, <1>4, <1>5 DEF RemoteInv, RemoteTypes

\* A start is checked: refused while a run is alive, or past the check.
LEMMA CheckStep ==
    ASSUME RemoteInv, remote_session' = remote_session, NEW c \in Connections,
           start_vlbi_checks(c)
    PROVE  RemoteInv'
<1>0. ConnectionTypes /\ DaemonTypes /\ CommandTypes /\ StreamTypes
  BY DEF RemoteInv, RemoteTypes
<1>1. UNCHANGED <<run_vars, command_vars, stream_vars>> /\ asked_for[c] = "start_vlbi"
  BY DEF start_vlbi_checks
<1>2. \/ (Changes(c, Free, Free) \/ Changes(c, asked_for[c], "error")) /\ UNCHANGED vlbi_raced
      \/ /\ ~Running /\ Changes(c, "start_vlbi", "checked")
         /\ vlbi_raced' = (vlbi_raced \/ \E d \in Connections \ {c} : handler[d] = "checked")
  BY <1>0, GoesChanges, AnswersChanges DEF start_vlbi_checks, Places, Answers
<1>3. /\ vlbi_raced' \in BOOLEAN
      /\ ~vlbi_raced' => ~vlbi_raced
  BY <1>0, <1>2, Zenon DEF DaemonTypes
<1>4. RemoteTypes'
  <2>1. DaemonTypes' BY <1>0, <1>1, <1>3 DEF DaemonTypes, run_vars
  <2> QED BY <1>0, <1>1, <1>2, <2>1 DEF RemoteTypes, Changes, CommandTypes, StreamTypes,
             command_vars, stream_vars
<1>5. HandlersFit'
  BY <1>1, <1>2 DEF RemoteInv, HandlersFit, Changes, Commands, command_vars, Free
<1>6. OneAlive'
  <2> SUFFICES ASSUME ~vlbi_raced' PROVE OneAlive'
    BY DEF OneAlive
  <2>1. /\ \A r \in Recorder : recorder[r] \in {"running", "stopping"} => r = vlbi_process
        /\ \A d \in Connections : handler[d] = "checked" =>
               /\ \A r \in Recorder : recorder[r] \notin {"running", "stopping"}
               /\ \A e \in Connections \ {d} : handler[e] # "checked"
    BY <1>3 DEF RemoteInv, OneAlive
  <2>2. UNCHANGED <<recorder, vlbi_process>>
    BY <1>1 DEF run_vars
  <2>3. CASE ~Running /\ Changes(c, "start_vlbi", "checked")
             /\ vlbi_raced' = (vlbi_raced \/ \E d \in Connections \ {c} : handler[d] = "checked")
    <3>1. \A r \in Recorder : recorder[r] \notin {"running", "stopping"}
      BY <2>1, <2>3 DEF Running, Alive
    <3>2. \A d \in Connections \ {c} : handler'[d] # "checked"
      BY <2>3 DEF Changes
    <3> QED BY <2>2, <3>1, <3>2, Zenon DEF OneAlive
  <2>4. CASE Changes(c, Free, Free) \/ Changes(c, asked_for[c], "error")
    <3>1. \A d \in Connections : handler'[d] = "checked" => handler[d] = "checked"
      BY <2>4 DEF Changes, Free
    <3> QED BY <2>1, <2>2, <3>1 DEF OneAlive
  <2> QED BY <1>2, <2>3, <2>4
<1>7. RunsBegin' /\ OneRun' /\ SuccessIsTrue'
  <2>1. RunsBegin' BY <1>1 DEF RemoteInv, RunsBegin, run_vars
  <2>2. \A d \in Connections : handler'[d] = "started" => handler[d] = "started"
    BY <1>2 DEF Changes, Free
  <2>3. OneRun' BY <1>1, <1>3, <2>2 DEF RemoteInv, OneRun, run_vars
  <2>4. (Running' <=> Running) /\ UNCHANGED <<vlbi_process, gave_up>>
    BY <1>1 DEF Running, Alive, run_vars, command_vars
  <2>5. \A d \in Connections : handler'[d] = "success" =>
            handler[d] = "success" /\ asked_for'[d] = asked_for[d]
    BY <1>2 DEF Changes, Free
  <2>6. SuccessIsTrue' BY <2>4, <2>5 DEF RemoteInv, SuccessIsTrue
  <2> QED BY <2>1, <2>3, <2>6
<1> QED BY <1>4, <1>5, <1>6, <1>7 DEF RemoteInv

\* The daemon starts the script.
LEMMA StartRunStep ==
    ASSUME RemoteInv, remote_session' = remote_session, NEW c \in Connections, start_vlbi(c)
    PROVE  RemoteInv'
<1>0. ConnectionTypes /\ DaemonTypes /\ CommandTypes /\ StreamTypes
  BY DEF RemoteInv, RemoteTypes
<1>1. PICK r \in Recorder : /\ recorder[r] = "none" /\ vlbi_process' = r
                            /\ recorder' = [recorder EXCEPT ![r] = "running"]
  BY DEF start_vlbi
<1>2. /\ Changes(c, asked_for[c], "started") /\ handler[c] = "checked"
      /\ UNCHANGED <<monitor, told, stage, vlbi_raced, command_vars, stream_vars>>
  BY <1>0, GoesChanges DEF start_vlbi, Places
<1>3. /\ vlbi_early' \in BOOLEAN
      /\ ~vlbi_early' => /\ ~vlbi_early
                         /\ ~ \E q \in Recorder : recorder[q] = "lingering" \/ monitor[q] = "reading"
                         /\ ~ \E d \in Connections \ {c} : handler[d] = "started"
  BY <1>0, Zenon DEF start_vlbi, DaemonTypes
<1>4. RemoteTypes'
  <2>1. DaemonTypes' BY <1>0, <1>1, <1>2, <1>3 DEF DaemonTypes
  <2>2. CommandTypes' /\ StreamTypes'
    BY <1>0, <1>2 DEF CommandTypes, StreamTypes, command_vars, stream_vars
  <2> QED BY <1>2, <2>1, <2>2 DEF RemoteTypes, Changes
<1>5. HandlersFit'
  BY <1>2 DEF RemoteInv, HandlersFit, Changes, command_vars
<1>6. RunsBegin'
  BY <1>0, <1>1, <1>2 DEF RemoteInv, RunsBegin, DaemonTypes
<1>9. ~vlbi_raced => /\ \A q \in Recorder : recorder[q] \notin {"running", "stopping"}
                     /\ \A d \in Connections \ {c} : handler[d] # "checked"
  BY <1>2 DEF RemoteInv, OneAlive
<1>10. OneAlive'
  <2> SUFFICES ASSUME ~vlbi_raced PROVE OneAlive'
    BY <1>2 DEF OneAlive
  <2>1. \A q \in Recorder : recorder'[q] \in {"running", "stopping"} => q = r
    BY <1>0, <1>1, <1>9 DEF DaemonTypes
  <2>2. \A d \in Connections : handler'[d] # "checked"
    BY <1>2, <1>9 DEF Changes
  <2> QED BY <1>1, <2>1, <2>2 DEF OneAlive
<1>7. OneRun'
  <2> SUFFICES ASSUME ~vlbi_raced, ~vlbi_early' PROVE OneRun'
    BY <1>2 DEF OneRun
  <2>1. \A q \in Recorder : recorder'[q] \notin {"none", "ended"} => q = r
    <3>1. \A q \in Recorder : recorder[q] \in {"none", "ended"}
      BY <1>0, <1>3, <1>9 DEF DaemonTypes
    <3> QED BY <1>0, <1>1, <3>1 DEF DaemonTypes
  <2>2. \A q \in Recorder : monitor'[q] # "reading"
    BY <1>2, <1>3
  <2>3. \A d \in Connections \ {c} : handler'[d] # "started"
    BY <1>2, <1>3 DEF Changes
  <2>4. monitor'[r] = "none"
    BY <1>1, <1>2 DEF RemoteInv, RunsBegin
  <2>5. stage' = "capturing" <=> \E q \in told' : monitor'[q] = "reading"
    BY <1>2, <1>3 DEF RemoteInv, OneRun
  <2> QED BY <1>1, <2>1, <2>2, <2>3, <2>4, <2>5 DEF OneRun
<1>8. SuccessIsTrue'
  <2>1. r # None BY NoneIsNone
  <2>2. ~gave_up => \A d \in Connections : asked_for[d] # "stop_vlbi"
    <3>1. asked_for[c] = "start_vlbi" BY <1>2 DEF RemoteInv, HandlersFit
    <3> QED BY <3>1 DEF RemoteInv, HandlersFit, Commands
  <2>3. \A d \in Connections : asked_for'[d] = asked_for[d]
    BY <1>2 DEF Changes
  <2> QED BY <1>1, <1>2, <2>1, <2>2, <2>3 DEF SuccessIsTrue, command_vars
<1> QED BY <1>4, <1>5, <1>6, <1>7, <1>8, <1>10 DEF RemoteInv

\* The start is answered, with a thread that reads the output.
LEMMA StartAnswerStep ==
    ASSUME RemoteInv, remote_session' = remote_session, NEW c \in Connections,
           start_vlbi_answers(c)
    PROVE  RemoteInv'
<1>0. ConnectionTypes /\ DaemonTypes /\ CommandTypes /\ StreamTypes
  BY DEF RemoteInv, RemoteTypes
<1>1. /\ UNCHANGED <<vlbi_process, recorder, told, stage, vlbi_early, vlbi_raced, command_vars,
                     stream_vars>>
      /\ handler[c] = "started"
  BY DEF start_vlbi_answers
<1>2. \/ Changes(c, Free, Free)
      \/ Changes(c, asked_for[c], "error")
      \/ Running /\ Changes(c, asked_for[c], "success")
  BY <1>0, AnswersChanges DEF start_vlbi_answers, Answers
<1>3. \/ Running /\ monitor' = [monitor EXCEPT ![vlbi_process] = "reading"]
      \/ UNCHANGED monitor
  BY DEF start_vlbi_answers
<1>4. Running => vlbi_process \in Recorder /\ recorder[vlbi_process] # "none" /\ vlbi_process # None
  BY NoneIsNone DEF Running, Alive
<1>5. RemoteTypes'
  <2>1. DaemonTypes' BY <1>0, <1>1, <1>3 DEF DaemonTypes
  <2>2. CommandTypes' /\ StreamTypes'
    BY <1>0, <1>1 DEF CommandTypes, StreamTypes, command_vars, stream_vars
  <2> QED BY <1>2, <2>1, <2>2 DEF RemoteTypes, Changes
<1>6. HandlersFit'
  BY <1>1, <1>2 DEF RemoteInv, HandlersFit, Changes, command_vars, Commands, Free
<1>7. RunsBegin'
  BY <1>0, <1>1, <1>3, <1>4 DEF RemoteInv, RunsBegin, DaemonTypes
<1>10. OneAlive'
  <2>1. \A d \in Connections : handler'[d] = "checked" => handler[d] = "checked"
    BY <1>2 DEF Changes, Free
  <2> QED BY <1>1, <2>1 DEF RemoteInv, OneAlive
<1>8. OneRun'
  <2> SUFFICES ASSUME ~vlbi_raced, ~vlbi_early PROVE OneRun'
    BY <1>1 DEF OneRun
  <2>1. /\ \A d \in Connections \ {c} : handler[d] # "started"
        /\ vlbi_process \in Recorder /\ monitor[vlbi_process] = "none"
    BY <1>1 DEF RemoteInv, OneRun
  <2>2. \A d \in Connections : handler'[d] # "started"
    BY <1>2, <2>1 DEF Changes, Free
  <2>3. vlbi_process \notin told
    BY <2>1 DEF RemoteInv, RunsBegin
  <2>4. \A r \in Recorder : monitor'[r] = "reading" => r = vlbi_process
    BY <1>0, <1>3 DEF RemoteInv, OneRun, DaemonTypes
  <2>5. \A r \in told : monitor'[r] = monitor[r]
    BY <1>0, <1>3, <2>3 DEF DaemonTypes
  <2>6. /\ stage = "capturing" <=> \E r \in told : monitor[r] = "reading"
        /\ \A r \in Recorder : recorder[r] \notin {"none", "ended"} => r = vlbi_process
    BY DEF RemoteInv, OneRun
  <2> QED BY <1>1, <2>2, <2>4, <2>5, <2>6 DEF OneRun
<1>9. SuccessIsTrue'
  <2>1. asked_for[c] = "start_vlbi"
    BY <1>1 DEF RemoteInv, HandlersFit
  <2>2. (Running' <=> Running) /\ UNCHANGED gave_up
    BY <1>1 DEF Running, Alive, command_vars
  <2> QED BY <1>1, <1>2, <1>4, <2>1, <2>2 DEF RemoteInv, SuccessIsTrue, Changes, Free
<1> QED BY <1>5, <1>6, <1>7, <1>8, <1>9, <1>10 DEF RemoteInv

\* The daemon stops the script.
LEMMA StopRunStep ==
    ASSUME RemoteInv, remote_session' = remote_session, NEW c \in Connections,
           stop_vlbi(c) \/ stop_vlbi_answers(c)
    PROVE  RemoteInv'
<1>0. ConnectionTypes /\ DaemonTypes /\ CommandTypes /\ StreamTypes
  BY DEF RemoteInv, RemoteTypes
<1>1. /\ UNCHANGED <<vlbi_process, monitor, told, stage, vlbi_early, vlbi_raced, command_vars,
                     stream_vars>>
      /\ asked_for[c] = "stop_vlbi"
  BY DEF stop_vlbi, stop_vlbi_answers, RemoteInv, HandlersFit
<1>2. \/ UNCHANGED recorder
      \/ /\ Running
         /\ \E place \in {"stopping", "lingering"} :
                recorder' = [recorder EXCEPT ![vlbi_process] = place]
  BY DEF stop_vlbi, stop_vlbi_answers
<1>3. \/ Changes(c, Free, Free)
      \/ Changes(c, asked_for[c], "error")
      \/ Changes(c, asked_for[c], "terminated")
      \/ Changes(c, asked_for[c], "success") /\ ~Running'
  <2>1. CASE stop_vlbi(c)
    BY <1>0, <2>1, GoesChanges, AnswersChanges DEF stop_vlbi, Places, Answers
  <2>2. CASE stop_vlbi_answers(c)
    <3>1. ~Running'
      BY <1>0, <1>1, <2>2 DEF stop_vlbi_answers, Running, Alive, DaemonTypes
    <3> QED BY <1>0, <2>2, <3>1, AnswersChanges DEF stop_vlbi_answers, Answers
  <2> QED BY <2>1, <2>2
<1>4. /\ \A r \in Recorder : /\ recorder'[r] = "none" <=> recorder[r] = "none"
                             /\ recorder'[r] \notin {"none", "ended"} =>
                                    recorder[r] \notin {"none", "ended"}
                             /\ recorder'[r] \in {"running", "stopping"} =>
                                    recorder[r] \in {"running", "stopping"}
      /\ DaemonTypes'
  BY <1>0, <1>1, <1>2 DEF DaemonTypes, Running, Alive
<1>5. RemoteTypes'
  <2>1. CommandTypes' /\ StreamTypes'
    BY <1>0, <1>1 DEF CommandTypes, StreamTypes, command_vars, stream_vars
  <2> QED BY <1>3, <1>4, <2>1 DEF RemoteTypes, Changes
<1>6. HandlersFit'
  BY <1>1, <1>3 DEF RemoteInv, HandlersFit, Changes, command_vars, Commands, Free
<1>7. RunsBegin'
  BY <1>1, <1>4 DEF RemoteInv, RunsBegin
<1>8. OneAlive' /\ OneRun'
  <2>1. \A d \in Connections : handler'[d] \in {"checked", "started"} => handler'[d] = handler[d]
    BY <1>3 DEF Changes, Free
  <2> QED BY <1>1, <1>4, <2>1 DEF RemoteInv, OneAlive, OneRun
<1>9. SuccessIsTrue'
  <2>1. Running' => Running
    BY <1>1, <1>4 DEF Running, Alive
  <2>2. UNCHANGED gave_up
    BY <1>1 DEF command_vars
  <2> QED BY <1>1, <1>3, <2>1, <2>2 DEF RemoteInv, SuccessIsTrue, Changes, Free
<1> QED BY <1>5, <1>6, <1>7, <1>8, <1>9 DEF RemoteInv

\* The script ends, and what it puts out is read.
LEMMA ScriptStep ==
    ASSUME RemoteInv, remote_session' = remote_session, NEW r \in Recorder,
           start_vlbi_logging(r) \/ parse_vlbi_output(r) \/ monitor_vlbi_output(r)
    PROVE  RemoteInv'
<1>0. ConnectionTypes /\ DaemonTypes /\ CommandTypes /\ StreamTypes
  BY DEF RemoteInv, RemoteTypes
<1>1. UNCHANGED <<asked_for, handler, vlbi_process, vlbi_early, vlbi_raced, command_vars, stream_vars>>
  BY DEF start_vlbi_logging, parse_vlbi_output, monitor_vlbi_output
<1>2. \/ /\ recorder[r] \notin {"none", "ended"}
         /\ \E place \in {"lingering", "ended"} : recorder' = [recorder EXCEPT ![r] = place]
         /\ UNCHANGED <<monitor, told, stage>>
      \/ /\ monitor[r] = "reading" /\ recorder[r] = "running"
         /\ stage' = "capturing" /\ told' = told \cup {r} /\ UNCHANGED <<recorder, monitor>>
      \/ /\ monitor[r] = "reading" /\ recorder[r] = "ended"
         /\ stage' = "stopped" /\ monitor' = [monitor EXCEPT ![r] = "ended"]
         /\ UNCHANGED <<recorder, told>>
  BY DEF start_vlbi_logging, parse_vlbi_output, monitor_vlbi_output
<1>3. RemoteTypes'
  <2>1. DaemonTypes' BY <1>0, <1>1, <1>2 DEF DaemonTypes
  <2> QED BY <1>0, <1>1, <2>1 DEF RemoteTypes, ConnectionTypes, CommandTypes, StreamTypes,
             command_vars, stream_vars
<1>4. HandlersFit'
  BY <1>1 DEF RemoteInv, HandlersFit, command_vars
<1>5. RunsBegin'
  BY <1>0, <1>2 DEF RemoteInv, RunsBegin, DaemonTypes
<1>8. OneAlive'
  <2>1. \A q \in Recorder : recorder'[q] \in {"running", "stopping"} =>
                             recorder[q] \in {"running", "stopping"}
    BY <1>0, <1>2 DEF DaemonTypes
  <2> QED BY <1>1, <2>1 DEF RemoteInv, OneAlive
<1>6. OneRun'
  <2> SUFFICES ASSUME ~vlbi_raced, ~vlbi_early PROVE OneRun'
    BY <1>1 DEF OneRun
  <2>0. /\ \A q \in Recorder : recorder[q] \notin {"none", "ended"} => q = vlbi_process
        /\ \A q \in Recorder : monitor[q] = "reading" => q = vlbi_process
        /\ \A c \in Connections : handler[c] = "started" =>
               /\ \A d \in Connections \ {c} : handler[d] # "started"
               /\ vlbi_process \in Recorder /\ monitor[vlbi_process] = "none"
        /\ stage = "capturing" <=> \E q \in told : monitor[q] = "reading"
    BY DEF RemoteInv, OneRun
  <2>1. \A q \in Recorder : recorder'[q] \notin {"none", "ended"} => q = vlbi_process
    BY <1>0, <1>2, <2>0 DEF DaemonTypes
  <2>2. \A q \in Recorder : /\ monitor'[q] = "reading" => q = vlbi_process
                            /\ monitor[q] = "none" => monitor'[q] = "none"
    BY <1>0, <1>2, <2>0 DEF DaemonTypes
  <2>3. \A c \in Connections : handler'[c] = "started" =>
            /\ \A d \in Connections \ {c} : handler'[d] # "started"
            /\ vlbi_process' \in Recorder /\ monitor'[vlbi_process'] = "none"
    BY <1>1, <2>0, <2>2
  <2>4. stage' = "capturing" <=> \E q \in told' : monitor'[q] = "reading"
    BY <1>0, <1>2, <2>0 DEF DaemonTypes
  <2> QED BY <1>1, <2>1, <2>2, <2>3, <2>4 DEF OneRun
<1>7. SuccessIsTrue'
  <2>1. Running' => Running
    BY <1>0, <1>1, <1>2 DEF Running, Alive, DaemonTypes
  <2> QED BY <1>1, <2>1 DEF RemoteInv, SuccessIsTrue, command_vars
<1> QED BY <1>3, <1>4, <1>5, <1>6, <1>7, <1>8 DEF RemoteInv

LEMMA NextRemoteInv == RemoteInv /\ [RemoteNext]_remote_vars => RemoteInv'
<1> SUFFICES ASSUME RemoteInv, [RemoteNext]_remote_vars PROVE RemoteInv'
  OBVIOUS
<1>1. CASE RemoteNext
  <2>1. RemoteStep /\ remote_session' = remote_session
    BY <1>1 DEF RemoteNext
  <2>2. ASSUME NEW c \in Connections, send_vlbi_command(c) \/ rfsoc_check_connectivity(c)
        PROVE  RemoteInv'
    BY <2>1, <2>2, SendStep DEF send_vlbi_command, rfsoc_check_connectivity, Commands
  <2>3. CASE receive_response \/ rfsoc_configure_ocxo \/ receive_times_out
    BY <2>1, <2>3, ResponseStep
  <2>4. CASE status_poll \/ vlbi_client_cleanup
    BY <2>1, <2>4, PollStep
  <2>5. ASSUME NEW c \in Connections, handle_client(c) PROVE RemoteInv'
    BY <2>1, <2>5, AnswerOnlyStep, CheckStep, StartRunStep, StartAnswerStep, StopRunStep DEF handle_client
  <2>6. ASSUME NEW r \in Recorder,
               start_vlbi_logging(r) \/ parse_vlbi_output(r) \/ monitor_vlbi_output(r)
        PROVE  RemoteInv'
    BY <2>1, <2>6, ScriptStep
  <2> QED BY <2>1, <2>2, <2>3, <2>4, <2>5, <2>6 DEF RemoteStep
<1>2. CASE UNCHANGED remote_vars
  <2> USE <1>2 DEF remote_vars, remote_moves, daemon_vars, run_vars, command_vars, stream_vars
  <2>1. RemoteTypes'
    BY DEF RemoteInv, RemoteTypes, ConnectionTypes, DaemonTypes, CommandTypes, StreamTypes
  <2>2. HandlersFit' /\ RunsBegin' /\ OneAlive' /\ OneRun' /\ SuccessIsTrue'
    BY DEF RemoteInv, HandlersFit, RunsBegin, OneAlive, OneRun, SuccessIsTrue, Running, Alive
  <2> QED BY <2>1, <2>2 DEF RemoteInv
<1> QED BY <1>1, <1>2

\* A set within a singleton has at most one element.
LEMMA AtMostOne ==
    ASSUME NEW x, NEW S \in SUBSET {x} PROVE Cardinality(S) <= 1
<1>1. IsFiniteSet({x}) /\ Cardinality({x}) = 1
  BY FS_Singleton
<1>2. Cardinality(S) <= Cardinality({x})
  BY <1>1, FS_Subset
<1> QED BY <1>1, <1>2

\* The invariant gives the types, and what is claimed of the recorder and of the answers.
LEMMA RemoteInvMeans == RemoteInv => RemoteTypeOK /\ OneRecorder /\ AnswersAreTrue
<1> SUFFICES ASSUME RemoteInv PROVE RemoteTypeOK /\ OneRecorder /\ AnswersAreTrue
  OBVIOUS
<1>1. RemoteTypeOK
  BY DEF RemoteInv, RemoteTypes, RemoteTypeOK, ConnectionTypes, DaemonTypes, CommandTypes,
         StreamTypes, Places
<1>2. OneRecorder
  <2>1. ~vlbi_raced => Alive \in SUBSET {vlbi_process}
    BY DEF RemoteInv, OneAlive, Alive
  <2>2. ~vlbi_raced => Cardinality(Alive) <= 1
    BY <2>1, AtMostOne
  <2> QED BY <2>2 DEF RemoteInv, OneRun, OneRecorder
<1>3. AnswersAreTrue
  <2>1. ~gave_up => {c \in Connections : handler[c] = "script"} \in SUBSET {waiting}
    BY DEF RemoteInv, HandlersFit
  <2>2. ~gave_up => Cardinality({c \in Connections : handler[c] = "script"}) <= 1
    BY <2>1, AtMostOne
  <2> QED BY <2>2 DEF RemoteInv, SuccessIsTrue, AnswersAreTrue
<1> QED BY <1>1, <1>2, <1>3

-----------------------------------------------------------------------------
(* The programs together *)

ServersInv == IInv /\ GpsInv /\ SpecInv /\ TelInv /\ RemoteInv

\* A step of one program is a step of it and leaves the others alone.
LEMMA OneAtATime ==
    [ServersNext]_servers => /\ [Next]_vars /\ [GpsNext]_gps_vars /\ [SpecNext]_spec_vars
                             /\ [TelNext]_telemetry_vars /\ [RemoteNext]_remote_vars
BY DEF ServersNext, RunsPbob, RunsGps, RunsSpectrometer, RunsTelemetry, RunsRemote, Waits, servers

\* The programs that answer requests never leave their inductive invariants, whichever
\* runs (pbob.c, gps.c, spectrometer_server.c, telemetry_server.c, vlbi_controller.py).
THEOREM ServersInvariance == ServersSpec => []ServersInv
<1>1. ServersInit => ServersInv
  BY InitIInv, InitGpsInv, InitSpecInv, InitTelInv, InitRemoteInv DEF ServersInit, ServersInv
<1>2. ServersInv /\ [ServersNext]_servers => ServersInv'
  BY OneAtATime, NextIInv, NextGpsInv, NextSpecInv, NextTelInv, NextRemoteInv DEF ServersInv
<1> QED BY <1>1, <1>2, PTL DEF ServersSpec

\* Their variables keep their types; no more than MAX_UDP_CLIENTS clients are known to
\* the spectrum server, whoever asks (check_rate_limit).
THEOREM ServersTypeCorrect == ServersSpec => []ServersTypeOK
<1>1. ServersInv => ServersTypeOK
  BY GpsInvMeans, SpecInvMeans, TelInvMeans, RemoteInvMeans DEF ServersInv, ServersTypeOK, IInv
<1> QED BY <1>1, ServersInvariance, PTL

\* No thread writes to a closed file, none is left open after a stop, and no mutex or log
\* is used after its end, with the exceptions the properties name (gps_stop_logging,
\* telemetry_server_cleanup, shutdown_system_monitor).
THEOREM HandlesAreLive == ServersSpec => []HandlesLive
<1>1. ServersInv => HandlesLive
  BY GpsInvMeans, TelInvMeans DEF ServersInv, GpsInv, HandlesLive
<1> QED BY <1>1, ServersInvariance, PTL

\* What is answered is true: a spectrum and a sample are whole, one recorder runs, a
\* success has happened, and a UDP server that says it runs has its socket, with the
\* exceptions the properties name.
THEOREM AnswersAreTrueAndWhole == ServersSpec => []AnswersAreWhole
<1>1. ServersInv => AnswersAreWhole
  BY SpecInvMeans, RemoteInvMeans DEF ServersInv, GpsInv, TelInv, AnswersAreWhole
<1> QED BY <1>1, ServersInvariance, PTL

\* The power boxes among the others do what they do alone (pbob.c).
THEOREM BoxesAmongServers ==
    ServersSpec => []NoSpuriousFlip /\ []RecordMatchesRelay /\ []ClosedMeansOff /\ ImplementsPower
<1>1. ServersInit => Power!Init
  BY InitRefines DEF ServersInit
<1>2. IInv /\ [ServersNext]_servers => [Power!Next]_(Power!vars)
  BY OneAtATime, NextRefines
<1>3. ServersInv => IInv /\ RecordMatchesRelay
  BY DEF ServersInv, IInv
<1>4. IInv => NoSpuriousFlip /\ ClosedMeansOff
  BY DEF IInv, NoSpuriousFlip, AtRelay, FlagsOwed, ClosedMeansOff, EndedOff, all_relays_off,
         RecordMatchesRelay
<1> QED BY <1>1, <1>2, <1>3, <1>4, ServersInvariance, PTL DEF ServersSpec, ImplementsPower, Power!Spec
=============================================================================

---------------------------- MODULE HeatersProofs ----------------------------
(* Proofs about the heater control, for any number of automatic heaters, any    *)
(* limits, readings and current cap, and any number of control threads.  The    *)
(* properties but for the types are those of a program in which start_heaters   *)
(* made no second thread yet: till then there is one control thread at a time.  *)
EXTENDS Heaters, FiniteSetTheorems, FunctionTheorems, WellFoundedInduction, TLAPS

-----------------------------------------------------------------------------
(* The inductive invariant *)

\* Why they hold as long as there was no second control thread: what the control
\* thread is doing limits what the command thread can be in the middle of, and a
\* PV request is never lost between the two.
CommandInv(t) ==
    /\ pc[t] \in {"none"} \cup Starting \cup Loop \cup Ending
    /\ heaters_running => pc[t] \in Loop \cup Ending
    /\ shutdown_heaters => cli_at = "join" /\ pc[t] \in Loop \cup Ending
    /\ pc[t] \in Ending /\ heaters_running => shutdown_heaters
    /\ cli_at \in {"idle", "join", "joined"} \/ pc[t] \in Loop
    /\ cli_at \in {"off", "clear"} => heater_id \in Automatic
    /\ cli_at = "join" => pc[t] \in {"none"} \cup Loop \cup Ending
    /\ cli_at = "joined" => pc[t] = "none"

OffInv(t) ==
    pc[t] \in {"join", "end"} \/ (pc[t] = "none" /\ cli_at \in {"join", "joined"})
        => AllSwitchedOff

PvInv(t) ==
    /\ pc[t] = "eio" /\ state[PV] => Pending
    /\ pc[t] \in Loop \cup {"calibrate"} /\ ~(state[PV] <=> relay[PV]) /\ PV \notin refused
          => Pending \/ (pc[t] = "toggled" /\ i[t] = PV)

Functions == /\ state \in [Heater -> BOOLEAN] /\ toggle \in [Heater -> BOOLEAN]
             /\ relay \in [Heater -> BOOLEAN] /\ enabled \in [Heater -> BOOLEAN]
             /\ ~enabled[PV] /\ main_heaters_thread \in Thread
             /\ DOMAIN pc = Thread /\ DOMAIN i = Thread
             /\ pc = [t \in Thread |-> pc[t]] /\ i = [t \in Thread |-> i[t]]

\* The PV heater has no thermostat: it is never switched on by the control loop.
LightInv(t) == pc[t] = "light" => position_difference[t][i[t]] # PV

\* Thread t is the one that stop_heaters joins, and there is no other.
OthersEnded(t) == main_heaters_thread = t /\ \A s \in Thread \ {t} : pc[s] = "none"
Alone(t) == /\ Functions /\ OthersEnded(t)
            /\ CommandInv(t) /\ OffInv(t) /\ PvInv(t) /\ LightInv(t)

IInv == ~second => \E t \in Thread : Alone(t)

-----------------------------------------------------------------------------
\* The PV heater is not an automatic one.
LEMMA PvIsManual == PV \in Heater /\ PV \notin Automatic /\ Automatic \subseteq Heater
  BY HeatersAssumption DEF HeatersAssumption, PV, Automatic, Heater

\* set_relay_state changes the relays it is for, or they are refused.
LEMMA WriteRelays ==
    ASSUME relay \in [Heater -> BOOLEAN], NEW H, NEW on \in BOOLEAN,
           Write(H, on)
    PROVE  /\ relay' \in [Heater -> BOOLEAN]
           /\ \A h \in Heater \ H : relay'[h] = relay[h] /\ (h \in refused' <=> h \in refused)
           /\ \A h \in H \cap Heater : h \in refused' \/ relay'[h] = on
<1>1. CASE /\ relay' = [h \in Heater |-> IF h \in H THEN on ELSE relay[h]]
           /\ refused' = refused \ H
  BY <1>1, Zenon
<1>2. CASE \E h \in H : /\ relay' = [g \in Heater |-> IF g \in H \ {h} THEN on ELSE relay[g]]
                        /\ refused' = (refused \ H) \cup {h}
  <2>1. PICK h \in H : /\ relay' = [g \in Heater |-> IF g \in H \ {h} THEN on ELSE relay[g]]
                       /\ refused' = (refused \ H) \cup {h}
    BY <1>2
  <2>2. relay' \in [Heater -> BOOLEAN]
    BY <2>1, Zenon
  <2>3. \A g \in Heater : relay'[g] = IF g \in H \ {h} THEN on ELSE relay[g]
    BY <2>1, Zenon
  <2>4. QED
    BY <2>1, <2>2, <2>3
<1>3. QED
  BY <1>1, <1>2 DEF Write

\* The initial state satisfies the invariant.
LEMMA InitInv == Init => IInv
<1> SUFFICES ASSUME Init PROVE IInv
  OBVIOUS
<1>1. AllOff \in [Heater -> BOOLEAN] /\ ~AllOff[PV]
  BY PvIsManual, Zenon DEF AllOff
<1>2. Functions
  BY <1>1 DEF Init, Functions
<1>3. ASSUME NEW t \in Thread PROVE CommandInv(t) /\ OffInv(t) /\ PvInv(t) /\ LightInv(t)
  BY DEF Init, CommandInv, OffInv, PvInv, LightInv, Starting, Loop, Ending
<1>4. main_heaters_thread \in Thread /\ OthersEnded(main_heaters_thread)
  BY DEF Init, OthersEnded
<1>5. QED
  BY <1>2, <1>3, <1>4 DEF IInv, Alone

\* A step that switches another heater leaves the PV heater alone.
LEMMA OtherHeater ==
    ASSUME Functions, NEW h, h # PV, NEW on \in BOOLEAN,
           state' = [state EXCEPT ![h] = on], Write({h}, on)
    PROVE  /\ relay' \in [Heater -> BOOLEAN] /\ state' \in [Heater -> BOOLEAN]
           /\ (PV \in refused' <=> PV \in refused)
           /\ state'[PV] = state[PV] /\ relay'[PV] = relay[PV]
<1>1. /\ relay' \in [Heater -> BOOLEAN]
      /\ \A g \in Heater \ {h} : relay'[g] = relay[g] /\ (g \in refused' <=> g \in refused)
  BY WriteRelays DEF Functions
<1>2. state' \in [Heater -> BOOLEAN] /\ state'[PV] = state[PV]
  BY PvIsManual, Zenon DEF Functions
<1>3. QED
  BY <1>1, <1>2, PvIsManual

\* A step of a control thread is one of the only one there is.
LEMMA ThreadIsAlone ==
    ASSUME NEW t \in Thread, NEW s \in Thread, OthersEnded(t), DOMAIN pc = Thread,
           run_heaters_thread(s)
    PROVE  s = t /\ OthersEnded(t)'
<1>1. pc[s] # "none" /\ UNCHANGED main_heaters_thread
  BY DEF run_heaters_thread, CreateServer, StartFails, ServerRunning, initialize_heaters,
     StartOff, calibrate_current, Top, Read, TakeToggle, ApplyToggle, Control, SwitchOn,
     Cleanup, Ended, flags
<1>2. \E l : pc' = [pc EXCEPT ![s] = l]
  BY Zenon DEF run_heaters_thread, CreateServer, StartFails, ServerRunning, initialize_heaters,
     StartOff, calibrate_current, Top, Read, TakeToggle, ApplyToggle, Control, SwitchOn,
     NextControl, Cleanup, Ended, goto
<1>3. QED
  BY <1>1, <1>2 DEF OthersEnded

\* A step of the control thread keeps the invariant.
LEMMA ThreadInv ==
    ASSUME NEW t \in Thread, Alone(t), run_heaters_thread(t)
    PROVE  Alone(t)'
<1> SUFFICES Functions' /\ CommandInv(t)' /\ OffInv(t)' /\ PvInv(t)' /\ LightInv(t)'
  BY ThreadIsAlone DEF Alone, Functions
<1> USE PvIsManual DEF Alone, OthersEnded, Starting, Loop, Ending, AllSwitchedOff, Pending, goto,
        box, readings, limits, flags, locals, server, cli
<1>1. CASE CreateServer(t)
  <2>1. Functions' /\ LightInv(t)'
    BY <1>1 DEF CreateServer, Functions, LightInv
  <2>2. CommandInv(t)' /\ OffInv(t)'
    BY <1>1 DEF CreateServer, Functions, CommandInv, OffInv
  <2>3. PvInv(t)'
    BY <1>1 DEF CreateServer, Functions, PvInv, CommandInv
  <2>4. QED
    BY <2>1, <2>2, <2>3
<1>2. CASE StartFails(t)
  <2>1. Functions' /\ LightInv(t)'
    BY <1>2 DEF StartFails, Functions, LightInv
  <2>2. CommandInv(t)' /\ OffInv(t)'
    BY <1>2 DEF StartFails, Functions, CommandInv, OffInv
  <2>3. PvInv(t)'
    BY <1>2 DEF StartFails, Functions, PvInv, CommandInv
  <2>4. QED
    BY <2>1, <2>2, <2>3
<1>3. CASE ServerRunning(t)
  <2>1. Functions' /\ LightInv(t)'
    BY <1>3 DEF ServerRunning, Functions, LightInv
  <2>2. CommandInv(t)' /\ OffInv(t)'
    BY <1>3 DEF ServerRunning, Functions, CommandInv, OffInv
  <2>3. PvInv(t)'
    BY <1>3 DEF ServerRunning, Functions, PvInv, CommandInv
  <2>4. QED
    BY <2>1, <2>2, <2>3
<1>4. CASE initialize_heaters(t)
  <2>a. state' = AllOff /\ toggle' = AllOff /\ AllOff \in [Heater -> BOOLEAN] /\ ~AllOff[PV]
    BY <1>4, Zenon DEF initialize_heaters, AllOff
  <2>b. enabled' \in [Heater -> BOOLEAN] /\ ~enabled'[PV]
    <3>1. enabled' = [h \in Heater |-> h \in Automatic]
      BY <1>4 DEF initialize_heaters
    <3>2. \A h \in Heater : (h \in Automatic) \in BOOLEAN
      OBVIOUS
    <3>3. QED
      BY <3>1, <3>2, Zenon
  <2>1. Functions' /\ LightInv(t)'
    BY <1>4, <2>a, <2>b DEF initialize_heaters, Functions, LightInv
  <2>2. CommandInv(t)' /\ OffInv(t)'
    BY <1>4, <2>a, <2>b DEF initialize_heaters, Functions, CommandInv, OffInv
  <2>3. PvInv(t)'
    BY <1>4, <2>a, <2>b DEF initialize_heaters, Functions, PvInv, CommandInv
  <2>4. QED
    BY <2>1, <2>2, <2>3
<1>5. CASE StartOff(t)
  <2>a. relay' \in [Heater -> BOOLEAN] /\ \A h \in Heater : h \in refused' \/ ~relay'[h]
    BY <1>5, WriteRelays DEF StartOff, Functions
  <2>1. Functions' /\ LightInv(t)'
    BY <1>5, <2>a DEF StartOff, Functions, LightInv
  <2>2. CommandInv(t)' /\ OffInv(t)'
    BY <1>5, <2>a DEF StartOff, Functions, CommandInv, OffInv
  <2>3. PvInv(t)'
    BY <1>5, <2>a DEF StartOff, Functions, PvInv, CommandInv
  <2>4. QED
    BY <2>1, <2>2, <2>3
<1>6. CASE calibrate_current(t)
  <2>1. Functions' /\ LightInv(t)'
    BY <1>6 DEF calibrate_current, Functions, LightInv
  <2>2. CommandInv(t)' /\ OffInv(t)'
    BY <1>6 DEF calibrate_current, Functions, CommandInv, OffInv
  <2>3. PvInv(t)'
    BY <1>6 DEF calibrate_current, Functions, PvInv, CommandInv
  <2>4. QED
    BY <2>1, <2>2, <2>3
<1>7. CASE Top(t)
  <2>1. Functions' /\ LightInv(t)'
    BY <1>7 DEF Top, Functions, LightInv
  <2>2. CommandInv(t)' /\ OffInv(t)'
    BY <1>7 DEF Top, Functions, CommandInv, OffInv
  <2>3. PvInv(t)'
    BY <1>7 DEF Top, Functions, PvInv, CommandInv
  <2>4. QED
    BY <2>1, <2>2, <2>3
<1>8. CASE Read(t)
  <2>1. Functions' /\ LightInv(t)'
    BY <1>8 DEF Read, Functions, LightInv
  <2>2. CommandInv(t)' /\ OffInv(t)'
    BY <1>8 DEF Read, Functions, CommandInv, OffInv
  <2>3. PvInv(t)'
    BY <1>8 DEF Read, Functions, PvInv, CommandInv
  <2>4. QED
    BY <2>1, <2>2, <2>3
<1>9. CASE TakeToggle(t)
  <2>a. \/ UNCHANGED toggle /\ pc'[t] = "control"
        \/ \E h \in Heater : /\ toggle' = [toggle EXCEPT ![h] = FALSE]
                             /\ i' = [i EXCEPT ![t] = h] /\ goto(t, "toggled")
    BY <1>9 DEF TakeToggle, Functions
  <2>b. /\ toggle' \in [Heater -> BOOLEAN]
        /\ \/ pc'[t] = "control" /\ toggle'[PV] = toggle[PV]
           \/ pc'[t] = "toggled" /\ (i'[t] = PV \/ toggle'[PV] = toggle[PV])
    <3>1. CASE UNCHANGED toggle /\ pc'[t] = "control"
      BY <3>1 DEF Functions
    <3>2. ASSUME NEW h \in Heater, toggle' = [toggle EXCEPT ![h] = FALSE],
                 i' = [i EXCEPT ![t] = h], goto(t, "toggled")
          PROVE  /\ toggle' \in [Heater -> BOOLEAN] /\ pc'[t] = "toggled"
                 /\ i'[t] = PV \/ toggle'[PV] = toggle[PV]
      <4>1. toggle' \in [Heater -> BOOLEAN] /\ (h # PV => toggle'[PV] = toggle[PV])
        BY <3>2, Zenon DEF Functions
      <4>2. i'[t] = h /\ pc'[t] = "toggled"
        BY <3>2 DEF Functions
      <4>3. QED
        BY <4>1, <4>2
    <3>3. QED
      BY <2>a, <3>1, <3>2
  <2>1. Functions' /\ LightInv(t)'
    BY <1>9, <2>a, <2>b DEF TakeToggle, Functions, LightInv
  <2>2. CommandInv(t)' /\ OffInv(t)'
    BY <1>9, <2>a, <2>b DEF TakeToggle, Functions, CommandInv, OffInv
  <2>3. PvInv(t)'
    BY <1>9, <2>a, <2>b DEF TakeToggle, Functions, PvInv, CommandInv
  <2>4. QED
    BY <2>1, <2>2, <2>3
<1>10. CASE ApplyToggle(t)
  <2>a. /\ relay' \in [Heater -> BOOLEAN] /\ state' \in [Heater -> BOOLEAN]
        /\ i[t] = PV => (PV \in refused' \/ (state'[PV] <=> relay'[PV]))
        /\ i[t] # PV => /\ (PV \in refused' <=> PV \in refused)
                        /\ (state'[PV] <=> state[PV]) /\ (relay'[PV] <=> relay[PV])
    <3>1. CASE i[t] = PV /\ Write({PV}, state[PV]) /\ UNCHANGED state
      <4>1. relay' \in [Heater -> BOOLEAN] /\ (PV \in refused' \/ relay'[PV] = state[PV])
        BY <3>1, WriteRelays DEF Functions
      <4>2. QED
        BY <3>1, <4>1 DEF Functions
    <3>2. CASE i[t] # PV /\ Write({i[t]}, FALSE) /\ state' = [state EXCEPT ![i[t]] = FALSE]
      BY <3>2, OtherHeater
    <3>3. CASE i[t] # PV /\ UNCHANGED <<box, state>>
      BY <3>3 DEF Functions
    <3>4. QED
      BY <1>10, <3>1, <3>2, <3>3 DEF ApplyToggle
  <2>1. Functions' /\ LightInv(t)'
    BY <1>10, <2>a DEF ApplyToggle, Functions, LightInv
  <2>2. CommandInv(t)' /\ OffInv(t)'
    BY <1>10, <2>a DEF ApplyToggle, Functions, CommandInv, OffInv
  <2>3. PvInv(t)'
    BY <1>10, <2>a DEF ApplyToggle, Functions, PvInv, CommandInv
  <2>4. QED
    BY <2>1, <2>2, <2>3
<1>11. CASE Control(t)
  <2> DEFINE h == position_difference[t][i[t]]
  <2>a. /\ relay' \in [Heater -> BOOLEAN] /\ state' \in [Heater -> BOOLEAN]
        /\ (PV \in refused' <=> PV \in refused)
        /\ (state'[PV] <=> state[PV]) /\ (relay'[PV] <=> relay[PV])
    <3>1. CASE UNCHANGED <<state, box>>
      BY <3>1 DEF Functions
    <3>2. ASSUME h # PV, NEW on \in BOOLEAN, state' = [state EXCEPT ![h] = on], Write({h}, on)
          PROVE  /\ relay' \in [Heater -> BOOLEAN] /\ state' \in [Heater -> BOOLEAN]
                 /\ (PV \in refused' <=> PV \in refused)
                 /\ state'[PV] = state[PV] /\ relay'[PV] = relay[PV]
      BY <3>2, OtherHeater
    <3>3. QED
      BY <1>11, <3>1, <3>2 DEF Control, Functions
  <2>1. Functions' /\ LightInv(t)'
    <3>1. Functions'
      BY <1>11, <2>a DEF Control, NextControl, Functions
    <3>2. \/ pc'[t] \in {"control", "top"}
          \/ /\ enabled[position_difference[t][i[t]]]
             /\ UNCHANGED <<i, position_difference>>
      BY <1>11 DEF Control, NextControl, Functions
    <3>3. LightInv(t)'
      BY <3>2 DEF Functions, LightInv
    <3>4. QED
      BY <3>1, <3>3
  <2>2. CommandInv(t)' /\ OffInv(t)'
    BY <1>11, <2>a DEF Control, NextControl, Functions, CommandInv, OffInv
  <2>3. PvInv(t)'
    BY <1>11, <2>a DEF Control, NextControl, Functions, PvInv, CommandInv
  <2>4. QED
    BY <2>1, <2>2, <2>3
<1>12. CASE SwitchOn(t)
  <2> DEFINE h == position_difference[t][i[t]]
  <2>a. /\ relay' \in [Heater -> BOOLEAN] /\ state' \in [Heater -> BOOLEAN]
        /\ (PV \in refused' <=> PV \in refused)
        /\ (state'[PV] <=> state[PV]) /\ (relay'[PV] <=> relay[PV])
    <3>2. ASSUME h # PV, NEW on \in BOOLEAN, state' = [state EXCEPT ![h] = on], Write({h}, on)
          PROVE  /\ relay' \in [Heater -> BOOLEAN] /\ state' \in [Heater -> BOOLEAN]
                 /\ (PV \in refused' <=> PV \in refused)
                 /\ state'[PV] = state[PV] /\ relay'[PV] = relay[PV]
      BY <3>2, OtherHeater
    <3>3. QED
      BY <1>12, <3>2 DEF SwitchOn, LightInv
  <2>1. Functions' /\ LightInv(t)'
    BY <1>12, <2>a DEF SwitchOn, NextControl, Functions, LightInv
  <2>2. CommandInv(t)' /\ OffInv(t)'
    BY <1>12, <2>a DEF SwitchOn, NextControl, Functions, CommandInv, OffInv
  <2>3. PvInv(t)'
    BY <1>12, <2>a DEF SwitchOn, NextControl, Functions, PvInv, CommandInv
  <2>4. QED
    BY <2>1, <2>2, <2>3
<1>13. CASE Cleanup(t)
  <2>a. relay' \in [Heater -> BOOLEAN] /\ \A h \in Heater : h \in refused' \/ ~relay'[h]
    BY <1>13, WriteRelays DEF Cleanup, Functions
  <2>1. Functions' /\ LightInv(t)'
    BY <1>13, <2>a DEF Cleanup, Functions, LightInv
  <2>2. CommandInv(t)' /\ OffInv(t)'
    BY <1>13, <2>a DEF Cleanup, Functions, CommandInv, OffInv
  <2>3. PvInv(t)'
    BY <1>13, <2>a DEF Cleanup, Functions, PvInv, CommandInv
  <2>4. QED
    BY <2>1, <2>2, <2>3
<1>14. CASE Ended(t)
  <2>1. Functions' /\ LightInv(t)'
    BY <1>14 DEF Ended, Functions, LightInv
  <2>2. CommandInv(t)' /\ OffInv(t)'
    BY <1>14 DEF Ended, Functions, CommandInv, OffInv
  <2>3. PvInv(t)'
    BY <1>14 DEF Ended, Functions, PvInv, CommandInv
  <2>4. QED
    BY <2>1, <2>2, <2>3
<1>15. QED
  BY <1>1, <1>2, <1>3, <1>4, <1>5, <1>6, <1>7, <1>8, <1>9, <1>10, <1>11, <1>12, <1>13, <1>14 DEF run_heaters_thread

\* So does a step of the UDP server.
LEMMA ServerInv ==
    ASSUME NEW t \in Thread, Alone(t), do_server_heaters
    PROVE  Alone(t)'
<1> SUFFICES Functions' /\ CommandInv(t)' /\ OffInv(t)' /\ PvInv(t)' /\ LightInv(t)'
  <2>1. OthersEnded(t)'
    BY DEF Alone, OthersEnded, do_server_heaters, ServerStart, ServerEnd, ServerToggle,
       ServerRequest, flags
  <2>2. QED
    BY <2>1 DEF Alone
<1> USE PvIsManual DEF Alone, OthersEnded, Starting, Loop, Ending, AllSwitchedOff, Pending,
        box, readings, limits, flags, locals, server, cli
<1>1. CASE ServerStart
  <2>1. Functions' /\ LightInv(t)'
    BY <1>1 DEF ServerStart, Functions, LightInv
  <2>2. CommandInv(t)' /\ OffInv(t)'
    BY <1>1 DEF ServerStart, Functions, CommandInv, OffInv
  <2>3. PvInv(t)'
    BY <1>1 DEF ServerStart, Functions, PvInv, CommandInv
  <2>4. QED
    BY <2>1, <2>2, <2>3
<1>2. CASE ServerEnd
  <2>1. Functions' /\ LightInv(t)'
    BY <1>2 DEF ServerEnd, Functions, LightInv
  <2>2. CommandInv(t)' /\ OffInv(t)'
    BY <1>2 DEF ServerEnd, Functions, CommandInv, OffInv
  <2>3. PvInv(t)'
    BY <1>2 DEF ServerEnd, Functions, PvInv, CommandInv
  <2>4. QED
    BY <2>1, <2>2, <2>3
<1>3. CASE ServerToggle
  <2>a. /\ toggle' \in [Heater -> BOOLEAN] /\ (toggle[PV] => toggle'[PV])
        /\ relay_id = PV => toggle'[PV]
    BY <1>3, Zenon DEF ServerToggle, set_toggle, Functions
  <2>1. Functions' /\ LightInv(t)'
    BY <1>3, <2>a DEF ServerToggle, set_toggle, Functions, LightInv
  <2>2. CommandInv(t)' /\ OffInv(t)'
    BY <1>3, <2>a DEF ServerToggle, set_toggle, Functions, CommandInv, OffInv
  <2>3. PvInv(t)'
    BY <1>3, <2>a DEF ServerToggle, set_toggle, Functions, PvInv, CommandInv
  <2>4. QED
    BY <2>1, <2>2, <2>3
<1>4. ASSUME NEW h \in Heater, ServerRequest(h)
      PROVE  Functions' /\ CommandInv(t)' /\ OffInv(t)' /\ PvInv(t)' /\ LightInv(t)'
  <2>1. CASE h \in Automatic
    <3>a. enabled' \in [Heater -> BOOLEAN] /\ ~enabled'[PV]
      BY <1>4, <2>1, Zenon DEF ServerRequest, Functions
    <3>1. Functions' /\ LightInv(t)'
      BY <1>4, <2>1, <3>a DEF ServerRequest, Functions, LightInv
    <3>2. CommandInv(t)' /\ OffInv(t)' /\ PvInv(t)'
      BY <1>4, <2>1 DEF ServerRequest, Functions, CommandInv, OffInv, PvInv
    <3>3. QED
      BY <3>1, <3>2
  <2>2. CASE h = PV
    <3>a. state' \in [Heater -> BOOLEAN]
      BY <1>4, <2>2, Zenon DEF ServerRequest, Functions
    <3>1. Functions' /\ LightInv(t)'
      BY <1>4, <2>2, <3>a DEF ServerRequest, Functions, LightInv
    <3>2. CommandInv(t)' /\ OffInv(t)' /\ PvInv(t)'
      BY <1>4, <2>2 DEF ServerRequest, Functions, CommandInv, OffInv, PvInv
    <3>3. QED
      BY <3>1, <3>2
  <2>3. QED
    BY <2>1, <2>2 DEF Heater
<1>5. Commanded \subseteq Heater
  BY HeatersAssumption DEF HeatersAssumption, Heater, Automatic, PV
<1>6. QED
  BY <1>1, <1>2, <1>3, <1>4, <1>5 DEF do_server_heaters

\* So does a step of the command thread.
LEMMA CommandStepInv ==
    ASSUME NEW t \in Thread, Alone(t), exec_command, ~start_heaters
    PROVE  Alone(t)'
<1> SUFFICES Functions' /\ CommandInv(t)' /\ OffInv(t)' /\ PvInv(t)' /\ LightInv(t)'
  <2>1. OthersEnded(t)'
    BY DEF Alone, OthersEnded, exec_command, stop_heaters, Rest, set_heater_auto_mode,
       set_heater_temp_range, set_pv_heater_manual, flags
  <2>2. QED
    BY <2>1 DEF Alone
<1> USE PvIsManual DEF Alone, OthersEnded, Starting, Loop, Ending, AllSwitchedOff, Pending,
        box, readings, limits, flags, locals, server, cli
<1>2. CASE stop_heaters
  <2>1. Functions' /\ LightInv(t)'
    BY <1>2 DEF stop_heaters, Functions, LightInv
  <2>2. CommandInv(t)' /\ OffInv(t)'
    BY <1>2 DEF stop_heaters, Functions, CommandInv, OffInv
  <2>3. PvInv(t)'
    BY <1>2 DEF stop_heaters, Functions, PvInv, CommandInv
  <2>4. QED
    BY <2>1, <2>2, <2>3
<1>3. CASE Rest
  <2>1. CASE cli_at = "clear" /\ state' = [state EXCEPT ![heater_id] = FALSE]
    <3>a. state' \in [Heater -> BOOLEAN] /\ state'[PV] = state[PV]
      <4>1. heater_id # PV
        BY <2>1 DEF CommandInv
      <4>2. QED
        BY <2>1, <4>1, Zenon DEF Functions
    <3>1. Functions' /\ LightInv(t)'
      BY <1>3, <2>1, <3>a DEF Rest, CliStep, Functions, LightInv
    <3>2. CommandInv(t)' /\ OffInv(t)' /\ PvInv(t)'
      BY <1>3, <2>1, <3>a DEF Rest, CliStep, Go, Functions, CommandInv, OffInv, PvInv
    <3>3. QED
      BY <3>1, <3>2
  <2>2. CASE cli_at = "toggle" /\ toggle' = [toggle EXCEPT ![heater_id] = TRUE]
    <3>a. /\ toggle' \in [Heater -> BOOLEAN] /\ (toggle[PV] => toggle'[PV])
          /\ heater_id = PV => toggle'[PV]
      BY <2>2, Zenon DEF Functions
    <3>1. Functions' /\ LightInv(t)'
      BY <1>3, <2>2, <3>a DEF Rest, CliStep, Functions, LightInv
    <3>2. CommandInv(t)' /\ OffInv(t)' /\ PvInv(t)'
      BY <1>3, <2>2, <3>a DEF Rest, CliStep, Done, Functions, CommandInv, OffInv, PvInv
    <3>3. QED
      BY <3>1, <3>2
  <2>3. CASE cli_at \notin {"clear", "toggle"}
    <3>1. Functions' /\ LightInv(t)'
      BY <1>3, <2>3 DEF Rest, CliStep, Functions, LightInv
    <3>2. /\ pc[main_heaters_thread] = pc[t] /\ pc' = pc /\ state' = state
          /\ relay' = relay /\ refused' = refused /\ toggle' = toggle
      BY <1>3, <2>3 DEF Rest, CliStep, Functions
    <3>a. /\ heaters_running' = heaters_running /\ shutdown_heaters' = shutdown_heaters
          /\ \/ cli_at \in {"off", "high", "joined"} /\ cli_at' = "idle"
             \/ cli_at = "off" /\ cli_at' = "clear" /\ heater_id' = heater_id
             \/ cli_at = "join" /\ cli_at' = "joined" /\ pc[t] = "none"
      BY <1>3, <2>3, <3>2 DEF Rest, CliStep, Done, Go
    <3>b. CommandInv(t)'
      BY <3>2, <3>a DEF CommandInv
    <3>c. OffInv(t)'
      BY <3>2, <3>a DEF OffInv
    <3>3. CommandInv(t)' /\ OffInv(t)'
      BY <3>b, <3>c
    <3>4. PvInv(t)'
      BY <1>3, <2>3, <3>2 DEF Rest, CliStep, Done, Go, PvInv, CommandInv
    <3>5. QED
      BY <3>1, <3>3, <3>4
  <2>4. QED
    BY <1>3, <2>1, <2>2, <2>3 DEF Rest, CliStep, set_toggle
<1>4. ASSUME NEW h \in Automatic, NEW on \in BOOLEAN, set_heater_auto_mode(h, on)
      PROVE  Functions' /\ CommandInv(t)' /\ OffInv(t)' /\ PvInv(t)' /\ LightInv(t)'
  <2>a. enabled' \in [Heater -> BOOLEAN] /\ ~enabled'[PV]
    BY <1>4, Zenon DEF set_heater_auto_mode, Functions
  <2>1. Functions' /\ LightInv(t)'
    BY <1>4, <2>a DEF set_heater_auto_mode, Functions, LightInv
  <2>2. CommandInv(t)' /\ OffInv(t)' /\ PvInv(t)'
    BY <1>4 DEF set_heater_auto_mode, Functions, CommandInv, OffInv, PvInv
  <2>3. QED
    BY <2>1, <2>2
<1>5. ASSUME NEW h \in Automatic, NEW r \in Ranges, set_heater_temp_range(h, r)
      PROVE  Functions' /\ CommandInv(t)' /\ OffInv(t)' /\ PvInv(t)' /\ LightInv(t)'
  BY <1>5 DEF set_heater_temp_range, Functions, CommandInv, OffInv, PvInv, LightInv
<1>6. ASSUME NEW on \in BOOLEAN, set_pv_heater_manual(on)
      PROVE  Functions' /\ CommandInv(t)' /\ OffInv(t)' /\ PvInv(t)' /\ LightInv(t)'
  <2>a. state' \in [Heater -> BOOLEAN]
    BY <1>6, Zenon DEF set_pv_heater_manual, Functions
  <2>1. Functions' /\ LightInv(t)'
    BY <1>6, <2>a DEF set_pv_heater_manual, Functions, LightInv
  <2>2. CommandInv(t)' /\ OffInv(t)' /\ PvInv(t)'
    BY <1>6 DEF set_pv_heater_manual, Functions, CommandInv, OffInv, PvInv
  <2>3. QED
    BY <2>1, <2>2
<1>7. QED
  BY <1>2, <1>3, <1>4, <1>5, <1>6 DEF exec_command

\* A start that finds no thread makes the one that there is.
LEMMA StartInv ==
    ASSUME NEW t \in Thread, Alone(t), start_heaters, ~second'
    PROVE  IInv'
<1>1. PICK s \in Thread : goto(s, "files") /\ main_heaters_thread' = s
  BY DEF start_heaters
<1>2. \A r \in Thread : pc[r] = "none"
  BY DEF start_heaters
<1> USE DEF Alone, Starting, Loop, Ending, goto, box, locals, server, cli
<1>3. Functions' /\ LightInv(s)'
  BY <1>1 DEF start_heaters, Functions, LightInv
<1>4. OthersEnded(s)'
  BY <1>1, <1>2 DEF Functions, OthersEnded
<1>5. pc'[s] = "files" /\ pc[t] = "none"
  BY <1>1, <1>2 DEF Functions
<1>6. CommandInv(s)' /\ OffInv(s)' /\ PvInv(s)'
  BY <1>5 DEF start_heaters, CommandInv, OffInv, PvInv
<1>7. QED
  BY <1>3, <1>4, <1>6 DEF IInv

\* A program that starts again has no thread and no command under way.
LEMMA RestartInv == ASSUME relay \in [Heater -> BOOLEAN], Restart PROVE IInv'
<1>1. AllOff \in [Heater -> BOOLEAN] /\ ~AllOff[PV]
  BY PvIsManual, Zenon DEF AllOff
<1>2. Functions'
  BY <1>1 DEF Restart, Functions, box
<1>3. ASSUME NEW t \in Thread
      PROVE  CommandInv(t)' /\ OffInv(t)' /\ PvInv(t)' /\ LightInv(t)'
  BY DEF Restart, CommandInv, OffInv, PvInv, LightInv, Starting, Loop, Ending
<1>4. main_heaters_thread' \in Thread /\ OthersEnded(main_heaters_thread)'
  BY DEF Restart, OthersEnded
<1>5. QED
  BY <1>2, <1>3, <1>4 DEF IInv, Alone

-----------------------------------------------------------------------------
(* The order of the heaters *)

\* Heater g comes before heater h: it is further below its lower limit, or as far
\* and has the smaller number.
Before(diff, g, h) == diff[g] > diff[h] \/ (diff[g] = diff[h] /\ g < h)

Sorted(diff, p) == \A a, b \in Heater : a < b => Before(diff, p[a], p[b])

\* The heaters before h, whose number is the place of h.
Colder(diff, h) == {g \in Heater : Before(diff, g, h)}
Place(diff)     == [h \in Heater |-> Cardinality(Colder(diff, h))]

LEMMA HeatersAreFinite ==
    /\ Heater = 0 .. NumAuto /\ IsFiniteSet(Heater) /\ Cardinality(Heater) = NumAuto + 1
<1>1. Heater = 0 .. NumAuto /\ NumAuto \in Nat
  BY HeatersAssumption DEF HeatersAssumption, Heater, Automatic, PV
<1>2. QED
  BY <1>1, FS_Interval

\* A place is a place of the array, and a heater that comes before another one has
\* a smaller one.
LEMMA PlacesOrder ==
    ASSUME NEW diff \in [Heater -> Nat]
    PROVE  /\ Place(diff) \in [Heater -> Heater]
           /\ \A g, h \in Heater : Before(diff, g, h) => Place(diff)[g] < Place(diff)[h]
<1> USE HeatersAreFinite
<1>0. IsFiniteSet(Heater)
  OBVIOUS
<1>1. NumAuto \in Nat
  BY HeatersAssumption DEF HeatersAssumption
<1>2. ASSUME NEW h \in Heater
      PROVE  /\ IsFiniteSet(Colder(diff, h))
             /\ Place(diff)[h] = Cardinality(Colder(diff, h)) /\ Place(diff)[h] \in Nat
  <2>1. Colder(diff, h) \in SUBSET Heater
    BY DEF Colder
  <2>2. QED
    BY <2>1, FS_Subset, FS_CardinalityType DEF Place
<1>3. ASSUME NEW h \in Heater PROVE Place(diff)[h] \in Heater
  <2>1. Colder(diff, h) \in SUBSET (Heater \ {h})
    BY DEF Colder, Before
  <2>2. IsFiniteSet(Heater \ {h}) /\ Cardinality(Heater \ {h}) = NumAuto
    <3>1. /\ IsFiniteSet(Heater \ {h})
          /\ Cardinality(Heater \ {h}) =
                IF h \in Heater THEN Cardinality(Heater) - 1 ELSE Cardinality(Heater)
      BY ONLY <1>0, FS_RemoveElement, Zenon
    <3>2. QED
      BY <1>1, <3>1
  <2>3. Cardinality(Colder(diff, h)) <= NumAuto
    BY <2>1, <2>2, FS_Subset
  <2>4. QED
    BY <1>1, <1>2, <2>3
<1>4. ASSUME NEW g \in Heater, NEW h \in Heater, Before(diff, g, h)
      PROVE  Place(diff)[g] < Place(diff)[h]
  <2>1. Colder(diff, g) \in SUBSET Colder(diff, h)
    BY <1>4 DEF Colder, Before
  <2>2. g \in Colder(diff, h) /\ g \notin Colder(diff, g)
    BY <1>4 DEF Colder, Before
  <2>3. /\ Cardinality(Colder(diff, g)) <= Cardinality(Colder(diff, h))
        /\ Cardinality(Colder(diff, g)) # Cardinality(Colder(diff, h))
    BY <1>2, <2>1, <2>2, FS_Subset
  <2>4. QED
    BY <1>2, <2>3
<1>5. Place(diff) \in [Heater -> Heater]
  BY <1>3 DEF Place
<1>6. QED
  BY <1>4, <1>5

\* Every place is taken: there are as many places as heaters.
LEMMA PlacesAreTaken ==
    ASSUME NEW diff \in [Heater -> Nat]
    PROVE  \A k \in Heater : \E h \in Heater : Place(diff)[h] = k
<1>1. \A g, h \in Heater : g # h => Before(diff, g, h) \/ Before(diff, h, g)
  BY HeatersAreFinite DEF Before
<1>2. /\ Place(diff) \in [Heater -> Heater]
      /\ \A g, h \in Heater : Before(diff, g, h) => Place(diff)[g] < Place(diff)[h]
  BY PlacesOrder
<1>3. \A g, h \in Heater : Place(diff)[g] = Place(diff)[h] => g = h
  BY <1>1, <1>2, HeatersAreFinite
<1>4. Place(diff) \in Injection(Heater, Heater)
  BY <1>2, <1>3, Fun_IsInj
<1>5. Place(diff) \in Surjection(Heater, Heater)
  BY <1>4, HeatersAreFinite, FS_Injection
<1>6. QED
  BY <1>5, Fun_SurjectionProperties

\* bubbleSort finds an order, for every number of heaters.
LEMMA SortSorts ==
    ASSUME NEW diff \in [Heater -> Nat]
    PROVE  bubbleSort(diff) \in [Heater -> Heater] /\ Sorted(diff, bubbleSort(diff))
<1> DEFINE p == [k \in Heater |-> CHOOSE h \in Heater : Place(diff)[h] = k]
<1>1. p \in [Heater -> Heater] /\ \A k \in Heater : Place(diff)[p[k]] = k
  BY PlacesAreTaken
<1>2. \A g, h \in Heater : g # h => Before(diff, g, h) \/ Before(diff, h, g)
  BY HeatersAreFinite DEF Before
<1>3. \A g, h \in Heater : Before(diff, g, h) => Place(diff)[g] < Place(diff)[h]
  BY PlacesOrder
<1> HIDE DEF p
<1>4. ASSUME NEW a \in Heater, NEW b \in Heater, a < b PROVE Before(diff, p[a], p[b])
  <2>1. p[a] # p[b]
    BY <1>1, <1>4, HeatersAreFinite
  <2>2. ~Before(diff, p[b], p[a])
    BY <1>1, <1>3, <1>4, HeatersAreFinite
  <2>3. QED
    BY <1>1, <1>2, <2>1, <2>2
<1>5. \E q \in [Heater -> Heater] : Sorted(diff, q)
  BY <1>1, <1>4 DEF Sorted
<1>6. bubbleSort(diff) = CHOOSE q \in [Heater -> Heater] : Sorted(diff, q)
  BY DEF bubbleSort, Sorted, Before
<1>7. QED
  BY <1>5, <1>6

-----------------------------------------------------------------------------
(* The coldest heater comes first *)

\* The limits and readings are numbers; the threads have their locals.
LimitTypes ==
    /\ temp_low \in [Automatic -> Int] /\ temp_high \in [Automatic -> Int]
    /\ saved \subseteq [Automatic -> Int \X Int] /\ range \in Ranges
ColdTypes ==
    /\ temp_diff \in [Heater -> Nat]
    /\ DOMAIN pc = Thread /\ DOMAIN i = Thread /\ DOMAIN sum = Thread
    /\ DOMAIN position_difference = Thread /\ DOMAIN lit = Thread /\ DOMAIN denied = Thread

\* After the readings the heaters are in the order of need.
OrderInv(t) ==
    pc[t] \in {"manual", "toggled", "control", "light"} =>
        /\ position_difference[t] \in [Heater -> Heater]
        /\ Sorted(temp_diff, position_difference[t])

\* What the control loop has been through in this round: a heater that it switched
\* on or kept off is not less cold than the next one; when it kept one off, the
\* limit keeps off every cold one that follows.
RoundInv(t) ==
    LET next == position_difference[t][i[t]] IN
    /\ lit[t] \cup denied[t] \subseteq Heater
    /\ \A g \in lit[t], h \in denied[t] : temp_diff[g] >= temp_diff[h]
    /\ pc[t] \notin {"control", "light", "top"} => lit[t] = {} /\ denied[t] = {}
    /\ pc[t] \in {"control", "light"} =>
          /\ i[t] \in Heater
          /\ \A h \in lit[t] \cup denied[t] : temp_diff[h] >= temp_diff[next]
          /\ denied[t] = {} \/ temp_diff[next] = 0 \/ ~budget(t)
    /\ pc[t] = "light" => temp_diff[next] > 0 /\ budget(t)

ColdInv(t) == LimitTypes /\ ColdTypes /\ OrderInv(t) /\ RoundInv(t)

RoundsInv == ~second => \A t \in Thread : ColdInv(t)

LEMMA InitCold == ASSUME Init, NEW t \in Thread PROVE ColdInv(t)
<1>1. LimitTypes
  BY HeatersAssumption DEF HeatersAssumption, Init, LimitTypes
<1>2. ColdTypes
  BY DEF Init, ColdTypes, NoValue
<1>3. OrderInv(t) /\ RoundInv(t)
  BY DEF Init, OrderInv, RoundInv
<1>4. QED
  BY <1>1, <1>2, <1>3 DEF ColdInv

LEMMA RestartCold == ASSUME LimitTypes, Restart, NEW t \in Thread PROVE ColdInv(t)'
<1>1. LimitTypes'
  BY HeatersAssumption DEF HeatersAssumption, Restart, LimitTypes
<1>2. ColdTypes'
  BY DEF Restart, ColdTypes, NoValue
<1>3. OrderInv(t)' /\ RoundInv(t)'
  BY DEF Restart, OrderInv, RoundInv
<1>4. QED
  BY <1>1, <1>2, <1>3 DEF ColdInv

\* A step that leaves the round alone.
LEMMA RoundKept ==
    ASSUME NEW t \in Thread, ColdInv(t), LimitTypes',
           UNCHANGED <<temp_diff, i, sum, position_difference, lit, denied>>, UNCHANGED pc
    PROVE  ColdInv(t)'
BY DEF ColdInv, ColdTypes, OrderInv, RoundInv, budget

\* A thread that has ended has no round, whatever another thread does.
LEMMA EndedKept ==
    ASSUME NEW t \in Thread, NEW s \in Thread \ {t}, ColdInv(s), pc[s] = "none",
           run_heaters_thread(t), LimitTypes', ColdTypes'
    PROVE  ColdInv(s)'
<1> USE DEF ColdInv, ColdTypes
<1>1. pc'[s] = "none"
  <2>1. \E l : pc' = [pc EXCEPT ![t] = l]
    BY Zenon DEF run_heaters_thread, CreateServer, StartFails, ServerRunning,
       initialize_heaters, StartOff, calibrate_current, Top, Read, TakeToggle, ApplyToggle,
       Control, SwitchOn, NextControl, Cleanup, Ended, goto
  <2>2. QED
    BY <2>1
<1>2. lit[s] = {} /\ denied[s] = {}
  BY DEF RoundInv
<1>3. lit'[s] = lit[s]
  BY DEF run_heaters_thread, CreateServer, StartFails, ServerRunning, initialize_heaters,
     StartOff, calibrate_current, Top, Read, TakeToggle, ApplyToggle, Control, SwitchOn,
     Cleanup, Ended, locals
<1>4. denied'[s] = denied[s]
  BY DEF run_heaters_thread, CreateServer, StartFails, ServerRunning, initialize_heaters,
     StartOff, calibrate_current, Top, Read, TakeToggle, ApplyToggle, Control, SwitchOn,
     Cleanup, Ended, locals
<1>5. OrderInv(s)' /\ RoundInv(s)'
  BY <1>1, <1>2, <1>3, <1>4 DEF OrderInv, RoundInv
<1>6. QED
  BY <1>5

\* A step of a control thread that is outside of the control loop, or enters it.
LEMMA OutsideKept ==
    ASSUME NEW t \in Thread, ColdInv(t), LimitTypes',
           temp_diff' \in [Heater -> Nat], NEW l, goto(t, l), UNCHANGED locals,
           pc[t] \notin {"control", "light", "top"},
           l \notin {"manual", "toggled", "control", "light"}
    PROVE  ColdInv(t)'
<1>1. pc' = [pc EXCEPT ![t] = l] /\ DOMAIN pc = Thread /\ pc'[t] = l
  BY DEF goto, ColdInv, ColdTypes
<1>2. ColdTypes'
  BY <1>1 DEF ColdInv, ColdTypes, locals
<1>3. OrderInv(t)'
  BY <1>1 DEF OrderInv
<1>4. RoundInv(t)'
  BY <1>1 DEF ColdInv, RoundInv, locals
<1>5. QED
  BY <1>2, <1>3, <1>4 DEF ColdInv

LEMMA LimitsKept == ASSUME LimitTypes, UNCHANGED limits, UNCHANGED range PROVE LimitTypes'
BY DEF LimitTypes, limits

\* What the file holds, or the configuration, is numbers.
LEMMA LoadedLimits ==
    ASSUME LimitTypes
    PROVE  load_temp_ranges_from_file \in [Automatic -> Int \X Int]
BY HeatersAssumption DEF HeatersAssumption, LimitTypes, load_temp_ranges_from_file

\* The difference to the lower limit is positive, or zero; the PV heater has none.
LEMMA ReadDifferences ==
    ASSUME NEW t \in Thread, LimitTypes, Read(t)
    PROVE  temp_diff' \in [Heater -> Nat] /\ temp_diff'[PV] = 0
<1>1. /\ temp' \in [Automatic -> Degrees \cup {Invalid}]
      /\ temp_diff' = [h \in Heater |->
             IF h \in Automatic /\ temp'[h] # Invalid /\ temp'[h] < temp_low[h]
             THEN temp_low[h] - temp'[h] ELSE 0]
  BY DEF Read, read_temperature
<1>2. ASSUME NEW h \in Heater
      PROVE  (IF h \in Automatic /\ temp'[h] # Invalid /\ temp'[h] < temp_low[h]
              THEN temp_low[h] - temp'[h] ELSE 0) \in Nat
  <2>1. CASE h \in Automatic /\ temp'[h] # Invalid /\ temp'[h] < temp_low[h]
    <3>1. temp'[h] \in Int /\ temp_low[h] \in Int
      BY <1>1, <2>1, HeatersAssumption DEF HeatersAssumption, LimitTypes
    <3>2. QED
      BY <2>1, <3>1
  <2>2. QED
    BY <2>1
<1>3. QED
  BY <1>1, <1>2, PvIsManual

\* The readings put the heaters in the order of need.
LEMMA ReadCold ==
    ASSUME NEW t \in Thread, ColdInv(t), Read(t)
    PROVE  ColdInv(t)'
<1>1. temp_diff' \in [Heater -> Nat]
  BY ReadDifferences DEF ColdInv
<1>2. LimitTypes'
  BY LimitsKept DEF Read, ColdInv, cli
<1>3. /\ position_difference'[t] \in [Heater -> Heater]
      /\ Sorted(temp_diff', position_difference'[t])
  <2>1. position_difference'[t] = bubbleSort(temp_diff')
    BY DEF Read, ColdInv, ColdTypes
  <2>2. QED
    BY <1>1, <2>1, SortSorts
<1>4. /\ pc[t] = "read" /\ pc'[t] = "manual" /\ DOMAIN pc' = Thread
      /\ UNCHANGED <<i, lit, denied>>
      /\ DOMAIN sum' = Thread /\ DOMAIN position_difference' = Thread
  BY DEF Read, goto, ColdInv, ColdTypes
<1>5. ColdTypes'
  BY <1>1, <1>4 DEF ColdInv, ColdTypes
<1>6. OrderInv(t)'
  BY <1>3, <1>4 DEF OrderInv
<1>7. RoundInv(t)'
  BY <1>4 DEF ColdInv, RoundInv
<1>8. QED
  BY <1>2, <1>5, <1>6, <1>7 DEF ColdInv

\* The next heater in the order is not colder than the last one.
LEMMA NextIsWarmer ==
    ASSUME NEW diff \in [Heater -> Nat], NEW p \in [Heater -> Heater], Sorted(diff, p),
           NEW k \in Heater, k < NumAuto
    PROVE  k + 1 \in Heater /\ diff[p[k]] >= diff[p[k + 1]]
<1>1. NumAuto \in Nat
  BY HeatersAssumption DEF HeatersAssumption
<1>2. k + 1 \in Heater /\ k < k + 1
  BY <1>1, HeatersAreFinite
<1>3. Before(diff, p[k], p[k + 1])
  BY <1>2 DEF Sorted
<1>4. diff[p[k]] \in Nat /\ diff[p[k + 1]] \in Nat
  BY <1>2
<1>5. QED
  BY <1>2, <1>3, <1>4 DEF Before

\* One heater of the automatic control.  What is common to its outcomes.
LEMMA ControlCold ==
    ASSUME NEW t \in Thread, ColdInv(t), Control(t)
    PROVE  ColdInv(t)'
<1> DEFINE h == position_difference[t][i[t]]
           d == temp_diff
<1>1. /\ pc[t] = "control" /\ i[t] \in Heater /\ h \in Heater
      /\ position_difference[t] \in [Heater -> Heater]
      /\ Sorted(temp_diff, position_difference[t])
  BY DEF Control, ColdInv, OrderInv, RoundInv
<1>2. /\ UNCHANGED <<position_difference, lit>> /\ UNCHANGED temp_diff
      /\ temp_diff \in [Heater -> Nat]
  BY DEF Control, readings, ColdInv, ColdTypes
<1>3. LimitTypes'
  BY LimitsKept DEF Control, ColdInv, cli
<1>4. temp_diff[h] \in Nat /\ NumAuto \in Nat
  BY <1>1, <1>2, HeatersAssumption DEF HeatersAssumption
<1>5. CASE temp_diff[h] > 0 /\ budget(t) /\ goto(t, "light") /\ UNCHANGED <<i, sum, denied>>
  <2>1. pc'[t] = "light" /\ DOMAIN pc' = Thread
    BY <1>5 DEF goto, ColdInv, ColdTypes
  <2>2. ColdTypes' /\ OrderInv(t)'
    BY <1>1, <1>2, <1>5, <2>1 DEF ColdInv, ColdTypes, OrderInv
  <2>3. RoundInv(t)'
    BY <1>1, <1>2, <1>5, <2>1 DEF ColdInv, RoundInv, budget
  <2>4. QED
    BY <1>3, <2>2, <2>3 DEF ColdInv
<1>6. CASE /\ NextControl(t)
           /\ \/ /\ denied' = [denied EXCEPT ![t] = @ \cup {h}] /\ ~budget(t) /\ UNCHANGED sum
              \/ UNCHANGED <<sum, denied>>
              \/ /\ temp_diff[h] <= 0 /\ sum' = [sum EXCEPT ![t] = @ - current[h]]
                 /\ UNCHANGED denied
  <2>1. /\ DOMAIN pc' = Thread /\ DOMAIN i' = Thread /\ DOMAIN sum' = Thread
        /\ DOMAIN denied' = Thread
    BY <1>6 DEF NextControl, goto, ColdInv, ColdTypes
  <2>2. ColdTypes'
    BY <1>2, <2>1 DEF ColdInv, ColdTypes
  <2>3. /\ lit'[t] \cup denied'[t] \subseteq Heater
        /\ \A g \in lit'[t] \cup denied'[t] : temp_diff[g] >= temp_diff[h]
        /\ \A g \in lit'[t], e \in denied'[t] : temp_diff[g] >= temp_diff[e]
    <3>1. lit[t] \cup denied[t] \subseteq Heater
      BY DEF ColdInv, RoundInv
    <3>2. denied'[t] = denied[t] \/ denied'[t] = denied[t] \cup {h}
      BY <1>6 DEF ColdInv, ColdTypes
    <3>3. /\ \A g \in lit[t] \cup denied[t] : temp_diff[g] >= temp_diff[h]
          /\ \A g \in lit[t], e \in denied[t] : temp_diff[g] >= temp_diff[e]
      BY <1>1 DEF ColdInv, RoundInv
    <3>4. QED
      BY <1>1, <1>2, <1>4, <3>1, <3>2, <3>3
  <2>4. denied'[t] = {} \/ temp_diff[h] = 0 \/ (~budget(t) /\ UNCHANGED sum)
    BY <1>1, <1>4, <1>6 DEF ColdInv, RoundInv
  <2>5. CASE i[t] < NumAuto - 1 /\ i' = [i EXCEPT ![t] = @ + 1] /\ goto(t, "control")
    <3>1. i'[t] = i[t] + 1 /\ pc'[t] = "control"
      BY <2>5 DEF goto, ColdInv, ColdTypes
    <3>2. i[t] < NumAuto
      BY <1>1, <1>4, <2>5, HeatersAreFinite
    <3>3. /\ i'[t] \in Heater
          /\ temp_diff[h] >= temp_diff[position_difference[t][i'[t]]]
      BY <1>1, <1>2, <3>1, <3>2, NextIsWarmer
    <3>4. temp_diff[position_difference[t][i'[t]]] \in Nat
      BY <1>1, <1>2, <3>3
    <3>5. \A g \in lit'[t] \cup denied'[t] :
             temp_diff[g] >= temp_diff[position_difference[t][i'[t]]]
      BY <1>2, <1>4, <2>3, <3>3, <3>4
    <3>6. \/ denied'[t] = {} \/ temp_diff[position_difference[t][i'[t]]] = 0
          \/ ~budget(t)'
      BY <1>4, <2>4, <3>3, <3>4 DEF budget
    <3>7. OrderInv(t)'
      BY <1>1, <1>2 DEF OrderInv
    <3>8. RoundInv(t)'
      BY <1>2, <2>3, <3>1, <3>3, <3>5, <3>6 DEF RoundInv
    <3>9. QED
      BY <1>3, <2>2, <3>7, <3>8 DEF ColdInv
  <2>6. CASE i' = [i EXCEPT ![t] = 0] /\ goto(t, "top")
    <3>1. pc'[t] = "top"
      BY <2>6 DEF goto, ColdInv, ColdTypes
    <3>2. OrderInv(t)' /\ RoundInv(t)'
      BY <1>2, <2>3, <3>1 DEF OrderInv, RoundInv
    <3>3. QED
      BY <1>3, <2>2, <3>2 DEF ColdInv
  <2>7. QED
    BY <1>6, <2>5, <2>6 DEF NextControl
<1>7. QED
  BY <1>5, <1>6 DEF Control

\* A heater is switched on only before the limit kept one off.
LEMMA SwitchOnCold ==
    ASSUME NEW t \in Thread, ColdInv(t), SwitchOn(t)
    PROVE  ColdInv(t)'
<1> DEFINE h == position_difference[t][i[t]]
<1>1. /\ pc[t] = "light" /\ i[t] \in Heater /\ h \in Heater
      /\ position_difference[t] \in [Heater -> Heater]
      /\ Sorted(temp_diff, position_difference[t])
  BY DEF SwitchOn, ColdInv, OrderInv, RoundInv
<1>2. /\ UNCHANGED <<position_difference, denied>> /\ UNCHANGED temp_diff
      /\ temp_diff \in [Heater -> Nat]
  BY DEF SwitchOn, readings, ColdInv, ColdTypes
<1>3. LimitTypes'
  BY LimitsKept DEF SwitchOn, ColdInv, cli
<1>4. temp_diff[h] \in Nat /\ NumAuto \in Nat
  BY <1>1, <1>2, HeatersAssumption DEF HeatersAssumption
<1>5. denied[t] = {}
  BY <1>1, <1>4 DEF ColdInv, RoundInv
<1>6. /\ DOMAIN pc' = Thread /\ DOMAIN i' = Thread /\ DOMAIN sum' = Thread
      /\ DOMAIN lit' = Thread /\ lit'[t] = lit[t] \cup {h}
  BY DEF SwitchOn, NextControl, goto, ColdInv, ColdTypes
<1>7. ColdTypes'
  BY <1>2, <1>6 DEF ColdInv, ColdTypes
<1>8. /\ lit'[t] \subseteq Heater
      /\ \A g \in lit'[t] : temp_diff[g] >= temp_diff[h]
  <2>1. /\ lit[t] \subseteq Heater
        /\ \A g \in lit[t] : temp_diff[g] >= temp_diff[h]
    BY <1>1 DEF ColdInv, RoundInv
  <2>2. QED
    BY <1>1, <1>4, <1>6, <2>1
<1>9. CASE i[t] < NumAuto - 1 /\ i' = [i EXCEPT ![t] = @ + 1] /\ goto(t, "control")
  <2>1. i'[t] = i[t] + 1 /\ pc'[t] = "control"
    BY <1>9 DEF goto, ColdInv, ColdTypes
  <2>2. i[t] < NumAuto
    BY <1>1, <1>4, <1>9, HeatersAreFinite
  <2>3. /\ i'[t] \in Heater
        /\ temp_diff[h] >= temp_diff[position_difference[t][i'[t]]]
    BY <1>1, <1>2, <2>1, <2>2, NextIsWarmer
  <2>4. temp_diff[position_difference[t][i'[t]]] \in Nat
    BY <1>1, <1>2, <2>3
  <2>5. \A g \in lit'[t] : temp_diff[g] >= temp_diff[position_difference[t][i'[t]]]
    BY <1>2, <1>4, <1>8, <2>3, <2>4
  <2>6. OrderInv(t)' /\ RoundInv(t)'
    BY <1>1, <1>2, <1>5, <1>8, <2>1, <2>3, <2>5 DEF OrderInv, RoundInv
  <2>7. QED
    BY <1>3, <1>7, <2>6 DEF ColdInv
<1>10. CASE i' = [i EXCEPT ![t] = 0] /\ goto(t, "top")
  <2>1. pc'[t] = "top"
    BY <1>10 DEF goto, ColdInv, ColdTypes
  <2>2. OrderInv(t)' /\ RoundInv(t)'
    BY <1>2, <1>5, <1>8, <2>1 DEF OrderInv, RoundInv
  <2>3. QED
    BY <1>3, <1>7, <2>2 DEF ColdInv
<1>11. QED
  BY <1>9, <1>10 DEF SwitchOn, NextControl

\* A step of the control thread.
LEMMA ThreadCold ==
    ASSUME NEW t \in Thread, ColdInv(t), run_heaters_thread(t)
    PROVE  ColdInv(t)'
<1>1. LimitTypes /\ temp_diff \in [Heater -> Nat]
  BY DEF ColdInv, ColdTypes
<1>2. CASE CreateServer(t) \/ StartFails(t) \/ ServerRunning(t)
  BY <1>1, <1>2, LimitsKept, OutsideKept
     DEF CreateServer, StartFails, ServerRunning, readings, cli
<1>3. CASE initialize_heaters(t)
  <2>1. LimitTypes'
    BY <1>1, <1>3, LoadedLimits DEF initialize_heaters, LimitTypes, cli
  <2>2. temp_diff' \in [Heater -> Nat]
    BY <1>3 DEF initialize_heaters, NoValue
  <2>3. QED
    BY <1>3, <2>1, <2>2, OutsideKept DEF initialize_heaters
<1>4. CASE StartOff(t) \/ Cleanup(t)
  <2>1. PICK l \in {"calibrate", "clean", "join", "end"} : goto(t, l)
    BY <1>4, Zenon DEF StartOff, Cleanup
  <2>2. LimitTypes' /\ temp_diff' = temp_diff /\ UNCHANGED locals
    BY <1>1, <1>4, LimitsKept DEF StartOff, Cleanup, readings, cli
  <2>3. pc[t] \in {"eio", "clean"}
    BY <1>4 DEF StartOff, Cleanup
  <2>4. QED
    BY <1>1, <2>1, <2>2, <2>3, OutsideKept
<1>5. CASE calibrate_current(t) \/ Ended(t)
  BY <1>1, <1>5, LimitsKept, OutsideKept DEF calibrate_current, Ended, readings, cli
<1>6. CASE Top(t)
  <2>1. LimitTypes'
    BY <1>1, <1>6, LimitsKept DEF Top, cli
  <2>2. ColdTypes' /\ pc'[t] \in {"clean", "read"} /\ lit'[t] = {} /\ denied'[t] = {}
    BY <1>6 DEF Top, goto, readings, ColdInv, ColdTypes
  <2>3. OrderInv(t)' /\ RoundInv(t)'
    BY <2>2 DEF OrderInv, RoundInv
  <2>4. QED
    BY <2>1, <2>2, <2>3 DEF ColdInv
<1>7. CASE TakeToggle(t) \/ ApplyToggle(t)
  <2>1. LimitTypes' /\ UNCHANGED <<temp_diff, sum, position_difference, lit, denied>>
    BY <1>1, <1>7, LimitsKept DEF TakeToggle, ApplyToggle, readings, cli
  <2>2. /\ DOMAIN pc' = Thread /\ DOMAIN i' = Thread
        /\ pc[t] \in {"manual", "toggled"}
        /\ \/ pc'[t] \in {"manual", "toggled"}
           \/ pc'[t] = "control" /\ i'[t] = 0
    BY <1>7 DEF TakeToggle, ApplyToggle, goto, ColdInv, ColdTypes
  <2>3. ColdTypes' /\ OrderInv(t)'
    BY <2>1, <2>2 DEF ColdInv, ColdTypes, OrderInv
  <2>4. RoundInv(t)'
    <3>1. lit'[t] = {} /\ denied'[t] = {} /\ 0 \in Heater
      BY <2>1, <2>2, HeatersAreFinite, HeatersAssumption
         DEF HeatersAssumption, ColdInv, RoundInv
    <3>2. QED
      BY <2>2, <3>1 DEF RoundInv
  <2>5. QED
    BY <2>1, <2>3, <2>4 DEF ColdInv
<1>8. CASE Read(t)
  BY <1>8, ReadCold
<1>9. CASE Control(t)
  BY <1>9, ControlCold
<1>10. CASE SwitchOn(t)
  BY <1>10, SwitchOnCold
<1>11. QED
  BY <1>2, <1>3, <1>4, <1>5, <1>6, <1>7, <1>8, <1>9, <1>10 DEF run_heaters_thread

\* The server touches neither the limits nor the round.
LEMMA ServerCold == ASSUME NEW t \in Thread, ColdInv(t), do_server_heaters PROVE ColdInv(t)'
<1>1. /\ UNCHANGED limits /\ UNCHANGED cli /\ UNCHANGED locals
      /\ UNCHANGED readings /\ UNCHANGED pc
  BY DEF do_server_heaters, ServerStart, ServerEnd, ServerToggle, ServerRequest
<1>2. LimitTypes'
  BY <1>1, LimitsKept DEF ColdInv, cli
<1>3. QED
  BY <1>1, <1>2, RoundKept DEF locals, readings

\* The rest of a command saves the limits as they are.
LEMMA RestLimits == ASSUME LimitTypes, Rest PROVE LimitTypes'
<1>1. UNCHANGED temp_low
  BY DEF Rest
<1>2. DefaultRange \in Ranges /\ Ranges \subseteq Int \X Int
  BY HeatersAssumption DEF HeatersAssumption
<1>3. CASE UNCHANGED <<temp_high, saved>> /\ range' \in {range, DefaultRange}
  BY <1>1, <1>2, <1>3 DEF LimitTypes
<1>4. CASE /\ temp_high' = [temp_high EXCEPT ![heater_id] = range[2]]
           /\ save_temp_ranges_to_file(temp_high') /\ range' = DefaultRange
  <2>1. range[2] \in Int
    BY <1>2 DEF LimitTypes
  <2>2. temp_high' \in [Automatic -> Int]
    BY <1>4, <2>1 DEF LimitTypes
  <2>3. [h \in Automatic |-> <<temp_low[h], temp_high'[h]>>] \in [Automatic -> Int \X Int]
    BY <2>2 DEF LimitTypes
  <2>4. saved' \subseteq [Automatic -> Int \X Int]
    BY <1>4, <2>3 DEF LimitTypes, save_temp_ranges_to_file
  <2>5. QED
    BY <1>1, <1>2, <1>4, <2>2, <2>4 DEF LimitTypes
<1>5. QED
  BY <1>3, <1>4 DEF Rest, CliStep, Go, Done

\* A start makes a thread that has no round yet.
LEMMA StartCold ==
    ASSUME NEW t \in Thread, ColdInv(t), start_heaters
    PROVE  ColdInv(t)'
<1>1. PICK s \in Thread : goto(s, "files") /\ pc[s] = "none"
  BY DEF start_heaters
<1>2. LimitTypes' /\ UNCHANGED locals /\ UNCHANGED readings
  BY LimitsKept DEF start_heaters, cli, ColdInv
<1>3. temp_diff' \in [Heater -> Nat] /\ ColdTypes'
  BY <1>1, <1>2 DEF ColdInv, ColdTypes, locals, readings, goto
<1>4. CASE t = s
  BY <1>1, <1>2, <1>3, <1>4, OutsideKept
<1>5. CASE t # s
  <2>1. pc'[t] = pc[t]
    BY <1>1, <1>5 DEF goto, ColdInv, ColdTypes
  <2>2. OrderInv(t)' /\ RoundInv(t)'
    BY <1>2, <2>1 DEF ColdInv, OrderInv, RoundInv, budget, locals, readings
  <2>3. QED
    BY <1>2, <1>3, <2>2 DEF ColdInv
<1>6. QED
  BY <1>4, <1>5

\* Other commands set limits, which are used for the next readings.
LEMMA CommandCold ==
    ASSUME NEW t \in Thread, ColdInv(t), exec_command, ~start_heaters
    PROVE  ColdInv(t)'
<1>1. LimitTypes /\ temp_diff \in [Heater -> Nat]
  BY DEF ColdInv, ColdTypes
<1>3. CASE \/ stop_heaters \/ \E on \in BOOLEAN : set_pv_heater_manual(on)
           \/ \E h \in Automatic \cap Commanded, on \in BOOLEAN : set_heater_auto_mode(h, on)
  <2>1. /\ UNCHANGED limits /\ UNCHANGED range /\ UNCHANGED pc
        /\ UNCHANGED locals /\ UNCHANGED readings
    BY <1>3 DEF stop_heaters, set_pv_heater_manual, set_heater_auto_mode, cli
  <2>2. QED
    BY <1>1, <2>1, LimitsKept, RoundKept DEF locals, readings
<1>4. CASE \E h \in Automatic \cap Commanded, r \in Ranges : set_heater_temp_range(h, r)
  <2>1. PICK h \in Automatic, r \in Ranges : set_heater_temp_range(h, r)
    BY <1>4
  <2>2. r[1] \in Int
    BY HeatersAssumption DEF HeatersAssumption
  <2>3. LimitTypes'
    BY <1>1, <2>1, <2>2 DEF set_heater_temp_range, LimitTypes
  <2>4. UNCHANGED pc /\ UNCHANGED locals /\ UNCHANGED readings
    BY <2>1 DEF set_heater_temp_range
  <2>5. QED
    BY <2>3, <2>4, RoundKept DEF locals, readings
<1>5. CASE Rest
  <2>1. UNCHANGED pc /\ UNCHANGED locals /\ UNCHANGED readings
    BY <1>5 DEF Rest
  <2>3. LimitTypes'
    BY <1>1, <1>5, RestLimits
  <2>4. QED
    BY <2>1, <2>3, RoundKept DEF locals, readings
<1>6. QED
  BY <1>3, <1>4, <1>5 DEF exec_command

-----------------------------------------------------------------------------
(* The sum of the currents *)

\* Every set of numbers that is not empty has a least one.
LEMMA LeastNumber ==
    ASSUME NEW T \in SUBSET Nat, T # {}
    PROVE  \E x \in T : \A y \in T : x <= y
<1>1. PICK x \in T : \A y \in T : ~(<<y, x>> \in OpToRel(<, Nat))
  BY NatLessThanWellFounded, WFMin
<1>2. ASSUME NEW y \in T PROVE x <= y
  <2>1. y < x => <<y, x>> \in OpToRel(<, Nat)
    BY DEF OpToRel
  <2>2. ~(y < x)
    BY <1>1, <2>1, Zenon
  <2>3. QED
    BY <2>2
<1>3. QED
  BY <1>2

\* The sums of the currents of the first heaters, up to heater n.
Sums(c, n, S) ==
    S \in [0 .. n -> Int] /\ \A h \in 0 .. n : S[h] = c[h] + (IF h = 0 THEN 0 ELSE S[h - 1])

\* They exist for every n: there is no least one for which they do not.
LEMMA SumsExist ==
    ASSUME NEW c \in [Heater -> Int]
    PROVE  \A n \in Heater : \E S : Sums(c, n, S)
<1> USE HeatersAreFinite
<1>0. NumAuto \in Nat
  BY HeatersAssumption DEF HeatersAssumption
<1> DEFINE T == {n \in Heater : ~ \E S : Sums(c, n, S)}
<1>1. ASSUME T # {} PROVE FALSE
  <2>1. T \in SUBSET Nat
    BY <1>0
  <2>2. PICK n \in T : \A m \in T : n <= m
    BY <1>1, <2>1, LeastNumber
  <2>3. n \in Heater /\ n \in 0 .. NumAuto /\ ~ \E S : Sums(c, n, S)
    BY <2>2
  <2>4. CASE n = 0
    <3>1. c[0] \in Int
      BY <2>3, <2>4
    <3>2. Sums(c, 0, [h \in 0 .. 0 |-> c[0]])
      BY <3>1 DEF Sums
    <3>3. QED
      BY <2>3, <2>4, <3>2
  <2>5. CASE n # 0
    <3>1. n - 1 \in Heater /\ n - 1 \notin T
      BY <1>0, <2>2, <2>3, <2>5
    <3>2. PICK S : Sums(c, n - 1, S)
      BY <3>1
    <3>3. c[n] \in Int /\ n - 1 \in 0 .. n - 1 /\ S[n - 1] \in Int
      BY <1>0, <2>3, <2>5, <3>2 DEF Sums
    <3> DEFINE R == [h \in 0 .. n |-> IF h = n THEN c[n] + S[n - 1] ELSE S[h]]
    <3>4. \A h \in 0 .. n : h # n => h \in 0 .. n - 1 /\ (h # 0 => h - 1 \in 0 .. n - 1)
      BY <1>0, <2>3
    <3>5. R \in [0 .. n -> Int]
      BY <3>2, <3>3, <3>4 DEF Sums
    <3>6. ASSUME NEW h \in 0 .. n PROVE R[h] = c[h] + (IF h = 0 THEN 0 ELSE R[h - 1])
      <4>1. CASE h = n
        <5>1. R[n] = c[n] + S[n - 1] /\ R[n - 1] = S[n - 1]
          BY <1>0, <2>3, <2>5
        <5>2. QED
          BY <2>5, <4>1, <5>1
      <4>2. CASE h # n
        <5>1. S[h] = c[h] + (IF h = 0 THEN 0 ELSE S[h - 1])
          BY <3>2, <3>4, <4>2 DEF Sums
        <5>2. R[h] = S[h] /\ (h # 0 => R[h - 1] = S[h - 1])
          BY <1>0, <2>3, <3>4, <4>2
        <5>3. QED
          BY <5>1, <5>2
      <4>3. QED
        BY <4>1, <4>2
    <3> HIDE DEF R
    <3>7. Sums(c, n, R)
      BY <3>5, <3>6 DEF Sums
    <3>8. QED
      BY <2>3, <3>7
  <2>6. QED
    BY <2>4, <2>5
<1>2. QED
  BY <1>1

\* get_total_heater_current returns a number, for any number of heaters.
LEMMA TotalType ==
    ASSUME NEW c \in [Heater -> Int]
    PROVE  Total(c) \in Int
<1> DEFINE Eq(S) == S = [h \in Heater |-> c[h] + (IF h = 0 THEN 0 ELSE S[h - 1])]
           S == CHOOSE S : Eq(S)
<1> USE HeatersAreFinite
<1>0. NumAuto \in Nat /\ PV \in Heater /\ PV = NumAuto
  BY HeatersAssumption DEF HeatersAssumption, PV
<1>1. Total(c) = S[PV]
  BY DEF Total
<1>2. PICK R : Sums(c, NumAuto, R)
  BY <1>0, SumsExist
<1>3. Eq(R)
  BY <1>2 DEF Sums
<1>4. Eq(S)
  BY <1>3
<1> HIDE DEF S
<1>5. \A h \in Heater : S[h] = c[h] + (IF h = 0 THEN 0 ELSE S[h - 1])
  BY <1>4
<1> DEFINE T == {h \in Heater : S[h] \notin Int}
<1>6. ASSUME T # {} PROVE FALSE
  <2>1. T \in SUBSET Nat
    BY <1>0
  <2>2. PICK n \in T : \A m \in T : n <= m
    BY <1>6, <2>1, LeastNumber
  <2>3. n \in Heater /\ S[n] \notin Int /\ c[n] \in Int
    BY <2>2
  <2>4. n # 0 => n - 1 \in Heater /\ S[n - 1] \in Int
    BY <1>0, <2>2, <2>3
  <2>5. QED
    BY <1>5, <2>3, <2>4
<1>7. QED
  BY <1>0, <1>1, <1>6

-----------------------------------------------------------------------------
(* Types, and the place of the PV heater *)

\* An order of the heaters in which the PV heater is the last one.
Order == {p \in [Heater -> Heater] : p[PV] = PV /\ \A h \in Automatic : p[h] \in Automatic}

BoxTypes ==
    /\ enabled \in [Heater -> BOOLEAN] /\ state \in [Heater -> BOOLEAN]
    /\ toggle \in [Heater -> BOOLEAN] /\ relay \in [Heater -> BOOLEAN]
    /\ ~enabled[PV] /\ refused \subseteq Heater
ReadTypes ==
    /\ temp \in [Automatic -> Degrees \cup {Invalid}] /\ temp_diff \in [Heater -> Nat]
    /\ current \in [Heater -> Measured]
FlagTypes ==
    /\ main_heaters_thread \in Thread /\ relay_id \in Heater /\ heater_id \in Heater
    /\ heaters_running \in BOOLEAN /\ shutdown_heaters \in BOOLEAN
    /\ heaters_server_running \in BOOLEAN /\ stop_heaters_server \in BOOLEAN
LocalTypes ==
    /\ DOMAIN pc = Thread /\ i \in [Thread -> 0 .. NumAuto + 1] /\ sum \in [Thread -> Int]
    /\ lit \in [Thread -> SUBSET Automatic] /\ denied \in [Thread -> SUBSET Automatic]
    /\ position_difference \in [Thread -> Order]
\* The place of the array a thread is at is one, and the PV heater is not switched on.
PlaceTypes ==
    \A t \in Thread :
        /\ pc[t] \in {"toggled", "control", "light"} => i[t] \in Heater
        /\ pc[t] = "light" => position_difference[t][i[t]] \in Automatic

TypesInv == BoxTypes /\ LimitTypes /\ ReadTypes /\ FlagTypes /\ LocalTypes /\ PlaceTypes

\* The PV heater, the last one, needs no heat: the sort leaves it where it is.
LEMMA PvIsLast ==
    ASSUME NEW diff \in [Heater -> Nat], diff[PV] = 0
    PROVE  bubbleSort(diff) \in Order
<1> DEFINE p == bubbleSort(diff)
<1>0. NumAuto \in Nat /\ PV \in Heater /\ PV = NumAuto /\ Automatic = Heater \ {PV}
  BY HeatersAssumption DEF HeatersAssumption, PV, Heater, Automatic
<1>1. p \in [Heater -> Heater] /\ Sorted(diff, p)
  BY SortSorts
<1> HIDE DEF p
<1>2. \A a, b \in Heater : p[a] = p[b] => a = b
  <2>1. \A a, b \in Heater : a < b => p[a] # p[b]
    BY <1>1, HeatersAreFinite DEF Sorted, Before
  <2>2. QED
    BY <2>1, HeatersAreFinite
<1>3. p \in Injection(Heater, Heater)
  BY <1>1, <1>2, Fun_IsInj
<1>4. p \in Surjection(Heater, Heater)
  BY <1>3, HeatersAreFinite, FS_Injection
<1>5. PICK k \in Heater : p[k] = PV
  <2>1. \A g \in Heater : \E k \in Heater : p[k] = g
    BY <1>4, Fun_SurjectionProperties
  <2>2. QED
    BY <1>0, <2>1
<1>6. k = PV
  <2>1. ASSUME k < PV PROVE FALSE
    <3>1. Before(diff, PV, p[PV])
      BY <1>0, <1>1, <1>5, <2>1 DEF Sorted
    <3>2. p[PV] \in 0 .. NumAuto /\ diff[p[PV]] \in Nat
      BY <1>0, <1>1, HeatersAreFinite
    <3>3. QED
      BY <1>0, <3>1, <3>2 DEF Before
  <2>2. QED
    BY <1>0, <2>1, HeatersAreFinite
<1>7. \A h \in Automatic : p[h] \in Automatic
  BY <1>0, <1>1, <1>2, <1>5, <1>6
<1>8. QED
  <2>1. p \in [Heater -> Heater] /\ p[PV] = PV
    BY <1>1, <1>5, <1>6
  <2>2. p \in Order
    BY <1>7, <2>1 DEF Order
  <2>3. QED
    BY <2>2 DEF p

LEMMA NumbersOfHeaters ==
    /\ NumAuto \in Nat /\ Heater = 0 .. NumAuto /\ PV = NumAuto /\ Automatic = 0 .. NumAuto - 1
    /\ Automatic \subseteq Heater /\ PV \in Heater /\ PV \notin Automatic
    /\ \A h \in Heater : h \in Automatic \/ h = PV
BY HeatersAssumption DEF HeatersAssumption, PV, Heater, Automatic

\* What a write of relays leaves behind.
LEMMA WriteTypes ==
    ASSUME BoxTypes, NEW H \in SUBSET Heater, NEW on \in BOOLEAN, Write(H, on)
    PROVE  relay' \in [Heater -> BOOLEAN] /\ refused' \subseteq Heater
<1>1. relay' \in [Heater -> BOOLEAN]
  BY WriteRelays DEF BoxTypes
<1>2. refused' \subseteq Heater
  BY DEF Write, BoxTypes
<1>3. QED
  BY <1>1, <1>2

\* What the program starts with.
LEMMA FirstTypes ==
    /\ AllOff \in [Heater -> BOOLEAN] /\ ~AllOff[PV] /\ NoValue \in [Heater -> Nat]
    /\ AllInvalid \in [Automatic -> Degrees \cup {Invalid}]
    /\ NoValue \in [Heater -> Measured]
    /\ [k \in Heater |-> k] \in Order
<1>1. AllOff \in [Heater -> BOOLEAN] /\ ~AllOff[PV]
  BY NumbersOfHeaters, Zenon DEF AllOff
<1>2. NoValue \in [Heater -> Nat] /\ NoValue \in [Heater -> Measured]
  BY HeatersAssumption DEF HeatersAssumption, NoValue
<1>3. [k \in Heater |-> k] \in Order
  BY NumbersOfHeaters DEF Order
<1>4. QED
  BY <1>1, <1>2, <1>3 DEF AllInvalid

LEMMA InitTypes == Init => TypesInv
<1> SUFFICES ASSUME Init PROVE TypesInv
  OBVIOUS
<1>0. NumAuto \in Nat /\ 0 \in 0 .. NumAuto + 1 /\ 0 \in Int
  BY NumbersOfHeaters
<1>1. BoxTypes
  BY <1>0, FirstTypes DEF Init, BoxTypes
<1>2. LimitTypes
  BY HeatersAssumption DEF HeatersAssumption, Init, LimitTypes
<1>3. ReadTypes
  BY <1>0, FirstTypes DEF Init, ReadTypes
<1>4. FlagTypes
  BY NumbersOfHeaters DEF Init, FlagTypes
<1>5. LocalTypes
  BY <1>0, FirstTypes DEF Init, LocalTypes
<1>6. PlaceTypes
  BY DEF Init, PlaceTypes
<1>7. QED
  BY <1>1, <1>2, <1>3, <1>4, <1>5, <1>6 DEF TypesInv

LEMMA RestartTypes == ASSUME TypesInv, Restart PROVE TypesInv'
<1>0. NumAuto \in Nat /\ 0 \in 0 .. NumAuto + 1 /\ 0 \in Int
  BY NumbersOfHeaters
<1>1. BoxTypes'
  BY <1>0, FirstTypes DEF Restart, BoxTypes, box, TypesInv
<1>2. LimitTypes'
  BY HeatersAssumption DEF HeatersAssumption, Restart, LimitTypes, TypesInv
<1>3. ReadTypes'
  BY <1>0, FirstTypes DEF Restart, ReadTypes
<1>4. FlagTypes'
  BY NumbersOfHeaters DEF Restart, FlagTypes
<1>5. LocalTypes'
  BY <1>0, FirstTypes DEF Restart, LocalTypes
<1>6. PlaceTypes'
  BY DEF Restart, PlaceTypes
<1>7. QED
  BY <1>1, <1>2, <1>3, <1>4, <1>5, <1>6 DEF TypesInv

\* The places are kept by a step that leaves the round alone.
LEMMA PlacesKept ==
    ASSUME TypesInv, NEW t \in Thread, NEW l, goto(t, l), UNCHANGED locals,
           l \notin {"toggled", "control", "light"}
    PROVE  LocalTypes' /\ PlaceTypes'
<1>1. LocalTypes'
  BY DEF goto, locals, TypesInv, LocalTypes
<1>2. PlaceTypes'
  BY DEF goto, locals, TypesInv, LocalTypes, PlaceTypes
<1>3. QED
  BY <1>1, <1>2

LEMMA ReadKept == ASSUME ReadTypes, UNCHANGED readings PROVE ReadTypes'
BY DEF ReadTypes, readings

\* Starting, ending and the top of a round.
LEMMA OutsideTypes ==
    ASSUME TypesInv, NEW t \in Thread,
           \/ CreateServer(t) \/ StartFails(t) \/ ServerRunning(t) \/ initialize_heaters(t)
           \/ StartOff(t) \/ calibrate_current(t) \/ Top(t) \/ Cleanup(t) \/ Ended(t)
    PROVE  TypesInv'
<1> USE DEF TypesInv
<1>a. Automatic \in SUBSET Heater /\ Heater \in SUBSET Heater /\ PV \in Heater /\ NumAuto \in Nat
  BY NumbersOfHeaters
<1>1. CASE CreateServer(t) \/ StartFails(t) \/ ServerRunning(t) \/ calibrate_current(t) \/ Ended(t)
  <2> USE DEF CreateServer, StartFails, ServerRunning, calibrate_current, Ended
  <2>1. BoxTypes'
    BY <1>1 DEF BoxTypes, box
  <2>2. LimitTypes' /\ ReadTypes'
    BY <1>1, LimitsKept, ReadKept DEF cli
  <2>3. FlagTypes'
    BY <1>1, <1>a DEF FlagTypes, flags, server, cli
  <2>4. LocalTypes' /\ PlaceTypes'
    BY <1>1, PlacesKept
  <2>5. QED
    BY <2>1, <2>2, <2>3, <2>4
<1>2. CASE initialize_heaters(t)
  <2>1. BoxTypes'
    <3>1. enabled' = [h \in Heater |-> h \in Automatic]
      BY <1>2 DEF initialize_heaters
    <3>2. \A h \in Heater : (h \in Automatic) \in BOOLEAN
      OBVIOUS
    <3>3. enabled' \in [Heater -> BOOLEAN]
      BY <3>1, <3>2, Zenon
    <3>4. ~enabled'[PV]
      BY <3>1, PvIsManual, Zenon
    <3>5. QED
      BY <1>2, <1>a, <3>3, <3>4, FirstTypes DEF initialize_heaters, BoxTypes, box
  <2>2. LimitTypes'
    BY <1>2, LoadedLimits DEF initialize_heaters, LimitTypes, cli
  <2>3. ReadTypes'
    BY <1>2, <1>a, FirstTypes DEF initialize_heaters, ReadTypes
  <2>4. FlagTypes'
    BY <1>2 DEF initialize_heaters, FlagTypes, flags, server, cli
  <2>5. LocalTypes' /\ PlaceTypes'
    BY <1>2, PlacesKept DEF initialize_heaters
  <2>6. QED
    BY <2>1, <2>2, <2>3, <2>4, <2>5
<1>3. CASE StartOff(t) \/ Cleanup(t)
  <2>1. relay' \in [Heater -> BOOLEAN] /\ refused' \subseteq Heater
    <3>1. Write(Heater, FALSE)
      BY <1>3 DEF StartOff, Cleanup
    <3>2. QED
      BY <1>a, <3>1, WriteTypes
  <2>2. BoxTypes'
    BY <1>3, <2>1 DEF StartOff, Cleanup, BoxTypes
  <2>3. LimitTypes' /\ ReadTypes'
    BY <1>3, LimitsKept, ReadKept DEF StartOff, Cleanup, cli
  <2>4. FlagTypes'
    <3>1. stop_heaters_server' \in BOOLEAN
      BY <1>3, Zenon DEF StartOff, Cleanup, FlagTypes, flags
    <3>2. QED
      BY <1>3, <3>1 DEF StartOff, Cleanup, FlagTypes, flags, server, cli
  <2>5. PICK l \in {"calibrate", "clean", "join", "end"} : goto(t, l)
    BY <1>3, Zenon DEF StartOff, Cleanup
  <2>6. LocalTypes' /\ PlaceTypes'
    BY <1>3, <2>5, PlacesKept DEF StartOff, Cleanup
  <2>7. QED
    BY <2>2, <2>3, <2>4, <2>6
<1>4. CASE Top(t)
  <2>1. BoxTypes'
    BY <1>4 DEF Top, BoxTypes, box
  <2>2. LimitTypes' /\ ReadTypes'
    BY <1>4, LimitsKept, ReadKept DEF Top, cli
  <2>3. FlagTypes'
    BY <1>4 DEF Top, FlagTypes, flags, server, cli
  <2>4. PICK l \in {"clean", "read"} : goto(t, l)
    BY <1>4, Zenon DEF Top
  <2>5. 0 \in 0 .. NumAuto + 1 /\ 0 \in Int /\ {} \in SUBSET Automatic
    BY <1>a
  <2>6. LocalTypes'
    BY <1>4, <2>4, <2>5 DEF Top, goto, LocalTypes
  <2>7. PlaceTypes'
    BY <1>4, <2>4 DEF Top, goto, LocalTypes, PlaceTypes
  <2>8. QED
    BY <2>1, <2>2, <2>3, <2>6, <2>7
<1>5. QED
  BY <1>1, <1>2, <1>3, <1>4

\* The readings, their sum and the order.
LEMMA ReadingTypes ==
    ASSUME TypesInv, NEW t \in Thread, Read(t)
    PROVE  TypesInv'
<1> USE DEF TypesInv
<1>1. temp' \in [Automatic -> Degrees \cup {Invalid}] /\ current' \in [Heater -> Measured]
  BY DEF Read, read_temperature, read_relay_current
<1>3. temp_diff' \in [Heater -> Nat] /\ temp_diff'[PV] = 0
  BY ReadDifferences
<1>4. ReadTypes'
  BY <1>1, <1>3 DEF ReadTypes
<1>5. Total(current') \in Int
  <2>1. current' \in [Heater -> Int]
    BY <1>1, HeatersAssumption DEF HeatersAssumption
  <2>2. QED
    BY <2>1, TotalType
<1>6. bubbleSort(temp_diff') \in Order
  BY <1>3, PvIsLast
<1>7. sum' = [sum EXCEPT ![t] = sum[t] + Total(current')]
  BY DEF Read
<1>8. sum' \in [Thread -> Int]
  BY <1>5, <1>7 DEF LocalTypes
<1>9. position_difference' = [position_difference EXCEPT ![t] = bubbleSort(temp_diff')]
  BY DEF Read
<1>10. position_difference' \in [Thread -> Order]
  BY <1>6, <1>9 DEF LocalTypes
<1>11. /\ goto(t, "manual") /\ UNCHANGED <<enabled, state, toggle, i, lit, denied>>
       /\ UNCHANGED box /\ UNCHANGED limits /\ UNCHANGED flags
       /\ UNCHANGED server /\ UNCHANGED cli
  BY DEF Read
<1>12. LocalTypes'
  BY <1>8, <1>10, <1>11 DEF LocalTypes, goto
<1>13. PlaceTypes'
  BY <1>9, <1>11 DEF PlaceTypes, LocalTypes, goto
<1>14. BoxTypes' /\ FlagTypes'
  BY <1>11 DEF BoxTypes, FlagTypes, box, flags, server, cli
<1>15. LimitTypes'
  BY <1>11, LimitsKept DEF cli
<1>16. QED
  BY <1>4, <1>12, <1>13, <1>14, <1>15

\* The manual commands.
LEMMA ManualTypes ==
    ASSUME TypesInv, NEW t \in Thread, TakeToggle(t) \/ ApplyToggle(t)
    PROVE  TypesInv'
<1> USE DEF TypesInv
<1>a. NumAuto \in Nat /\ Heater = 0 .. NumAuto /\ 0 \in Heater /\ Heater \subseteq 0 .. NumAuto + 1
  BY NumbersOfHeaters
<1>0. LimitTypes' /\ ReadTypes' /\ FlagTypes'
  <2>1. UNCHANGED limits /\ UNCHANGED readings /\ UNCHANGED flags /\ UNCHANGED server /\ UNCHANGED cli
    BY DEF TakeToggle, ApplyToggle
  <2>2. LimitTypes' /\ ReadTypes'
    BY <2>1, LimitsKept, ReadKept DEF cli
  <2>3. FlagTypes'
    BY <2>1 DEF FlagTypes, flags, server, cli
  <2>4. QED
    BY <2>2, <2>3
<1>1. CASE TakeToggle(t)
  <2>1. PICK h \in Heater, l \in {"control", "toggled"} :
           /\ i' = [i EXCEPT ![t] = h] /\ goto(t, l)
           /\ toggle' = toggle \/ toggle' = [toggle EXCEPT ![h] = FALSE]
    BY <1>1, <1>a DEF TakeToggle
  <2>2. UNCHANGED <<enabled, state, sum, position_difference, lit, denied>> /\ UNCHANGED box
    BY <1>1 DEF TakeToggle
  <2>3. BoxTypes'
    BY <2>1, <2>2 DEF BoxTypes, box
  <2>4. LocalTypes'
    BY <1>a, <2>1, <2>2 DEF LocalTypes, goto
  <2>5. PlaceTypes'
    BY <2>1, <2>2 DEF LocalTypes, PlaceTypes, goto
  <2>6. QED
    BY <1>0, <2>3, <2>4, <2>5
<1>2. CASE ApplyToggle(t)
  <2>1. /\ pc[t] = "toggled" /\ i' = [i EXCEPT ![t] = i[t] + 1] /\ goto(t, "manual")
        /\ UNCHANGED <<enabled, toggle, sum, position_difference, lit, denied>>
    BY <1>2 DEF ApplyToggle
  <2>2. i[t] \in Heater /\ i[t] + 1 \in 0 .. NumAuto + 1 /\ {i[t]} \in SUBSET Heater
    BY <1>a, <2>1 DEF PlaceTypes
  <2>3. BoxTypes'
    <3>1. state' \in [Heater -> BOOLEAN]
      BY <1>2 DEF ApplyToggle, BoxTypes
    <3>2. relay' \in [Heater -> BOOLEAN] /\ refused' \subseteq Heater
      <4>1. state[i[t]] \in BOOLEAN
        BY <2>2 DEF BoxTypes
      <4>2. Write({i[t]}, state[i[t]]) \/ Write({i[t]}, FALSE) \/ UNCHANGED box
        BY <1>2 DEF ApplyToggle
      <4>3. QED
        BY <2>2, <4>1, <4>2, WriteTypes DEF BoxTypes, box
    <3>3. QED
      BY <2>1, <3>1, <3>2 DEF BoxTypes
  <2>4. LocalTypes'
    BY <2>1, <2>2 DEF LocalTypes, goto
  <2>5. PlaceTypes'
    BY <2>1 DEF LocalTypes, PlaceTypes, goto
  <2>6. QED
    BY <1>0, <2>3, <2>4, <2>5
<1>3. QED
  BY <1>1, <1>2

\* The automatic control. A heater that is enabled is automatic.
LEMMA ControlTypes ==
    ASSUME TypesInv, NEW t \in Thread, Control(t) \/ SwitchOn(t)
    PROVE  TypesInv'
<1> USE DEF TypesInv
<1> DEFINE h == position_difference[t][i[t]]
<1>a. NumAuto \in Nat /\ Heater = 0 .. NumAuto /\ 0 \in Heater /\ Heater \subseteq 0 .. NumAuto + 1
  BY NumbersOfHeaters
<1>b. Draw \in Int /\ Measured \subseteq Int
  BY HeatersAssumption DEF HeatersAssumption
<1>0. LimitTypes' /\ ReadTypes' /\ FlagTypes'
  <2>1. UNCHANGED limits /\ UNCHANGED readings /\ UNCHANGED flags /\ UNCHANGED server /\ UNCHANGED cli
    BY DEF Control, SwitchOn
  <2>2. LimitTypes' /\ ReadTypes'
    BY <2>1, LimitsKept, ReadKept DEF cli
  <2>3. FlagTypes'
    BY <2>1 DEF FlagTypes, flags, server, cli
  <2>4. QED
    BY <2>2, <2>3
<1>1. i[t] \in Heater /\ h \in Heater /\ {h} \in SUBSET Heater
  <2>1. pc[t] \in {"control", "light"}
    BY DEF Control, SwitchOn
  <2>2. i[t] \in Heater
    BY <2>1 DEF PlaceTypes
  <2>3. position_difference[t] \in [Heater -> Heater]
    BY DEF LocalTypes, Order
  <2>4. QED
    BY <2>2, <2>3
<1>2. enabled[h] => h \in Automatic
  BY <1>1, NumbersOfHeaters DEF BoxTypes
<1>3. UNCHANGED position_difference /\ UNCHANGED <<enabled, toggle>>
  BY DEF Control, SwitchOn
<1>4. BoxTypes'
  <2>1. /\ state' = state \/ state' = [state EXCEPT ![h] = FALSE]
             \/ state' = [state EXCEPT ![h] = TRUE]
        /\ UNCHANGED box \/ Write({h}, FALSE) \/ Write({h}, TRUE)
    BY DEF Control, SwitchOn
  <2>2. state' \in [Heater -> BOOLEAN]
    BY <2>1 DEF BoxTypes
  <2>3. relay' \in [Heater -> BOOLEAN] /\ refused' \subseteq Heater
    BY <1>1, <2>1, WriteTypes DEF BoxTypes, box
  <2>4. QED
    BY <1>3, <2>2, <2>3 DEF BoxTypes
<1>5. CASE Control(t) /\ goto(t, "light") /\ UNCHANGED <<i, sum, denied>> /\ enabled[h]
  <2>1. UNCHANGED lit
    BY <1>5 DEF Control
  <2>2. LocalTypes'
    BY <1>3, <1>5, <2>1 DEF LocalTypes, goto
  <2>3. PlaceTypes'
    BY <1>1, <1>2, <1>3, <1>5 DEF LocalTypes, PlaceTypes, goto
  <2>4. QED
    BY <1>0, <1>4, <2>2, <2>3
<1>6. CASE NextControl(t)
  <2>1. lit' \in [Thread -> SUBSET Automatic] /\ denied' \in [Thread -> SUBSET Automatic]
    <3>1. \/ UNCHANGED <<lit, denied>>
          \/ UNCHANGED lit /\ enabled[h] /\ denied' = [denied EXCEPT ![t] = @ \cup {h}]
          \/ UNCHANGED denied /\ pc[t] = "light" /\ lit' = [lit EXCEPT ![t] = @ \cup {h}]
      BY DEF Control, SwitchOn
    <3>2. pc[t] = "light" => h \in Automatic
      BY DEF PlaceTypes
    <3>3. QED
      BY <1>2, <3>1, <3>2 DEF LocalTypes
  <2>2. sum' \in [Thread -> Int]
    <3>1. \/ sum' = sum
          \/ sum' = [sum EXCEPT ![t] = sum[t] - current[h]]
          \/ sum' = [sum EXCEPT ![t] = sum[t] + Draw]
      BY DEF Control, SwitchOn
    <3>2. current[h] \in Int /\ sum[t] \in Int
      BY <1>1, <1>b DEF ReadTypes, LocalTypes
    <3>3. QED
      BY <1>b, <3>1, <3>2 DEF LocalTypes
  <2>3. PICK n \in Heater, l \in {"control", "top"} :
           i' = [i EXCEPT ![t] = n] /\ goto(t, l)
    <3>1. CASE i[t] < NumAuto - 1 /\ i' = [i EXCEPT ![t] = i[t] + 1] /\ goto(t, "control")
      <4>1. i[t] + 1 \in Heater
        BY <1>1, <1>a, <3>1
      <4>2. QED
        BY <3>1, <4>1
    <3>2. CASE i' = [i EXCEPT ![t] = 0] /\ goto(t, "top")
      BY <1>a, <3>2
    <3>3. QED
      BY <1>6, <3>1, <3>2 DEF NextControl
  <2>4. LocalTypes'
    BY <1>3, <1>a, <2>1, <2>2, <2>3 DEF LocalTypes, goto
  <2>5. PlaceTypes'
    BY <1>3, <2>3 DEF LocalTypes, PlaceTypes, goto
  <2>6. QED
    BY <1>0, <1>4, <2>4, <2>5
<1>7. QED
  BY <1>5, <1>6 DEF Control, SwitchOn

\* The UDP thread.
LEMMA ServerTypes ==
    ASSUME TypesInv, do_server_heaters
    PROVE  TypesInv'
<1> USE DEF TypesInv
<1>1. /\ UNCHANGED limits /\ UNCHANGED cli /\ UNCHANGED locals /\ UNCHANGED readings
      /\ UNCHANGED pc /\ UNCHANGED box
  BY DEF do_server_heaters, ServerStart, ServerEnd, ServerToggle, ServerRequest
<1>2. LimitTypes' /\ ReadTypes' /\ LocalTypes' /\ PlaceTypes'
  BY <1>1, LimitsKept, ReadKept DEF cli, locals, LocalTypes, PlaceTypes
<1>3. CASE ServerStart \/ ServerEnd
  <2>1. BoxTypes'
    BY <1>1, <1>3 DEF ServerStart, ServerEnd, BoxTypes, box
  <2>2. FlagTypes'
    BY <1>1, <1>3 DEF ServerStart, ServerEnd, FlagTypes, flags, cli
  <2>3. QED
    BY <1>2, <2>1, <2>2
<1>4. CASE ServerToggle
  <2>1. BoxTypes'
    BY <1>1, <1>4 DEF ServerToggle, set_toggle, BoxTypes, box
  <2>2. FlagTypes'
    BY <1>1, <1>4, NumbersOfHeaters DEF ServerToggle, FlagTypes, flags, cli
  <2>3. QED
    BY <1>2, <2>1, <2>2
<1>5. ASSUME NEW h \in Commanded, ServerRequest(h) PROVE TypesInv'
  <2>1. h \in Heater
    BY HeatersAssumption, NumbersOfHeaters DEF HeatersAssumption
  <2>2. FlagTypes'
    BY <1>1, <1>5, <2>1 DEF ServerRequest, FlagTypes, flags, cli
  <2>3. enabled' \in [Heater -> BOOLEAN] /\ ~enabled'[PV] /\ state' \in [Heater -> BOOLEAN]
    <3>1. CASE h \in Automatic
      <4>1. enabled' = [enabled EXCEPT ![h] = ~enabled[h]] /\ state' = state /\ h # PV
        BY <1>5, <3>1, NumbersOfHeaters DEF ServerRequest
      <4>2. QED
        BY <2>1, <4>1, NumbersOfHeaters, Zenon DEF BoxTypes
    <3>2. CASE h \notin Automatic
      <4>1. state' = [state EXCEPT ![h] = ~state[h]] /\ enabled' = enabled
        BY <1>5, <3>2 DEF ServerRequest
      <4>2. QED
        BY <2>1, <4>1, Zenon DEF BoxTypes
    <3>3. QED
      BY <3>1, <3>2
  <2>4. BoxTypes'
    BY <1>1, <1>5, <2>3 DEF ServerRequest, BoxTypes, box
  <2>5. QED
    BY <1>2, <2>2, <2>4
<1>6. QED
  BY <1>3, <1>4, <1>5 DEF do_server_heaters

\* The command thread.
LEMMA CommandTypes ==
    ASSUME TypesInv, exec_command
    PROVE  TypesInv'
<1> USE DEF TypesInv
<1>0. UNCHANGED readings /\ UNCHANGED locals /\ UNCHANGED box /\ UNCHANGED server
  BY DEF exec_command, start_heaters, stop_heaters, Rest, set_heater_auto_mode,
     set_heater_temp_range, set_pv_heater_manual
<1>1. ReadTypes' /\ (UNCHANGED pc => LocalTypes' /\ PlaceTypes')
  BY <1>0, ReadKept DEF locals, LocalTypes, PlaceTypes
<1>2. CASE start_heaters
  <2>1. PICK t \in Thread : goto(t, "files") /\ main_heaters_thread' = t
    BY <1>2 DEF start_heaters
  <2>2. LocalTypes' /\ PlaceTypes'
    BY <1>0, <2>1, PlacesKept
  <2>3. BoxTypes' /\ FlagTypes'
    BY <1>0, <1>2, <2>1 DEF start_heaters, BoxTypes, FlagTypes, box, server, cli
  <2>4. LimitTypes'
    BY <1>2, LimitsKept DEF start_heaters, cli
  <2>5. QED
    BY <1>1, <2>2, <2>3, <2>4
<1>3. CASE stop_heaters
  <2>1. BoxTypes' /\ FlagTypes'
    BY <1>0, <1>3 DEF stop_heaters, BoxTypes, FlagTypes, box, server
  <2>2. LimitTypes' /\ UNCHANGED pc
    BY <1>3, LimitsKept DEF stop_heaters
  <2>3. QED
    BY <1>1, <2>1, <2>2
<1>4. ASSUME NEW h \in Automatic, NEW on \in BOOLEAN, set_heater_auto_mode(h, on) PROVE TypesInv'
  <2>1. h \in Heater /\ h # PV
    BY NumbersOfHeaters
  <2>2. enabled' \in [Heater -> BOOLEAN] /\ ~enabled'[PV]
    BY <1>4, <2>1, NumbersOfHeaters, Zenon DEF set_heater_auto_mode, BoxTypes
  <2>3. BoxTypes'
    BY <1>0, <1>4, <2>2 DEF set_heater_auto_mode, BoxTypes, box
  <2>4. FlagTypes'
    BY <1>0, <1>4, <2>1 DEF set_heater_auto_mode, FlagTypes, flags, server, cli
  <2>5. LimitTypes' /\ UNCHANGED pc
    BY <1>4, LimitsKept DEF set_heater_auto_mode, cli
  <2>6. QED
    BY <1>1, <2>3, <2>4, <2>5
<1>5. ASSUME NEW on \in BOOLEAN, set_pv_heater_manual(on) PROVE TypesInv'
  <2>1. state' \in [Heater -> BOOLEAN]
    BY <1>5, Zenon DEF set_pv_heater_manual, BoxTypes
  <2>2. BoxTypes'
    BY <1>0, <1>5, <2>1 DEF set_pv_heater_manual, BoxTypes, box
  <2>3. FlagTypes'
    BY <1>0, <1>5, NumbersOfHeaters DEF set_pv_heater_manual, FlagTypes, flags, server
  <2>4. LimitTypes' /\ UNCHANGED pc
    BY <1>5, LimitsKept DEF set_pv_heater_manual
  <2>5. QED
    BY <1>1, <2>2, <2>3, <2>4
<1>6. ASSUME NEW h \in Automatic, NEW r \in Ranges, set_heater_temp_range(h, r) PROVE TypesInv'
  <2>1. r[1] \in Int /\ h \in Heater
    BY HeatersAssumption, NumbersOfHeaters DEF HeatersAssumption
  <2>2. LimitTypes'
    BY <1>6, <2>1 DEF set_heater_temp_range, LimitTypes
  <2>3. BoxTypes'
    BY <1>0, <1>6 DEF set_heater_temp_range, BoxTypes, box
  <2>4. FlagTypes' /\ UNCHANGED pc
    BY <1>0, <1>6, <2>1 DEF set_heater_temp_range, FlagTypes, flags, server
  <2>5. QED
    BY <1>1, <2>2, <2>3, <2>4
<1>7. CASE Rest
  <2>1. UNCHANGED pc /\ UNCHANGED flags /\ UNCHANGED enabled
    BY <1>7 DEF Rest
  <2>2. LimitTypes'
    BY <1>7, RestLimits
  <2>3. /\ state' = state \/ state' = [state EXCEPT ![heater_id] = FALSE]
        /\ toggle' = toggle \/ toggle' = [toggle EXCEPT ![heater_id] = TRUE]
        /\ heater_id' \in {heater_id, PV}
    BY <1>7 DEF Rest, CliStep, Go, Done, set_toggle
  <2>4. BoxTypes'
    BY <1>0, <2>1, <2>3 DEF BoxTypes, box
  <2>5. FlagTypes'
    BY <1>0, <2>1, <2>3, NumbersOfHeaters DEF FlagTypes, flags, server
  <2>6. QED
    BY <1>1, <2>1, <2>2, <2>4, <2>5
<1>8. QED
  BY <1>2, <1>3, <1>4, <1>5, <1>6, <1>7 DEF exec_command

\* In every state of the program, however many threads start_heaters makes.
LEMMA TypesHold == Spec => []TypesInv
<1>1. TypesInv /\ [Next]_vars => TypesInv'
  <2> SUFFICES ASSUME TypesInv, [Next]_vars PROVE TypesInv'
    OBVIOUS
  <2>1. CASE UNCHANGED vars
    <3>1. /\ UNCHANGED <<enabled, state, toggle, pc, second>>
          /\ UNCHANGED box /\ UNCHANGED readings /\ UNCHANGED limits
          /\ UNCHANGED flags /\ UNCHANGED locals /\ UNCHANGED server /\ UNCHANGED cli
      BY <2>1 DEF vars
    <3>2. BoxTypes' /\ FlagTypes'
      BY <3>1 DEF TypesInv, BoxTypes, FlagTypes, box, flags, server, cli
    <3>3. LocalTypes' /\ PlaceTypes'
      BY <3>1 DEF TypesInv, LocalTypes, PlaceTypes, locals
    <3>4. QED
      BY <3>1, <3>2, <3>3, LimitsKept, ReadKept DEF TypesInv, cli
  <2>2. ASSUME NEW t \in Thread, run_heaters_thread(t) PROVE TypesInv'
    <3>1. second' = second
      BY <2>2 DEF run_heaters_thread
    <3>2. QED
      BY <2>2, <3>1, OutsideTypes, ReadingTypes, ManualTypes, ControlTypes
         DEF run_heaters_thread
  <2>3. QED
    BY <2>1, <2>2, RestartTypes, ServerTypes, CommandTypes DEF Next
<1>2. QED
  BY <1>1, InitTypes, PTL DEF Spec

LEMMA SecondType == Spec => [](second \in BOOLEAN)
<1>1. Init => second \in BOOLEAN
  BY DEF Init
<1>2. second \in BOOLEAN /\ [Next]_vars => (second \in BOOLEAN)'
  BY DEF Next, vars, Restart, run_heaters_thread, do_server_heaters, exec_command, start_heaters
<1>3. QED
  BY <1>1, <1>2, PTL DEF Spec

\* For any number of control threads: the sum is a number, only automatic heaters are
\* switched on or kept off, and the PV heater is last in every order.
THEOREM TypeCorrect == Spec => []TypeOK
<1>1. TypesInv /\ second \in BOOLEAN => TypeOK
  <2> SUFFICES ASSUME TypesInv, second \in BOOLEAN PROVE TypeOK
    OBVIOUS
  <2>1. {enabled, state, toggle, relay} \subseteq [Heater -> BOOLEAN]
    BY DEF TypesInv, BoxTypes
  <2>2. {heaters_running, shutdown_heaters, heaters_server_running, stop_heaters_server}
           \subseteq BOOLEAN
    BY DEF TypesInv, FlagTypes
  <2>3. ASSUME NEW t \in Thread
        PROVE  /\ i[t] \in 0 .. NumAuto + 1 /\ sum[t] \in Int
               /\ lit[t] \cup denied[t] \subseteq Automatic
               /\ \A h \in Automatic : position_difference[t][h] \in Automatic
               /\ position_difference[t][PV] = PV
    BY DEF TypesInv, LocalTypes, Order
  <2>4. QED
    BY <2>1, <2>2, <2>3 DEF TypesInv, BoxTypes, FlagTypes, ReadTypes, TypeOK
<1>2. QED
  BY <1>1, TypesHold, SecondType, PTL

-----------------------------------------------------------------------------
(* One control thread, until start_heaters makes a second one *)

\* The history tells when that happens, and only a restart forgets it.
LEMMA SecondStays ==
    ASSUME [Next]_vars, ~Restart, ~second'
    PROVE  ~second
BY DEF Next, vars, run_heaters_thread, do_server_heaters, exec_command, start_heaters

\* Till then there is one thread, and the invariant holds of it in every state.
THEOREM Invariance == Spec => []IInv
<1>1. ASSUME TypesInv, IInv, [Next]_vars PROVE IInv'
  <2>1. CASE Restart
    BY <1>1, <2>1, RestartInv DEF TypesInv, BoxTypes
  <2>2. CASE ~Restart /\ ~second'
    <3>1. PICK t \in Thread : Alone(t)
      BY <1>1, <2>2, SecondStays DEF IInv
    <3>2. CASE UNCHANGED vars
      BY <3>1, <3>2 DEF vars, box, readings, limits, flags, locals, server, cli, IInv, Alone,
         OthersEnded, Functions, CommandInv, OffInv, PvInv, LightInv, AllSwitchedOff, Pending
    <3>3. ASSUME NEW s \in Thread, run_heaters_thread(s) PROVE IInv'
      <4>1. s = t
        BY <3>1, <3>3, ThreadIsAlone DEF Alone, Functions
      <4>2. QED
        BY <3>1, <3>3, <4>1, ThreadInv DEF IInv
    <3>4. CASE do_server_heaters
      BY <3>1, <3>4, ServerInv DEF IInv
    <3>5. CASE start_heaters
      BY <2>2, <3>1, <3>5, StartInv DEF IInv
    <3>6. CASE exec_command /\ ~start_heaters
      BY <3>1, <3>6, CommandStepInv DEF IInv
    <3>7. QED
      BY <1>1, <2>2, <3>2, <3>3, <3>4, <3>5, <3>6 DEF Next
  <2>3. QED
    BY <2>1, <2>2 DEF IInv
<1>2. QED
  BY <1>1, InitInv, TypesHold, PTL DEF Spec

\* stop_heaters finds every heater off when it goes on to cut the power of the
\* box, for any number of heaters, but for relays the LabJack refused, until
\* start_heaters has made a second control thread.
THEOREM StoppedIsOff == Spec => []OffWhenStopped
<1>1. IInv => OffWhenStopped
  BY DEF IInv, Alone, Functions, CommandInv, OffInv, OffWhenStopped
<1>2. QED
  BY <1>1, Invariance, PTL

\* A PV command is never lost, whatever the command thread, the UDP server and
\* the control thread do at the same time, until there is a second control thread.
THEOREM PvIsFollowed == Spec => []PvFollows
<1>1. IInv => PvFollows
  <2> SUFFICES ASSUME IInv, ~second, NEW s \in Thread, pc[s] \in Loop,
                      ~(state[PV] <=> relay[PV]), PV \notin refused
               PROVE  Pending \/ (pc[s] = "toggled" /\ i[s] = PV)
    BY DEF PvFollows
  <2>1. PICK t \in Thread : Alone(t)
    BY DEF IInv
  <2>2. s = t
    BY <2>1 DEF Alone, OthersEnded, Loop
  <2>3. QED
    BY <2>1, <2>2 DEF Alone, PvInv
<1>2. QED
  BY <1>1, Invariance, PTL

\* In every round of the control loop, until there is a second control thread, the
\* order of need is the order in which the heaters are served.
THEOREM RoundsAreOrdered == Spec => []RoundsInv
<1>1. Init => RoundsInv
  BY InitCold DEF RoundsInv
<1>2. ASSUME TypesInv, IInv, RoundsInv, [Next]_vars PROVE RoundsInv'
  <2> SUFFICES ASSUME ~second', NEW t \in Thread PROVE ColdInv(t)'
    BY DEF RoundsInv
  <2>1. CASE Restart
    BY <1>2, <2>1, RestartCold DEF TypesInv
  <2>2. CASE ~Restart
    <3>1. ColdInv(t) /\ \A s \in Thread : ColdInv(s)
      BY <1>2, <2>2, SecondStays DEF RoundsInv
    <3>2. CASE UNCHANGED vars
      <4>1. /\ UNCHANGED <<temp_diff, i, sum, position_difference, lit, denied>>
            /\ UNCHANGED pc /\ UNCHANGED limits /\ UNCHANGED range
        BY <3>2 DEF vars, readings, locals, cli
      <4>2. QED
        BY <3>1, <4>1, LimitsKept, RoundKept DEF ColdInv
    <3>3. ASSUME NEW s \in Thread, run_heaters_thread(s) PROVE ColdInv(t)'
      <4>1. ColdInv(s)'
        BY <3>1, <3>3, ThreadCold
      <4>2. CASE t # s
        <5>1. PICK r \in Thread : Alone(r)
          BY <1>2, <2>2, SecondStays DEF IInv
        <5>2. s = r
          BY <3>3, <5>1, ThreadIsAlone DEF Alone, Functions
        <5>3. pc[t] = "none"
          BY <4>2, <5>1, <5>2 DEF Alone, OthersEnded
        <5>4. QED
          BY <3>1, <3>3, <4>1, <4>2, <5>3, EndedKept DEF ColdInv
      <4>3. QED
        BY <4>1, <4>2
    <3>4. CASE do_server_heaters
      BY <3>1, <3>4, ServerCold
    <3>5. CASE exec_command
      BY <3>1, <3>5, StartCold, CommandCold
    <3>6. QED
      BY <1>2, <2>2, <3>2, <3>3, <3>4, <3>5 DEF Next
  <2>3. QED
    BY <2>1, <2>2
<1>3. QED
  BY <1>1, <1>2, Invariance, TypesHold, PTL DEF Spec

\* The coldest heater comes first, for every number of heaters, every reading of
\* temperatures and currents, every limit and every cap, as long as start_heaters
\* made no second control thread.
THEOREM ColdestIsFirst == Spec => []ColdestFirst
<1>1. RoundsInv => ColdestFirst
  BY DEF RoundsInv, ColdInv, RoundInv, ColdestFirst
<1>2. QED
  BY <1>1, RoundsAreOrdered, PTL
=============================================================================

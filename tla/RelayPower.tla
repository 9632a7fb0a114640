----------------------------- MODULE RelayPower -----------------------------
(***************************************************************************)
(* What the power boxes promise to the rest of Ophiuchus: a set of relays   *)
(* that are switched by request, one flip for one request, and a shutdown   *)
(* that comes to its end only when every relay is off.                      *)
(*                                                                         *)
(* Two modules use it: Pbob, the code of pbob.c, implements it, and         *)
(* OphPower, the main thread, is composed with it.                          *)
(***************************************************************************)
CONSTANT Relay

VARIABLES on,       \* whether the relay is on, as far as the LabJack confirmed it
          request,  \* whether a flip of the relay is still to be made
          asked,    \* whether the shutdown was asked for
          ended     \* whether nothing is switched any more

vars == <<on, request, asked, ended>>

TypeOK == /\ on \in [Relay -> BOOLEAN]
          /\ request \in [Relay -> BOOLEAN]
          /\ asked \in BOOLEAN /\ ended \in BOOLEAN

Init == /\ on = [r \in Relay |-> FALSE]
        /\ request = [r \in Relay |-> FALSE]
        /\ asked = FALSE /\ ended = FALSE

\* A second request for the same relay before the first was met adds nothing.
Request(R) == /\ request' = [r \in Relay |-> r \in R \/ request[r]]
              /\ UNCHANGED <<on, asked, ended>>

\* The flip answers the request.
Apply(r) == /\ request[r] /\ ~ended
            /\ on' = [on EXCEPT ![r] = ~@]
            /\ request' = [request EXCEPT ![r] = FALSE]
            /\ UNCHANGED <<asked, ended>>

\* A request may be dropped: the LabJack refused the write, or the relay
\* table was reset.
Drop(R) == /\ \E r \in R : request[r]
           /\ ~ended
           /\ request' = [r \in Relay |-> r \notin R /\ request[r]]
           /\ UNCHANGED <<on, asked, ended>>

AskShutdown == ~asked /\ asked' = TRUE /\ UNCHANGED <<on, request, ended>>

Finish == /\ asked /\ ~ended
          /\ \A r \in Relay : ~on[r]
          /\ ended' = TRUE
          /\ UNCHANGED <<on, request, asked>>

Next == \/ \E r \in Relay : Request({r}) \/ Apply(r)
        \/ \E R \in SUBSET Relay : Drop(R)
        \/ AskShutdown \/ Finish

Spec == Init /\ [][Next]_vars
=============================================================================

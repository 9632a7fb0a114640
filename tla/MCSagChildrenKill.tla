-------------------------- MODULE MCSagChildrenKill --------------------------
(* The child processes of Saggitarius alone, for the kill of the stop. *)
EXTENDS SagChildren

MCSessions == {[services |-> {"spec"}, starts |-> 1], [services |-> {"pr59"}, starts |-> 1],
               [services |-> {}, starts |-> 2]}
=============================================================================

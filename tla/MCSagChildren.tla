---------------------------- MODULE MCSagChildren ----------------------------
(* The child processes and the services of Saggitarius: instances for TLC. *)
EXTENDS SagServices

MCSessions == {[services |-> {"spec"}, starts |-> 1], [services |-> {"pr59"}, starts |-> 1],
               [services |-> {}, starts |-> 2]}

cooler(n, s, f, r, l) ==
    [sets |-> n, starts |-> s, fans |-> f, reads |-> r, losses |-> l]
MCPr59Sessions == {cooler(2, 1, 0, FALSE, 0), cooler(1, 2, 0, FALSE, 1),
                   cooler(1, 1, 0, TRUE, 0), cooler(0, 1, 1, TRUE, 0), cooler(0, 1, 2, FALSE, 1)}

sensor(s, r, p, e) == [starts |-> s, runs |-> r, packets |-> p, errors |-> e]
MCSensorSessions == {sensor(1, 1, 4, 1), sensor(2, 1, 1, 1),
                     sensor(1, 2, 1, 0)}
=============================================================================

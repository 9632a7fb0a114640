------------------------------- MODULE MCPbob -------------------------------
(* Small instances of the power boxes and of the servers of Saggitarius. *)
EXTENDS RequestServers, TLC

\* Two boxes with a relay each, and a disabled third one.
MCNumRelays == (0 :> 1) @@ (1 :> 1) @@ (2 :> 1)

gps(l, f, s, d, k) == [starts |-> l, files |-> f, server |-> s, device |-> d, sends |-> k]
MCGpsSessions == {gps(2, 2, TRUE, FALSE, {}), gps(2, 2, FALSE, TRUE, {}),
                  gps(1, 3, FALSE, TRUE, {}), gps(1, 1, TRUE, FALSE, {"position"}),
                  gps(1, 1, FALSE, TRUE, Kinds)}

spectrum(s, c, k) == [spectra |-> s, commands |-> c, clients |-> k]
MCSpecSessions == {spectrum(2, 3, {}), spectrum(0, 0, {"c1", "c2"}), spectrum(1, 1, {"c1"})}

telemetry(a, n) == [asks |-> a, statuses |-> n]
MCTelSessions == {telemetry({"aquila"}, 1), telemetry({}, 2), telemetry({"system"}, 0),
                  telemetry({"position"}, 0), telemetry({"heater"}, 0),
                  telemetry({"unknown"}, 0)}

remote(n, a, s) == [commands |-> n, asks |-> a, streams |-> s]
MCRemoteSessions == {remote(3, {"start_vlbi", "stop_vlbi"}, FALSE),
                     remote(1, {"start_vlbi"}, TRUE),
                     remote(2, Commands, FALSE)}
=============================================================================

------------------------------ MODULE MCStarcam ------------------------------
(* Small instances of the star camera and of its image server for TLC. *)
EXTENDS StarCameras

camera(s, n, m, f) == [starts |-> s, searches |-> n, moves |-> m, faults |-> f]
MCCameraSessions == {camera(1, 2, 0, 1), camera(2, 1, 1, 0), camera(1, 1, 1, 1),
                     camera(1, 0, 3, 1), camera(2, 1, 0, 2)}
\* One of the lens, and one beyond each end.
MCPositions == {-1, 3, 5}
=============================================================================

---------------------------- MODULE MCFlightPower ----------------------------
(* Small instances of the power of both computers for TLC. *)
EXTENDS FlightPower

MCRemote == Sag!SagDevice

\* What is enabled on Ophiuchus in one behaviour.  Every pair of its devices is
\* together in one of these, but for the lock pin with the receiver and the camera
\* with the receiver, which share nothing.
OphAlone == {{"lna", "mixer", "housekeeping"}, {"lna", "mixer", "motor"},
             {"bvexcam", "motor"}, {"bvexcam", "lockpin"},
             {"motor", "housekeeping"}, {"lockpin", "housekeeping"},
             {"bvexcam", "housekeeping"}, {"motor", "lockpin"}}

\* What is commanded on Saggitarius: its devices meet through exit only.
SagAlone == {{"rfsoc", "heaters"}, {"gps"}, {"ticc"}, {"position_sensors"}}

MCConfigured == OphAlone \cup {{}, {"lockpin"}}
MCSessions   == SagAlone \cup {{}, {"backend"}}

\* Each computer by itself, and both with a device each.
MCTogether == (OphAlone \X {{}}) \cup ({{}} \X SagAlone)
              \cup {<<{"lockpin"}, {"backend"}>>}
=============================================================================

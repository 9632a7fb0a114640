--------------------------- MODULE MCScanControl ---------------------------
(* Small instances of the scans for TLC. *)
EXTENDS ScanControl

MCUpDown   == {<<0, 2>>, <<2, 0>>}  \* a dither upwards and one downwards
MCBelow    == -1
MCFarBelow == -2

Session(commands, targets, scans) ==
    [commands |-> commands, targets |-> targets, scans |-> scans]

\* Dithers and what interrupts them; the on-off cycle and what interrupts it; the
\* two one after the other.
MCSessions ==
    {Session({"encdither", "gotoenc", "enctrack", "stop_scan"}, {2}, 3),
     Session({"enconoff", "gotoenc", "park", "stop_scan", "sky"}, {1, 2}, 0),
     Session({"trackdither", "park", "stop_scan", "sky"}, {1, 2}, 2),
     Session({"enconoff", "trackdither", "stop_scan"}, {2}, 1)}
MCResume == {Session({"encdither", "gotoenc"}, {}, 3)}
=============================================================================

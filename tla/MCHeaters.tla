------------------------------ MODULE MCHeaters ------------------------------
(* Two automatic heaters and the PV heater, with a limit that lets one heater  *)
(* be switched on in a round: what three of four are to the flight limit.      *)
EXTENDS Heaters

CONSTANTS t1

MCDegrees == {10, 15, 25}
MCRange == {<<20, 22>>}
MCDefaultRange == <<20, 22>>
=============================================================================

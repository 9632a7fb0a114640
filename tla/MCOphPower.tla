----------------------------- MODULE MCOphPower -----------------------------
(* Ophiuchus by itself, with two devices. *)
EXTENDS OphPower

MCMotorAndHousekeeping == {{"motor", "housekeeping"}}
=============================================================================

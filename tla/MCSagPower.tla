----------------------------- MODULE MCSagPower -----------------------------
(* Saggitarius by itself, with the heater box alone. *)
EXTENDS SagPower

MCHeaterBox == {{"heaters"}}
=============================================================================

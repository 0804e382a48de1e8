----------------------------- MODULE MCDrivers -----------------------------
(* Three drivers, in the order u3_auto_init() links them. *)
EXTENDS Drivers

MCCars == <<"fore", "behn", "hind">>

=============================================================================

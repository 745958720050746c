------------------------------- MODULE MCLamp --------------------------------
(* Five lamps of each colour, and hosts that between them use every kind   *)
(* of mode, with a command that is no mode (32).                           *)
EXTENDS Lamp

MCCodeSets == {{0, 3, 7}, {1, 8, 12}, {2, 26, 32}, {4, 16}}
=============================================================================

------------------------------ MODULE MCIdentity ------------------------------
(* Two devices on a bus: i1 and i2 are the identifiers compiled into their *)
(* applications, i3 is free.  The devices may be swapped with them.        *)
EXTENDS Identity, TLC

CONSTANTS d1, d2, i1, i2, i3

MCDevices == {d1, d2}
MCIDs     == {i1, i2, i3}
MCBoard   == d1 :> i1 @@ d2 :> i2

Swap == {f \in Permutations({d1, d2, i1, i2}) :
           /\ \A d \in MCDevices : f[d] \in MCDevices
           /\ \A d \in MCDevices : f[MCBoard[d]] = MCBoard[f[d]]}
=============================================================================

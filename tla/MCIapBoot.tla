------------------------------ MODULE MCIapBoot ------------------------------
(* Instances of IapBoot for TLC: two plain images of one and two pages, a  *)
(* compressed one that unpacks from one page to two, and one too long for  *)
(* the download area.                                                      *)
EXTENDS IapBoot

CONSTANTS a, b, c, big

MCCopyLen == [i \in Images |-> CASE i = a -> 2 [] i = b -> 2
                                         [] i = c -> 1 [] i = big -> 3]
MCRunLen  == [i \in Images |-> CASE i = a -> 2 [] i = b -> 2
                                         [] i = c -> 2 [] i = big -> 3]
=============================================================================

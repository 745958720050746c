---------------------------- MODULE AtomicInstall ----------------------------
(***************************************************************************)
(* What the boot loader promises, seen from outside: one image is          *)
(* installed, it is replaced in one atomic step, a device that has an      *)
(* image never loses it, and what a boot starts is the installed image.    *)
(***************************************************************************)
CONSTANTS Images, None

VARIABLES
  installed,   \* the image the next boot will run
  running      \* the image that runs, None while the boot loader has control

vars == <<installed, running>>

Init == /\ installed \in Images \union {None}
        /\ running = None

(* A new image takes the place of the old one, whether or not the device   *)
(* is reset in the same step.                                              *)
Replace(i) == /\ installed' = i
              /\ running' \in {running, None}

Boot == /\ running = None
        /\ installed \in Images
        /\ running' = installed
        /\ UNCHANGED installed

Halt == /\ running' = None
        /\ UNCHANGED installed

Next == (\E i \in Images : Replace(i)) \/ Boot \/ Halt

Spec == Init /\ [][Next]_vars
=============================================================================

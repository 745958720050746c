------------------------------- MODULE IapBoot -------------------------------
(***************************************************************************)
(* The boot loader of the lamp gateway: what main() of the IAP project     *)
(* does between a reset and the jump to the application, the mode flag and *)
(* flash helpers it uses (iap_if.c, flash_if.c), and the download commands *)
(* (OTA start, update, end) that the IAP loop and the application serve.   *)
(*                                                                         *)
(* The flash is four areas: the mode flag page, the header page ("app      *)
(* info"), the download area ("app copy") and the run area ("app run"),    *)
(* the last two as functions from page numbers to contents.  Everything    *)
(* else is RAM and is lost by a reset.  One thread runs, so a download     *)
(* command is one action; the steps of the update itself, which a power    *)
(* loss may separate, are actions of their own.  A power loss may strike   *)
(* between two flash operations or within one.                             *)
(*                                                                         *)
(* Abstractions: an image is a model value, a page of it a record; a CRC   *)
(* over an area matches exactly when every page holds that image (no       *)
(* collisions); a data frame carries one page; a flash fault is an erase   *)
(* or program operation that reports an error.                             *)
(***************************************************************************)
EXTENDS Naturals, FiniteSets

CONSTANTS
  Images,      \* the firmware images a host may send
  Compressed,  \* those sent as a sequence of compressed packs
  CopyLen,     \* pages an image takes in the download area
  RunLen,      \* pages it takes in the run area
  MaxPages,    \* OTA_BIN_MAX_SIZE, in pages
  MaxFaults,   \* bound on the flash faults of a behaviour
  None         \* no image

ASSUME ImageAssumption ==
  /\ None \notin Images
  /\ Compressed \subseteq Images
  /\ MaxPages \in Nat \ {0}
  /\ CopyLen \in [Images -> Nat \ {0}]
  /\ RunLen  \in [Images -> Nat \ {0}]
  /\ \A i \in Images \ Compressed : RunLen[i] = CopyLen[i]
  /\ \A i \in Compressed : RunLen[i] <= MaxPages

ASSUME FaultAssumption == MaxFaults \in Nat

Pages == 1 .. MaxPages

(* What a page holds: page no of image img, nothing, or a partial write or *)
(* erase.                                                                  *)
Content    == [img : Images \union {None}, no : 0 .. MaxPages]
PageOf(i, k) == [img |-> i, no |-> k]
Blank      == PageOf(None, 0)
Garbage    == PageOf(None, 1)

(* The header page: the image it describes, which program wrote it (the    *)
(* two use different layouts), and how many of its double words are there. *)
Header     == [img : Images \union {None}, by : {"iap", "app"}, words : 0 .. 3]
HeaderOf(i, w, n) == [img |-> i, by |-> w, words |-> n]
HdrBlank   == HeaderOf(None, "iap", 0)
HdrGarbage == HeaderOf(None, "iap", 1)

VARIABLES
  flag,    \* the mode flag: "run" is the erased page, "torn" any other value
  hdr,     \* the header page
  copy,    \* the download area
  run,     \* the run area
  pc,      \* where the program is
  count,   \* Count: attempts of this update
  src,     \* the area pSrcData points into
  k,       \* next page the update writes
  sub,     \* OTA_SubSize, in pages: zero after a reset
  faults   \* flash faults so far

flash == <<flag, hdr, copy, run>>
ram   == <<count, src, k, sub>>
vars  == <<flash, ram, pc, faults>>

Flags == {"run", "update", "force", "torn"}
Steps == {"reset", "runapp", "verify", "fallback", "erase", "write", "check",
          "finish", "force1", "force2", "end1", "end2", "iap", "app"}

TypeOK ==
  /\ flag \in Flags
  /\ hdr \in Header
  /\ copy \in [Pages -> Content]
  /\ run \in [Pages -> Content]
  /\ pc \in Steps
  /\ count \in 0 .. 4
  /\ src \in {"copy", "run"}
  /\ k \in 1 .. (MaxPages + 1)
  /\ sub \in {0, 1}
  /\ faults \in 0 .. MaxFaults

-----------------------------------------------------------------------------
(* Flash operations. f = 1 marks an operation that reports a fault.        *)

Faulty(f) == /\ faults + f <= MaxFaults
             /\ faults' = faults + f

EraseUpTo(area, n) == [p \in Pages |-> IF p <= n THEN Blank ELSE area[p]]

(* An erase of pages 1..n that stops within page j + 1.                    *)
CutErase(area, n) ==
  UNION { { EraseUpTo(area, j), [EraseUpTo(area, j) EXCEPT ![j + 1] = Garbage] } :
          j \in 0 .. (n - 1) }

(* The application's erase goes on after a page that failed.               *)
SkipErase(area, n) ==
  UNION { { [EraseUpTo(area, n) EXCEPT ![j] = c] : c \in {area[j], Garbage} } :
          j \in 1 .. n }

(* Flash_Erase_Page refuses a size above OTA_BIN_MAX_SIZE; its callers     *)
(* ignore the result.                                                      *)
Flash_Erase_Page(area, n, f) ==
  IF n > MaxPages THEN {area}
  ELSE IF f = 0 THEN {EraseUpTo(area, n)}
  ELSE IF pc = "app" THEN SkipErase(area, n)
  ELSE CutErase(area, n)

(* Flash_Write: the hardware programs erased cells only.                   *)
Flash_Write(area, p, c, f) ==
  IF area[p] # Blank THEN {area}
  ELSE IF f = 0 THEN {[area EXCEPT ![p] = c]}
  ELSE {area, [area EXCEPT ![p] = Garbage]}

(* RunAppMode erases the flag page; a fault is only printed.               *)
RunAppMode(f) == flag' \in IF f = 0 THEN {"run"} ELSE {flag, "torn"}

ProgramFlag(v, f) ==
  flag' \in IF flag # "run" THEN {flag}
            ELSE IF f = 0 THEN {v}
            ELSE {"run", "torn"}

-----------------------------------------------------------------------------
(* What the boot loader can tell of the areas.                             *)

CopyHolds(i) == /\ CopyLen[i] <= MaxPages
                /\ \A p \in 1 .. CopyLen[i] : copy[p] = PageOf(i, p)

RunHolds(i)  == /\ RunLen[i] <= MaxPages
                /\ \A p \in 1 .. RunLen[i] : run[p] = PageOf(i, p)

(* The size test and the CRC over the download area. The loader's header   *)
(* layout has no version field: it misreads a header of the application.   *)
CopyOK == /\ hdr.img \in Images
          /\ hdr.by = "iap"
          /\ hdr.words >= 2
          /\ CopyHolds(hdr.img)

(* The CRC (for a compressed image also the size) over the run area. The   *)
(* unpacked CRC is in the third double word of the header; a pass that     *)
(* unpacked from the run area counted no bytes.                            *)
RunOK == /\ RunHolds(hdr.img)
         /\ hdr.img \in Compressed => hdr.words = 3 /\ src = "copy"

(* The stack word test reads the first word of the run area: that of a     *)
(* partial page may pass or not.                                           *)
StackMayPass == run[1] # Blank
StackMayFail == run[1] \in {Blank, Garbage}

-----------------------------------------------------------------------------
Goto(from, to) == pc = from /\ pc' = to

(* RAM as the start-up code leaves it.                                     *)
ClearRam == /\ count' = 0
            /\ src' = "copy"
            /\ k' = 1
            /\ sub' = 0

Init ==
  /\ flag = "run"
  /\ hdr = HdrBlank
  /\ copy = [p \in Pages |-> Blank]
  /\ \E r \in Images \union {None} :
        /\ r \in Images => RunLen[r] <= MaxPages
        /\ run = [p \in Pages |->
                    IF r \in Images /\ p <= RunLen[r] THEN PageOf(r, p) ELSE Blank]
  /\ pc = "reset"
  /\ count = 0
  /\ src = "copy"
  /\ k = 1
  /\ sub = 0
  /\ faults = 0

ReadIAPMode ==
  /\ Goto("reset", IF flag = "run" THEN "runapp"
                   ELSE IF flag = "update" THEN "verify" ELSE "iap")
  /\ UNCHANGED <<flash, ram, faults>>

JumpToApp ==
  /\ \/ StackMayPass /\ Goto("runapp", "app")
     \/ StackMayFail /\ Goto("runapp", "force1")
  /\ UNCHANGED <<flash, ram, faults>>

Verify_FlagFirst ==
  /\ Goto("verify", IF CopyOK THEN "erase" ELSE "fallback")
  /\ flag' = "run"
  /\ UNCHANGED <<hdr, copy, run, ram, faults>>

Verify ==
  /\ Goto("verify", IF CopyOK THEN "erase" ELSE "fallback")
  /\ UNCHANGED <<flash, ram, faults>>

Fallback ==
  /\ Goto("fallback", "runapp")
  /\ \E f \in {0, 1} : Faulty(f) /\ RunAppMode(f)
  /\ UNCHANGED <<hdr, copy, run, ram>>

EraseRun_Cyclic ==
  /\ Goto("erase", "write")
  /\ count' = (count + 1) % 3
  /\ k' = 1
  /\ \E f \in {0, 1} :
        /\ Faulty(f)
        /\ run' \in Flash_Erase_Page(run, RunLen[hdr.img], f)
  /\ UNCHANGED <<flag, hdr, copy, src, sub>>

EraseRun_NoErase ==
  /\ Goto("erase", "write")
  /\ count < 3
  /\ count' = count + 1
  /\ k' = 1
  /\ UNCHANGED <<flash, src, sub, faults>>

(* The head of the retry loop: count the attempt, erase the run area.      *)
EraseRun ==
  /\ Goto("erase", "write")
  /\ count < 3
  /\ count' = count + 1
  /\ k' = 1
  /\ \E f \in {0, 1} :
        /\ Faulty(f)
        /\ run' \in Flash_Erase_Page(run, RunLen[hdr.img], f)
  /\ UNCHANGED <<flag, hdr, copy, src, sub>>

GiveUp ==
  /\ Goto("erase", "force1")
  /\ count >= 3
  /\ count' = count + 1
  /\ UNCHANGED <<flash, src, k, sub, faults>>

(* What the copy (or unpack) loop produces for page p of the run area.     *)
Produced(p) == IF hdr.img \in Compressed THEN PageOf(hdr.img, p) ELSE copy[p]

WritePage_RetryPage ==
  /\ pc = "write"
  /\ \E f \in {0, 1} :
        /\ Faulty(f)
        /\ run' \in Flash_Write(run, k, Produced(k), f)
  /\ k' = IF run'[k] = Produced(k) THEN k + 1 ELSE k
  /\ pc' = IF k' <= RunLen[hdr.img] THEN "write" ELSE "check"
  /\ UNCHANGED <<flag, hdr, copy, count, src, sub>>

(* One pass of that loop. Unpacking the erased run area yields no data, so *)
(* nothing is written.                                                     *)
WritePage ==
  /\ Goto("write", IF k < RunLen[hdr.img] THEN "write" ELSE "check")
  /\ k' = k + 1
  /\ \E f \in {0, 1} :
        /\ Faulty(f)
        /\ run' \in IF src = "copy" THEN Flash_Write(run, k, Produced(k), f) ELSE {run}
  /\ UNCHANGED <<flag, hdr, copy, count, src, sub>>

CheckRun_NoCRC ==
  /\ Goto("check", "finish")
  /\ src' = IF hdr.img \in Compressed THEN "run" ELSE src
  /\ UNCHANGED <<flash, count, k, sub, faults>>

CheckRun_LosesSource ==
  /\ Goto("check", IF RunOK THEN "finish" ELSE "erase")
  /\ src' = "run"
  /\ UNCHANGED <<flash, count, k, sub, faults>>

(* The CRC over what was written; for a compressed image the source        *)
(* pointer is left at the run area.                                        *)
CheckRun ==
  /\ Goto("check", IF RunOK THEN "finish" ELSE "erase")
  /\ src' = IF hdr.img \in Compressed THEN "run" ELSE src
  /\ UNCHANGED <<flash, count, k, sub, faults>>

(* RunAppMode and system_reset.                                            *)
Finish ==
  /\ Goto("finish", "reset")
  /\ \E f \in {0, 1} : Faulty(f) /\ RunAppMode(f)
  /\ ClearRam
  /\ UNCHANGED <<hdr, copy, run>>

(* ForceUpdateAppMode: its test is always true, so it erases, then         *)
(* programs; the IAP loop follows.                                         *)
ForceErase ==
  /\ Goto("force1", "force2")
  /\ \E f \in {0, 1} : Faulty(f) /\ RunAppMode(f)
  /\ UNCHANGED <<hdr, copy, run, ram>>

ForceProgram ==
  /\ Goto("force2", "iap")
  /\ \E f \in {0, 1} : Faulty(f) /\ ProgramFlag("force", f)
  /\ UNCHANGED <<hdr, copy, run, ram>>

-----------------------------------------------------------------------------
(* The download commands, in the IAP loop or in the application.           *)

(* Flash_Storage_Header. The loader's erases the header page first; the    *)
(* application's does not, and programming a page in use fails.            *)
StoreHeader(i, f) ==
  IF pc = "iap"
  THEN IF f = 0 THEN {HeaderOf(i, "iap", 3)}
       ELSE {hdr, HdrGarbage, HdrBlank} \union {HeaderOf(i, "iap", n) : n \in {1, 2}}
  ELSE IF hdr # HdrBlank THEN {hdr}
       ELSE IF f = 0 THEN {HeaderOf(i, "app", 3)}
       ELSE {hdr, HeaderOf(i, "app", 1)}

OtaStart(i) ==
  /\ pc \in {"iap", "app"}
  /\ \E f \in {0, 1}, g \in {0, 1} :
        /\ Faulty(f + g)
        /\ hdr' \in StoreHeader(i, f)
        /\ copy' \in Flash_Erase_Page(copy, CopyLen[i], g)
  /\ sub' = 1
  /\ UNCHANGED <<flag, run, pc, count, src, k>>

(* A data frame is written at frame number * OTA_SubSize.                  *)
Slot(p) == IF sub = 1 THEN p ELSE 1

OtaUpdate(i, p) ==
  /\ pc \in {"iap", "app"}
  /\ p <= CopyLen[i]
  /\ \E f \in {0, 1} :
        /\ Faulty(f)
        /\ copy' \in Flash_Write(copy, Slot(p), PageOf(i, p), f)
  /\ UNCHANGED <<flag, hdr, run, pc, ram>>

OtaEnd ==
  /\ pc \in {"iap", "app"}
  /\ pc' = "end1"
  /\ UNCHANGED <<flash, ram, faults>>

(* UpdateAppMode, then the reset.                                          *)
UpdateErase ==
  /\ Goto("end1", "end2")
  /\ IF flag = "run" THEN UNCHANGED <<flag, faults>>
     ELSE \E f \in {0, 1} : Faulty(f) /\ RunAppMode(f)
  /\ UNCHANGED <<hdr, copy, run, ram>>

UpdateProgram ==
  /\ Goto("end2", "reset")
  /\ \E f \in {0, 1} : Faulty(f) /\ ProgramFlag("update", f)
  /\ ClearRam
  /\ UNCHANGED <<hdr, copy, run>>

(* The restart command.                                                    *)
Restart ==
  /\ pc \in {"iap", "app"}
  /\ pc' = "reset"
  /\ ClearRam
  /\ UNCHANGED <<flash, faults>>

-----------------------------------------------------------------------------
(* Loss of power, or a watchdog reset: between two flash operations, or    *)
(* within the one the program counter points at.                           *)

Lost == /\ pc' = "reset"
        /\ ClearRam
        /\ UNCHANGED faults

LostBetween ==
  /\ pc # "reset"
  /\ Lost
  /\ UNCHANGED flash

LostInFlag ==
  /\ \/ /\ pc \in {"fallback", "finish", "force1", "end1"}
        /\ pc = "end1" => flag # "run"
        /\ flag' \in {"torn", "run"}
     \/ /\ pc = "force2" /\ flag = "run"
        /\ flag' \in {"torn", "force"}
     \/ /\ pc = "end2" /\ flag = "run"
        /\ flag' \in {"torn", "update"}
  /\ Lost
  /\ UNCHANGED <<hdr, copy, run>>

LostInRun ==
  /\ \/ /\ pc = "erase" /\ count < 3
        /\ run' \in CutErase(run, RunLen[hdr.img])
     \/ /\ pc = "write" /\ src = "copy" /\ run[k] = Blank
        /\ run' = [run EXCEPT ![k] = Garbage]
  /\ Lost
  /\ UNCHANGED <<flag, hdr, copy>>

(* Within OTA start: while the header is stored, or while the download     *)
(* area is erased after it.                                                *)
LostInStart(i) ==
  /\ pc \in {"iap", "app"}
  /\ \/ /\ hdr' \in StoreHeader(i, 1)
        /\ UNCHANGED copy
     \/ /\ hdr' \in StoreHeader(i, 0)
        /\ copy' \in IF CopyLen[i] > MaxPages THEN {copy} ELSE CutErase(copy, CopyLen[i])
  /\ Lost
  /\ UNCHANGED <<flag, run>>

LostInUpdate(p) ==
  /\ pc \in {"iap", "app"}
  /\ copy[Slot(p)] = Blank
  /\ copy' = [copy EXCEPT ![Slot(p)] = Garbage]
  /\ Lost
  /\ UNCHANGED <<flag, hdr, run>>

PowerLoss == \/ LostBetween
             \/ LostInFlag
             \/ LostInRun
             \/ \E i \in Images : LostInStart(i)
             \/ \E p \in Pages : LostInUpdate(p)

-----------------------------------------------------------------------------
BootStep == \/ ReadIAPMode \/ JumpToApp \/ Verify \/ Fallback
            \/ EraseRun \/ GiveUp \/ WritePage \/ CheckRun \/ Finish
            \/ ForceErase \/ ForceProgram \/ UpdateErase \/ UpdateProgram

Command == \/ \E i \in Images : OtaStart(i)
           \/ \E i \in Images, p \in Pages : OtaUpdate(i, p)
           \/ OtaEnd
           \/ Restart

Next == BootStep \/ Command \/ PowerLoss

Spec == Init /\ [][Next]_vars

(* The program runs on while it has power; commands and power losses are   *)
(* the environment's.                                                      *)
FairSpec == Spec /\ WF_vars(BootStep)

-----------------------------------------------------------------------------
(* Properties.                                                             *)

RunIntact == \E i \in Images : RunHolds(i)

(* A complete application, or nothing the stack word test would accept.    *)
Safe == RunIntact \/ run[1] = Blank

(* The loader never jumps into an image that is not complete (main.c       *)
(* 99-112): whatever happened before, a running application is whole.      *)
JumpSafe == pc = "app" => RunIntact

(* A partly written run area is always under the protection of the update  *)
(* flag and of a verified download that the next boot copies again         *)
(* (main.c 121-258).                                                       *)
PartialGuarded == ~Safe => flag = "update" /\ CopyOK

(* The update flag over a verified download is the commit point, once the  *)
(* commands that may change either have left control to the boot.          *)
Committed == flag = "update" /\ CopyOK /\ pc \notin {"iap", "app", "end1", "end2"}

(* A committed update stays committed until the run area holds its image   *)
(* (RunAppMode after the final CRC, main.c 200-206 and 249-254).           *)
CommittedUntilInstalled == [][Committed /\ ~Committed' => RunHolds(hdr.img)]_vars

(* Giving up takes three failed attempts, and an attempt fails only        *)
(* because the flash did (main.c 170-176 and 219-225).                     *)
GiveUpAfterFaults == pc = "force1" /\ count > 3 => faults >= 3

(* The inductive invariant, in three layers.  TInv holds whatever the      *)
(* flash does: an update that runs has its flag and its verified download. *)
Working == {"erase", "write", "check", "finish"}

TInv == /\ TypeOK
        /\ pc = "verify" => flag = "update"
        /\ pc \in {"reset", "verify", "fallback", "runapp"} => count = 0 /\ src = "copy"
        /\ pc \in Working => flag = "update" /\ CopyOK /\ count <= 3
        /\ pc = "write" => k <= RunLen[hdr.img]

(* AttemptInv is about the update loop alone: the attempt under way is     *)
(* good so far, is a pass that writes nothing, or has cost a fault like    *)
(* all attempts before it (main.c 166-258). It needs images that are not   *)
(* compressed, or a flash that works.                                      *)
CleanRetry == Compressed = {} \/ MaxFaults = 0

Attempts == IF pc = "erase" THEN count ELSE count - 1

GoodSoFar == /\ src = "copy"
             /\ \A p \in 1 .. RunLen[hdr.img] :
                  run[p] = IF p < k THEN PageOf(hdr.img, p) ELSE Blank

EmptyPass == src = "run" /\ run[1] = Blank

AttemptInv ==
  /\ pc \in {"erase", "write", "check"} =>
       /\ (src = "run") <=> (hdr.img \in Compressed /\ Attempts >= 1)
       /\ hdr.img \in Compressed \/ faults >= Attempts
  /\ pc \in {"write", "check"} => count >= 1
  /\ pc = "write" => GoodSoFar \/ EmptyPass \/ faults >= count
  /\ pc = "check" => \/ src = "copy" /\ RunHolds(hdr.img)
                     \/ EmptyPass
                     \/ faults >= count
  /\ pc = "erase" => \/ faults >= count
                     \/ hdr.img \in Compressed /\ (count >= 2 => run[1] = Blank)
  /\ pc = "finish" => RunHolds(hdr.img)

(* SafeInv is what holds around the loop when faults are few: where an     *)
(* update is not under way, the run area is safe.                          *)
FewFaults == MaxFaults = 0 \/ (Compressed = {} /\ MaxFaults <= 2)

Settled == {"runapp", "fallback", "force1", "force2", "end1", "end2", "iap", "app"}

SafeInv == /\ pc \in {"reset", "verify"} => Safe \/ (flag = "update" /\ CopyOK)
           /\ pc \in Settled => Safe
           /\ pc = "app" => RunIntact

SInv == AttemptInv /\ SafeInv

(* The image the run area holds, and the one the next boot will run.       *)
RunImage  == IF RunIntact THEN CHOOSE i \in Images : RunHolds(i) ELSE None
Installed == IF Committed THEN hdr.img ELSE RunImage
Running   == IF pc = "app" THEN RunImage ELSE None

(* The boot loader implements atomic installation.                         *)
Abs == INSTANCE AtomicInstall WITH installed <- Installed, running <- Running
ImplementsAtomicInstall == Abs!Spec

(* A committed update is installed in the end, if the power is not lost    *)
(* for ever (the loop of main.c 166-208 and 216-257).                      *)
CommittedIsInstalled ==
  <>[][~PowerLoss]_vars =>
    \A i \in Images :
      (Committed /\ hdr.img = i) ~> RunHolds(i)

(* A reset always leads to the application or to the IAP loop, however the *)
(* update goes: the retry loop is left after its third pass (main.c 170).  *)
BootEnds == <>[][~PowerLoss]_vars => (pc = "reset" ~> pc \in {"app", "iap"})

-----------------------------------------------------------------------------
(* Statements of the code's comments that its behaviour contradicts.       *)

(* "write failed three times" (main.c 174): the update of a sound header   *)
(* is given up only when three writes failed.                              *)
ThreeWriteFailures == pc = "force1" /\ count > 3 /\ hdr.words = 3 => faults >= 3

(* "first verify whether the update package is right" (main.c 127): with a *)
(* flash that works, a verified package is not given up.                   *)
VerifiedIsInstalled == pc = "force1" => count = 0

(* "next time enter IAP mode directly" (main.c 117): a reset during        *)
(* ForceUpdateAppMode does not boot the partial image it shuts out.        *)
ForcedStaysOut == pc = "reset" /\ flag = "run" => Safe

(* "upgrade complete, restart to update" (can_ota_protocol.c 316): a       *)
(* complete download by the application is accepted by the loader.         *)
AppDownloadAccepted ==
  pc = "fallback" /\ hdr.by = "app" /\ hdr.words = 3 => ~CopyHolds(hdr.img)

=============================================================================

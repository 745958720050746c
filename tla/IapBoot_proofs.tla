--------------------------- MODULE IapBoot_proofs ---------------------------
(***************************************************************************)
(* Proofs about IapBoot, for every set of images, all lengths and any      *)
(* number of power losses: type correctness, whatever the flash does, and  *)
(* for a flash with few faults that no partial image is ever started, and  *)
(* that to the outside an image is installed in one step.                  *)
(***************************************************************************)
EXTENDS IapBoot, TLAPS

USE ImageAssumption, FaultAssumption

-----------------------------------------------------------------------------
(* What the flash operations return.                                       *)

LEMMA ContentType ==
  /\ Blank \in Content /\ Garbage \in Content
  /\ \A i \in Images, p \in Pages : PageOf(i, p) \in Content
  /\ \A i \in Images, p \in Pages : PageOf(i, p) # Blank /\ PageOf(i, p) # Garbage
BY DEF Content, PageOf, Blank, Garbage, Pages

LEMMA EraseUpToType ==
  ASSUME NEW area \in [Pages -> Content], NEW n \in Nat
  PROVE  EraseUpTo(area, n) \in [Pages -> Content]
BY ContentType DEF EraseUpTo

LEMMA CutEraseType ==
  ASSUME NEW area \in [Pages -> Content], NEW n \in Nat, NEW r \in CutErase(area, n)
  PROVE  r \in [Pages -> Content]
<1>1. PICK j \in 0 .. (n - 1) :
        r \in {EraseUpTo(area, j), [EraseUpTo(area, j) EXCEPT ![j + 1] = Garbage]}
  BY DEF CutErase
<1>2. EraseUpTo(area, j) \in [Pages -> Content]
  BY EraseUpToType
<1> QED
  BY <1>1, <1>2, ContentType

LEMMA SkipEraseType ==
  ASSUME NEW area \in [Pages -> Content], NEW n \in Nat, n <= MaxPages,
         NEW r \in SkipErase(area, n)
  PROVE  r \in [Pages -> Content]
<1>1. PICK j \in 1 .. n : \E c \in {area[j], Garbage} : r = [EraseUpTo(area, n) EXCEPT ![j] = c]
  BY DEF SkipErase
<1>2. area[j] \in Content
  BY <1>1 DEF Pages
<1>3. EraseUpTo(area, n) \in [Pages -> Content]
  BY EraseUpToType
<1> QED
  BY <1>1, <1>2, <1>3, ContentType

LEMMA ErasePageType ==
  ASSUME NEW area \in [Pages -> Content], NEW n \in Nat, NEW f \in {0, 1},
         NEW r \in Flash_Erase_Page(area, n, f)
  PROVE  r \in [Pages -> Content]
BY EraseUpToType, CutEraseType, SkipEraseType DEF Flash_Erase_Page

LEMMA WriteType ==
  ASSUME NEW area \in [Pages -> Content], NEW p \in Pages, NEW c \in Content,
         NEW f \in {0, 1}, NEW r \in Flash_Write(area, p, c, f)
  PROVE  r \in [Pages -> Content]
BY ContentType DEF Flash_Write

LEMMA HeaderType ==
  /\ HdrBlank \in Header /\ HdrGarbage \in Header
  /\ \A i \in Images, w \in {"iap", "app"}, n \in 0 .. 3 : HeaderOf(i, w, n) \in Header
BY DEF Header, HeaderOf, HdrBlank, HdrGarbage

LEMMA StoreHeaderType ==
  ASSUME hdr \in Header, NEW i \in Images, NEW f \in {0, 1},
         NEW h \in StoreHeader(i, f)
  PROVE  h \in Header
BY HeaderType DEF StoreHeader

LEMMA CopyOKFacts ==
  ASSUME CopyOK
  PROVE  /\ hdr.img \in Images
         /\ RunLen[hdr.img] \in 1 .. MaxPages
         /\ CopyLen[hdr.img] \in 1 .. MaxPages
BY DEF CopyOK, CopyHolds

-----------------------------------------------------------------------------
(* The first layer: types, and what an update that runs may rely on.       *)

LEMMA InitTInv == Init => TInv
<1> SUFFICES ASSUME Init PROVE TInv
  OBVIOUS
<1>1. run \in [Pages -> Content] /\ copy \in [Pages -> Content]
  BY ContentType DEF Init, Pages
<1>2. hdr \in Header /\ flag \in Flags
  BY HeaderType DEF Init, Flags
<1>3. pc = "reset" /\ count = 0 /\ src = "copy" /\ k = 1 /\ sub = 0 /\ faults = 0
  BY DEF Init
<1>4. TypeOK
  BY <1>1, <1>2, <1>3 DEF TypeOK, Steps
<1> QED
  BY <1>3, <1>4 DEF TInv, Working

(* The steps that leave the flash alone.                                   *)
LEMMA QuietTInv ==
  ASSUME TInv, ReadIAPMode \/ JumpToApp \/ Verify \/ OtaEnd \/ Restart \/ LostBetween
  PROVE  TInv'
<1>1. TypeOK'
  BY DEF TInv, TypeOK, ReadIAPMode, JumpToApp, Verify, OtaEnd, Restart, LostBetween, Lost,
         Goto, ClearRam, StackMayPass, StackMayFail, flash, ram, Flags, Steps, Pages
<1>2. flag' = flag /\ hdr' = hdr /\ copy' = copy /\ run' = run
  BY DEF ReadIAPMode, JumpToApp, Verify, OtaEnd, Restart, LostBetween, flash
<1>3. CopyOK' <=> CopyOK
  BY <1>2 DEF CopyOK, CopyHolds
<1>4. /\ pc' = "verify" => flag = "update"
      /\ pc' \in {"reset", "verify", "fallback", "runapp"} =>
           \/ count' = 0 /\ src' = "copy"
           \/ pc \in {"reset", "verify"} /\ count' = count /\ src' = src
      /\ pc' \in Working => pc = "verify" /\ pc' = "erase" /\ CopyOK /\ count' = count
  BY DEF ReadIAPMode, JumpToApp, Verify, OtaEnd, Restart, LostBetween, Lost, Goto, Working,
         StackMayPass, StackMayFail, ram, ClearRam
<1> QED
  BY <1>1, <1>2, <1>3, <1>4 DEF TInv, Working

(* The steps that only change the mode flag, none of them in the update    *)
(* loop.                                                                   *)
LEMMA FaultType ==
  ASSUME faults \in 0 .. MaxFaults, NEW f \in 0 .. 2, Faulty(f)
  PROVE  faults' \in 0 .. MaxFaults /\ faults' >= faults
BY DEF Faulty

LEMMA FlagType ==
  ASSUME flag \in Flags, NEW f \in {0, 1},
         RunAppMode(f) \/ ProgramFlag("force", f) \/ ProgramFlag("update", f)
  PROVE  flag' \in Flags
BY DEF RunAppMode, ProgramFlag, Flags

LEMMA FlagTInv ==
  ASSUME TInv, \/ Fallback \/ Finish \/ ForceErase \/ ForceProgram
               \/ UpdateErase \/ UpdateProgram \/ LostInFlag
  PROVE  TInv'
<1>1. flag' \in Flags
  <2>1. CASE LostInFlag
    BY <2>1 DEF LostInFlag, Flags
  <2>2. CASE UpdateErase /\ flag' = flag
    BY <2>2 DEF TInv, TypeOK
  <2>3. CASE ~LostInFlag /\ ~(UpdateErase /\ flag' = flag)
    <3>1. PICK f \in {0, 1} :
            RunAppMode(f) \/ ProgramFlag("force", f) \/ ProgramFlag("update", f)
      BY <2>3 DEF Fallback, Finish, ForceErase, ForceProgram, UpdateErase, UpdateProgram
    <3> QED
      BY <3>1, FlagType DEF TInv, TypeOK
  <2> QED
    BY <2>1, <2>2, <2>3
<1>2. faults' \in 0 .. MaxFaults
  <2>1. CASE faults' = faults
    BY <2>1 DEF TInv, TypeOK
  <2>2. CASE faults' # faults
    <3>1. PICK f \in {0, 1} : Faulty(f)
      BY <2>2 DEF Fallback, Finish, ForceErase, ForceProgram, UpdateErase, UpdateProgram,
             LostInFlag, Lost
    <3> QED
      BY <3>1, FaultType DEF TInv, TypeOK
  <2> QED
    BY <2>1, <2>2
<1>3. /\ hdr' = hdr /\ copy' = copy /\ run' = run
      /\ pc' \in Steps \ (Working \union {"verify"})
      /\ \/ pc' = "reset" /\ ClearRam
         \/ pc' = "runapp" /\ pc = "fallback" /\ UNCHANGED ram
         \/ pc' \notin {"reset", "runapp", "fallback"} /\ UNCHANGED ram
  BY DEF Fallback, Finish, ForceErase, ForceProgram, UpdateErase, UpdateProgram,
         LostInFlag, Lost, Goto, Steps, Working
<1>4. TypeOK'
  BY <1>1, <1>2, <1>3 DEF TInv, TypeOK, ram, ClearRam, Pages
<1> QED
  BY <1>3, <1>4 DEF TInv, Working, ClearRam, ram

(* The steps of the update loop.                                           *)
LEMMA LoopTInv ==
  ASSUME TInv, EraseRun \/ GiveUp \/ WritePage \/ CheckRun
  PROVE  TInv'
<1>1. /\ flag' = flag /\ hdr' = hdr /\ copy' = copy /\ sub' = sub
      /\ flag = "update" /\ CopyOK /\ pc \in Working
  BY DEF TInv, EraseRun, GiveUp, WritePage, CheckRun, Goto, Working, flash
<1>2. CopyOK'
  BY <1>1 DEF CopyOK, CopyHolds
<1>3. RunLen[hdr.img] \in 1 .. MaxPages /\ hdr.img \in Images
  BY <1>1, CopyOKFacts
<1>4. CASE EraseRun
  <2>1. PICK f \in {0, 1} : Faulty(f) /\ run' \in Flash_Erase_Page(run, RunLen[hdr.img], f)
    BY <1>4 DEF EraseRun
  <2>2. run' \in [Pages -> Content] /\ faults' \in 0 .. MaxFaults
    BY <2>1, <1>3, ErasePageType, FaultType DEF TInv, TypeOK
  <2>3. TypeOK'
    BY <2>2, <1>1, <1>4 DEF TInv, TypeOK, EraseRun, Goto, Steps
  <2>4. count' <= 3
    BY <1>4 DEF TInv, TypeOK, EraseRun
  <2> QED
    BY <2>3, <2>4, <1>1, <1>2, <1>3, <1>4 DEF TInv, EraseRun, Goto, Working
<1>5. CASE GiveUp
  <2>1. TypeOK'
    BY <1>5, <1>1 DEF TInv, TypeOK, GiveUp, Goto, Steps, flash
  <2> QED
    BY <2>1, <1>5 DEF TInv, GiveUp, Goto, Working
<1>6. CASE WritePage
  <2>1. PICK f \in {0, 1} : /\ Faulty(f)
                            /\ run' \in IF src = "copy" THEN Flash_Write(run, k, Produced(k), f)
                                       ELSE {run}
    BY <1>6 DEF WritePage
  <2>2. k \in Pages /\ k <= RunLen[hdr.img]
    BY <1>6, <1>3 DEF TInv, TypeOK, WritePage, Goto, Pages
  <2>3. Produced(k) \in Content
    BY <2>2, <1>3, ContentType DEF Produced, TInv, TypeOK
  <2>4. run' \in [Pages -> Content] /\ faults' \in 0 .. MaxFaults
    BY <2>1, <2>2, <2>3, WriteType, FaultType DEF TInv, TypeOK
  <2>5. TypeOK'
    BY <2>2, <2>4, <1>1, <1>3, <1>6 DEF TInv, TypeOK, WritePage, Goto, Steps, Pages
  <2> QED
    BY <2>2, <2>5, <1>1, <1>2, <1>3, <1>6 DEF TInv, TypeOK, WritePage, Goto, Working
<1>7. CASE CheckRun
  <2>1. TypeOK'
    BY <1>7, <1>1 DEF TInv, TypeOK, CheckRun, Goto, Steps, flash
  <2>2. count' <= 3
    BY <1>7, <1>1 DEF TInv, CheckRun
  <2> QED
    BY <2>1, <2>2, <1>1, <1>2, <1>7 DEF TInv, CheckRun, Goto, Working
<1> QED
  BY <1>4, <1>5, <1>6, <1>7

(* Losing power within an operation, and the two download commands that    *)
(* change the flash.                                                       *)
LEMMA DownloadTInv ==
  ASSUME TInv, \/ LostInRun
               \/ \E i \in Images : LostInStart(i) \/ OtaStart(i)
               \/ \E p \in Pages : LostInUpdate(p)
               \/ \E i \in Images, p \in Pages : OtaUpdate(i, p)
  PROVE  TInv'
<1>1. CASE LostInRun
  <2>1. pc = "erase" => RunLen[hdr.img] \in Nat
    BY CopyOKFacts DEF TInv, Working
  <2>2. run' \in [Pages -> Content]
    BY <1>1, <2>1, CutEraseType, ContentType DEF LostInRun, TInv, TypeOK
  <2>3. TypeOK'
    BY <1>1, <2>2 DEF TInv, TypeOK, LostInRun, Lost, ClearRam, Steps, Pages
  <2> QED
    BY <1>1, <2>3 DEF TInv, LostInRun, Lost, ClearRam, Working
<1>2. CASE \E i \in Images : LostInStart(i)
  <2>1. PICK i \in Images : LostInStart(i)
    BY <1>2
  <2>2. hdr' \in Header
    BY <2>1, StoreHeaderType DEF LostInStart, TInv, TypeOK
  <2>3. copy' \in [Pages -> Content]
    BY <2>1, CutEraseType DEF LostInStart, TInv, TypeOK
  <2>4. TypeOK'
    BY <2>1, <2>2, <2>3 DEF TInv, TypeOK, LostInStart, Lost, ClearRam, Steps, Pages
  <2> QED
    BY <2>1, <2>4 DEF TInv, LostInStart, Lost, ClearRam, Working
<1>3. CASE \E i \in Images : OtaStart(i)
  <2>1. PICK i \in Images, f \in {0, 1}, g \in {0, 1} :
          /\ OtaStart(i)
          /\ Faulty(f + g)
          /\ hdr' \in StoreHeader(i, f)
          /\ copy' \in Flash_Erase_Page(copy, CopyLen[i], g)
    BY <1>3 DEF OtaStart
  <2>2. hdr' \in Header /\ faults' \in 0 .. MaxFaults
    BY <2>1, StoreHeaderType, FaultType DEF TInv, TypeOK
  <2>3. copy' \in [Pages -> Content]
    BY <2>1, ErasePageType DEF TInv, TypeOK
  <2>4. TypeOK'
    BY <2>1, <2>2, <2>3 DEF TInv, TypeOK, OtaStart
  <2> QED
    BY <2>1, <2>4 DEF TInv, OtaStart, Working
<1>4. CASE \E p \in Pages : LostInUpdate(p)
  <2>1. PICK p \in Pages : LostInUpdate(p)
    BY <1>4
  <2>2. copy' \in [Pages -> Content]
    BY <2>1, ContentType DEF TInv, TypeOK, LostInUpdate
  <2>3. TypeOK'
    BY <2>1, <2>2 DEF TInv, TypeOK, LostInUpdate, Lost, ClearRam, Steps, Pages
  <2> QED
    BY <2>1, <2>3 DEF TInv, LostInUpdate, Lost, ClearRam, Working
<1>5. CASE \E i \in Images, p \in Pages : OtaUpdate(i, p)
  <2>1. PICK i \in Images, p \in Pages, f \in {0, 1} :
          /\ OtaUpdate(i, p)
          /\ Faulty(f)
          /\ copy' \in Flash_Write(copy, Slot(p), PageOf(i, p), f)
    BY <1>5 DEF OtaUpdate
  <2>2. Slot(p) \in Pages
    BY DEF Slot, Pages
  <2>3. copy' \in [Pages -> Content] /\ faults' \in 0 .. MaxFaults
    BY <2>1, <2>2, ContentType, WriteType, FaultType DEF TInv, TypeOK
  <2>4. TypeOK'
    BY <2>1, <2>3 DEF TInv, TypeOK, OtaUpdate, ram
  <2> QED
    BY <2>1, <2>4 DEF TInv, OtaUpdate, Working, ram
<1> QED
  BY <1>1, <1>2, <1>3, <1>4, <1>5

LEMMA StutterTInv == ASSUME TInv, UNCHANGED vars PROVE TInv'
<1>1. TypeOK'
  BY DEF TInv, TypeOK, vars, flash, ram, Pages, Steps, Flags
<1>2. CopyOK' <=> CopyOK
  BY DEF vars, flash, CopyOK, CopyHolds
<1> QED
  BY <1>1, <1>2 DEF TInv, vars, flash, ram, Working

LEMMA StepTInv == TInv /\ [Next]_vars => TInv'
BY QuietTInv, FlagTInv, LoopTInv, DownloadTInv, StutterTInv
   DEF Next, BootStep, Command, PowerLoss

(* Types, and the contract of the update loop (main.c 121-258): whatever   *)
(* the flash does, and wherever the power fails, control is in the loop    *)
(* only under the update flag and a verified download, and makes at most   *)
(* three attempts.                                                         *)
THEOREM UpdateContract == Spec => []TInv
<1>1. Init => TInv
  BY InitTInv
<1>2. TInv /\ [Next]_vars => TInv'
  BY StepTInv
<1> QED
  BY <1>1, <1>2, PTL DEF Spec

-----------------------------------------------------------------------------
(* The second layer: the attempts of the update loop.                      *)

(* Every step that does not come from the loop enters it, if at all, at    *)
(* the first attempt.                                                      *)
LEMMA OutsideAttempt ==
  ASSUME TInv, AttemptInv, Next, ~(EraseRun \/ WritePage \/ CheckRun)
  PROVE  AttemptInv'
<1>1. pc' \in Working => Verify /\ pc' = "erase"
  BY DEF Next, BootStep, Command, PowerLoss, ReadIAPMode, JumpToApp, Verify, Fallback, GiveUp,
         Finish, ForceErase, ForceProgram, OtaStart, OtaUpdate, OtaEnd, UpdateErase,
         UpdateProgram, Restart, LostBetween, LostInFlag, LostInRun, LostInStart,
         LostInUpdate, Lost, Goto, Working
<1>2. Verify => count' = 0 /\ src' = "copy" /\ faults' >= 0
  BY DEF Verify, Goto, TInv, TypeOK, ram
<1> QED
  BY <1>1, <1>2 DEF AttemptInv, Attempts, Working

LEMMA EraseAttempt ==
  ASSUME CleanRetry, TInv, AttemptInv, EraseRun
  PROVE  AttemptInv'
<1>1. PICK f \in {0, 1} : Faulty(f) /\ run' \in Flash_Erase_Page(run, RunLen[hdr.img], f)
  BY DEF EraseRun
<1>2. /\ pc = "erase" /\ pc' = "write" /\ hdr' = hdr /\ src' = src
      /\ count' = count + 1 /\ k' = 1 /\ count \in Nat /\ faults \in Nat
      /\ faults' = faults + f
  BY <1>1 DEF EraseRun, Goto, TInv, TypeOK, Faulty
<1>3. RunLen[hdr.img] \in 1 .. MaxPages /\ hdr.img \in Images
  BY <1>2, CopyOKFacts DEF TInv, Working
<1>4. CASE f = 0
  <2>1. run' = EraseUpTo(run, RunLen[hdr.img])
    BY <1>1, <1>3, <1>4 DEF Flash_Erase_Page
  <2>2. \A p \in 1 .. RunLen[hdr.img] : run'[p] = Blank
    BY <2>1, <1>3 DEF EraseUpTo, Pages
  <2>3. src \in {"copy", "run"}
    BY DEF TInv, TypeOK
  <2>4. GoodSoFar' \/ EmptyPass'
    BY <2>2, <2>3, <1>2, <1>3 DEF GoodSoFar, EmptyPass
  <2> QED
    BY <2>4, <1>2, <1>4 DEF AttemptInv, Attempts
<1>5. CASE f = 1
  <2>1. MaxFaults # 0
    BY <1>1, <1>2, <1>5 DEF Faulty
  <2>2. hdr.img \notin Compressed
    BY <2>1 DEF CleanRetry
  <2>3. faults' >= count'
    BY <2>2, <1>2, <1>5 DEF AttemptInv
  <2> QED
    BY <2>3, <1>2, <1>5 DEF AttemptInv, Attempts
<1> QED
  BY <1>4, <1>5

LEMMA WriteAttempt ==
  ASSUME CleanRetry, TInv, AttemptInv, WritePage
  PROVE  AttemptInv'
<1>1. PICK f \in {0, 1} : /\ Faulty(f)
                          /\ run' \in IF src = "copy" THEN Flash_Write(run, k, Produced(k), f)
                                     ELSE {run}
  BY DEF WritePage
<1>2. /\ pc = "write" /\ hdr' = hdr /\ src' = src /\ copy' = copy
      /\ count' = count /\ k' = k + 1 /\ faults' = faults + f
      /\ count \in Nat /\ faults \in Nat /\ count >= 1
      /\ pc' = IF k < RunLen[hdr.img] THEN "write" ELSE "check"
  BY <1>1 DEF WritePage, Goto, TInv, TypeOK, Faulty, AttemptInv
<1>3. /\ RunLen[hdr.img] \in 1 .. MaxPages /\ hdr.img \in Images
      /\ k \in 1 .. RunLen[hdr.img] /\ CopyOK
  BY <1>2, CopyOKFacts DEF TInv, TypeOK, Working
<1>4. CASE faults' >= count
  BY <1>2, <1>4 DEF AttemptInv, Attempts
<1>5. CASE faults' < count
  <2>1. f = 0
    <3>1. CASE f = 1
      <4>1. hdr.img \notin Compressed
        BY <1>1, <1>2, <3>1 DEF Faulty, CleanRetry
      <4> QED
        BY <4>1, <3>1, <1>2, <1>5 DEF AttemptInv, Attempts
    <3> QED
      BY <3>1
  <2>2. CASE EmptyPass
    BY <2>1, <2>2, <1>1, <1>2 DEF EmptyPass, AttemptInv, Attempts
  <2>3. CASE GoodSoFar
    <3>1. Produced(k) = PageOf(hdr.img, k)
      BY <1>3 DEF Produced, CopyOK, CopyHolds
    <3>2. run[k] = Blank
      BY <2>3, <1>3 DEF GoodSoFar
    <3>3. run' = [run EXCEPT ![k] = PageOf(hdr.img, k)]
      BY <2>1, <2>3, <3>1, <3>2, <1>1 DEF GoodSoFar, Flash_Write
    <3>4. ASSUME NEW p \in 1 .. RunLen[hdr.img]
          PROVE  run'[p] = IF p < k + 1 THEN PageOf(hdr.img, p) ELSE Blank
      BY <2>3, <3>3, <1>3 DEF GoodSoFar, TInv, TypeOK, Pages
    <3>5. GoodSoFar'
      BY <2>3, <3>4, <1>2 DEF GoodSoFar
    <3>6. pc' = "check" => RunHolds(hdr.img)'
      BY <3>4, <1>2, <1>3 DEF RunHolds
    <3> QED
      BY <3>5, <3>6, <1>2, <2>1, <2>3 DEF AttemptInv, Attempts, GoodSoFar
  <2> QED
    BY <2>2, <2>3, <1>2, <1>5, <2>1 DEF AttemptInv
<1> QED
  BY <1>2, <1>4, <1>5

LEMMA CheckAttempt ==
  ASSUME TInv, AttemptInv, CheckRun
  PROVE  AttemptInv'
<1>1. /\ pc = "check" /\ pc' = IF RunOK THEN "finish" ELSE "erase"
      /\ hdr' = hdr /\ run' = run /\ count' = count /\ faults' = faults
      /\ src' = IF hdr.img \in Compressed THEN "run" ELSE src
      /\ count \in Nat /\ faults \in Nat /\ count >= 1
      /\ src \in {"copy", "run"}
  BY DEF CheckRun, Goto, TInv, TypeOK, flash, AttemptInv
<1>2. CASE RunOK
  BY <1>1, <1>2 DEF AttemptInv, RunOK, RunHolds
<1>3. CASE ~RunOK
  <2>1. (src' = "run") <=> (hdr.img \in Compressed /\ count >= 1)
    BY <1>1 DEF AttemptInv
  <2>2. \/ faults >= count
        \/ hdr.img \in Compressed /\ (count >= 2 => run[1] = Blank)
    BY <1>1, <1>3 DEF AttemptInv, Attempts, EmptyPass, RunOK
  <2> QED
    BY <2>1, <2>2, <1>1, <1>3 DEF AttemptInv, Attempts
<1> QED
  BY <1>2, <1>3

LEMMA StutterAttempt == ASSUME AttemptInv, UNCHANGED vars PROVE AttemptInv'
BY DEF AttemptInv, vars, flash, ram, Attempts, GoodSoFar, EmptyPass, RunHolds

LEMMA StepAttempt ==
  ASSUME CleanRetry
  PROVE  TInv /\ AttemptInv /\ [Next]_vars => AttemptInv'
BY OutsideAttempt, EraseAttempt, WriteAttempt, CheckAttempt, StutterAttempt

LEMMA InitAttempt == Init => AttemptInv
BY DEF Init, AttemptInv

-----------------------------------------------------------------------------
(* The third layer: the run area is safe around the update loop.           *)

LEMMA RunKept == ASSUME run' = run PROVE (Safe' <=> Safe) /\ (RunIntact' <=> RunIntact)
BY DEF Safe, RunIntact, RunHolds

LEMMA FewIsClean == FewFaults => CleanRetry
BY DEF FewFaults, CleanRetry

LEMMA InitSafe == Init => SafeInv
<1> SUFFICES ASSUME Init PROVE SafeInv
  OBVIOUS
<1>1. PICK r \in Images \union {None} :
        /\ r \in Images => RunLen[r] <= MaxPages
        /\ run = [p \in Pages |->
                    IF r \in Images /\ p <= RunLen[r] THEN PageOf(r, p) ELSE Blank]
  BY DEF Init
<1>2. CASE r = None
  BY <1>1, <1>2 DEF Init, SafeInv, Safe, Settled, Pages
<1>3. CASE r \in Images
  <2>1. RunHolds(r)
    BY <1>1, <1>3 DEF RunHolds, Pages
  <2> QED
    BY <2>1, <1>3 DEF Init, SafeInv, Safe, RunIntact, Settled
<1> QED
  BY <1>2, <1>3

(* A partial run area means a committed update.                            *)
LEMMA SafeGuards == ASSUME TInv, SafeInv PROVE PartialGuarded
BY DEF TInv, TypeOK, SafeInv, PartialGuarded, Steps, Settled, Working

(* Giving up three attempts leaves a run area that is empty: the flash has *)
(* not failed often enough, so the attempts were passes that wrote nothing.*)
LEMMA GiveUpSafe ==
  ASSUME FewFaults, TInv, AttemptInv, GiveUp
  PROVE  Safe
<1>1. pc = "erase" /\ count = 3 /\ faults \in 0 .. MaxFaults
  BY DEF GiveUp, Goto, TInv, TypeOK, Working
<1>2. ~(faults >= count)
  BY <1>1 DEF FewFaults
<1> QED
  BY <1>1, <1>2 DEF AttemptInv, Safe

(* A step that leaves the run area alone keeps it safe, or keeps the       *)
(* committed update that will write it.                                    *)
LEMMA QuietSafe ==
  ASSUME FewFaults, TInv, AttemptInv, SafeInv, BootStep \/ OtaEnd \/ Restart \/ LostBetween,
         ~EraseRun, ~WritePage
  PROVE  SafeInv'
<1>1. run' = run
  BY DEF BootStep, ReadIAPMode, JumpToApp, Verify, Fallback, GiveUp, CheckRun, Finish,
         ForceErase, ForceProgram, UpdateErase, UpdateProgram, OtaEnd, Restart,
         LostBetween, flash
<1>2. CASE LostBetween
  <2>1. flag' = flag /\ (CopyOK' <=> CopyOK) /\ pc' = "reset"
    BY <1>2 DEF LostBetween, Lost, flash, CopyOK, CopyHolds
  <2> QED
    BY <2>1, <1>1, RunKept, SafeGuards DEF SafeInv, Settled, PartialGuarded
<1>3. CASE ReadIAPMode \/ Verify
  <2>1. flag' = flag /\ (CopyOK' <=> CopyOK)
    BY <1>3 DEF ReadIAPMode, Verify, flash, CopyOK, CopyHolds
  <2> QED
    BY <2>1, <1>1, <1>3, RunKept DEF SafeInv, Settled, ReadIAPMode, Verify, Goto
<1>4. CASE JumpToApp
  <2>1. Safe /\ (pc' = "app" => RunIntact)
    BY <1>4 DEF JumpToApp, Goto, SafeInv, Settled, Safe, StackMayPass
  <2> QED
    BY <2>1, <1>1, <1>4, RunKept DEF SafeInv, Settled, JumpToApp, Goto
<1>5. CASE GiveUp
  BY <1>5, <1>1, RunKept, GiveUpSafe DEF SafeInv, Settled, GiveUp, Goto
<1>6. CASE CheckRun
  BY <1>6 DEF CheckRun, Goto, SafeInv, Settled
<1>7. CASE Finish
  <2>1. RunHolds(hdr.img) /\ hdr.img \in Images
    BY <1>7, CopyOKFacts DEF Finish, Goto, AttemptInv, TInv, Working
  <2>2. Safe
    BY <2>1 DEF Safe, RunIntact
  <2> QED
    BY <2>2, <1>1, <1>7, RunKept DEF Finish, Goto, SafeInv, Settled
<1>8. CASE \/ Fallback \/ ForceErase \/ ForceProgram \/ UpdateErase \/ UpdateProgram
           \/ OtaEnd \/ Restart
  <2>1. Safe /\ pc' # "app"
    BY <1>8 DEF Fallback, ForceErase, ForceProgram, UpdateErase, UpdateProgram, OtaEnd,
           Restart, Goto, SafeInv, Settled
  <2> QED
    BY <2>1, <1>1, RunKept DEF SafeInv
<1> QED
  BY <1>2, <1>3, <1>4, <1>5, <1>6, <1>7, <1>8 DEF BootStep

(* The steps of the loop that write the run area stay in the loop, and one *)
(* that the power cuts short leaves the committed update.                  *)
LEMMA WritingSafe ==
  ASSUME TInv, EraseRun \/ WritePage \/ LostInRun
  PROVE  SafeInv'
<1>1. CASE EraseRun \/ WritePage
  BY <1>1 DEF EraseRun, WritePage, Goto, SafeInv, Settled
<1>2. CASE LostInRun
  <2>1. flag = "update" /\ CopyOK
    BY <1>2 DEF LostInRun, TInv, Working
  <2>2. flag' = "update" /\ CopyOK' /\ pc' = "reset"
    BY <1>2, <2>1 DEF LostInRun, Lost, CopyOK, CopyHolds
  <2> QED
    BY <2>2 DEF SafeInv, Settled
<1> QED
  BY <1>1, <1>2

LEMMA LostFlagSafe ==
  ASSUME TInv, AttemptInv, SafeInv, LostInFlag
  PROVE  SafeInv'
<1>1. run' = run /\ pc' = "reset" /\ pc \in Settled \union {"finish"}
  BY DEF LostInFlag, Lost, Settled
<1>2. Safe
  <2>1. CASE pc = "finish"
    BY <2>1, CopyOKFacts DEF AttemptInv, TInv, Working, Safe, RunIntact
  <2> QED
    BY <2>1, <1>1 DEF SafeInv
<1> QED
  BY <1>1, <1>2, RunKept DEF SafeInv, Settled

LEMMA DownloadSafe ==
  ASSUME SafeInv, \/ \E i \in Images : LostInStart(i) \/ OtaStart(i)
                  \/ \E p \in Pages : LostInUpdate(p)
                  \/ \E i \in Images, p \in Pages : OtaUpdate(i, p)
  PROVE  SafeInv'
<1>1. run' = run /\ pc \in {"iap", "app"} /\ pc' \in {pc, "reset"}
  BY DEF LostInStart, OtaStart, LostInUpdate, OtaUpdate, Lost
<1>2. Safe /\ (pc = "app" => RunIntact)
  BY <1>1 DEF SafeInv, Settled
<1> QED
  BY <1>1, <1>2, RunKept DEF SafeInv, Settled

LEMMA StepSafe ==
  ASSUME FewFaults
  PROVE  TInv /\ AttemptInv /\ SafeInv /\ [Next]_vars => SafeInv'
<1> SUFFICES ASSUME TInv, AttemptInv, SafeInv, [Next]_vars PROVE SafeInv'
  OBVIOUS
<1>1. CASE Next
  BY <1>1, QuietSafe, WritingSafe, LostFlagSafe, DownloadSafe
     DEF Next, BootStep, Command, PowerLoss
<1>2. CASE UNCHANGED vars
  BY <1>2 DEF vars, flash, SafeInv, Safe, RunIntact, RunHolds, CopyOK, CopyHolds
<1> QED
  BY <1>1, <1>2

-----------------------------------------------------------------------------
(* The invariant holds (main.c 96-258): with a flash that fails too seldom *)
(* to spoil three attempts, for all images, lengths and power losses.      *)
THEOREM UpdateInvariant == ASSUME FewFaults PROVE Spec => [](TInv /\ SInv)
<1>1. Init => TInv /\ SInv
  BY InitTInv, InitAttempt, InitSafe DEF SInv
<1>2. TInv /\ SInv /\ [Next]_vars => (TInv /\ SInv)'
  BY StepTInv, StepAttempt, StepSafe, FewIsClean DEF SInv
<1> QED
  BY <1>1, <1>2, PTL DEF Spec

(* The loader never starts an incomplete image (main.c 99-112).            *)
THEOREM NeverStartsPartial == ASSUME FewFaults PROVE Spec => []JumpSafe
<1>1. TInv /\ SInv => JumpSafe
  BY DEF SInv, SafeInv, JumpSafe
<1> QED
  BY <1>1, UpdateInvariant, PTL

(* A partly written run area is always guarded by the update flag and a    *)
(* verified download (main.c 121-258), so the next boot writes it again.   *)
THEOREM PartialIsGuarded == ASSUME FewFaults PROVE Spec => []PartialGuarded
<1>1. TInv /\ SInv => PartialGuarded
  BY SafeGuards DEF SInv
<1> QED
  BY <1>1, UpdateInvariant, PTL

(* Plain images, any number of faults: the loader gives an update up only  *)
(* after three faults of the flash (main.c 170-176, 219-225).              *)
THEOREM GivesUpAfterFaults == ASSUME Compressed = {} PROVE Spec => []GiveUpAfterFaults
<1> DEFINE Inv == TInv /\ AttemptInv /\ GiveUpAfterFaults
<1>1. Init => Inv
  BY InitTInv, InitAttempt DEF Init, GiveUpAfterFaults
<1>2. Inv /\ [Next]_vars => Inv'
  <2> SUFFICES ASSUME TInv, AttemptInv, GiveUpAfterFaults, [Next]_vars
               PROVE  GiveUpAfterFaults'
    BY StepTInv, StepAttempt DEF CleanRetry
  <2>1. CASE GiveUp
    BY <2>1 DEF GiveUp, Goto, AttemptInv, TInv, TypeOK, GiveUpAfterFaults
  <2>2. CASE JumpToApp
    BY <2>2 DEF JumpToApp, Goto, TInv, ram, GiveUpAfterFaults
  <2>3. CASE Next /\ ~GiveUp /\ ~JumpToApp
    <3>1. pc' # "force1"
      BY <2>3 DEF Next, BootStep, Command, PowerLoss, ReadIAPMode, Verify, Fallback, EraseRun,
             WritePage, CheckRun, Finish, ForceErase, ForceProgram, OtaStart, OtaUpdate,
             OtaEnd, UpdateErase, UpdateProgram, Restart, LostBetween, LostInFlag,
             LostInRun, LostInStart, LostInUpdate, Lost, Goto
    <3> QED
      BY <3>1 DEF GiveUpAfterFaults
  <2>4. CASE UNCHANGED vars
    BY <2>4 DEF vars, ram, GiveUpAfterFaults
  <2> QED
    BY <2>1, <2>2, <2>3, <2>4
<1> QED
  BY <1>1, <1>2, PTL DEF Spec

-----------------------------------------------------------------------------
(* Commitment and refinement: plain images, at most two faults.            *)

Plain == Compressed = {} /\ MaxFaults <= 2

(* Where the loader has turned away from an update there is none to commit *)
(* to: what is committed is never given up.                                *)
TurnedAway == pc \in {"runapp", "fallback", "force1", "force2"} =>
                ~(flag = "update" /\ CopyOK)

InstallInv == TInv /\ SInv /\ TurnedAway

LEMMA PlainIsFew == Plain => FewFaults
BY DEF Plain, FewFaults

LEMMA NeverGivesUp == ASSUME Plain, TInv, AttemptInv PROVE ~GiveUp
BY DEF Plain, TInv, TypeOK, AttemptInv, GiveUp, Goto, Attempts, Working

LEMMA TurnedAwayKept ==
  ASSUME Plain, TInv, AttemptInv, TurnedAway, [Next]_vars
  PROVE  TurnedAway'
<1> SUFFICES ASSUME pc' \in {"runapp", "fallback", "force1", "force2"}
             PROVE  ~(flag' = "update" /\ CopyOK')
  BY DEF TurnedAway
<1>1. \/ ReadIAPMode \/ JumpToApp \/ Verify \/ Fallback \/ ForceErase \/ UNCHANGED vars
  BY NeverGivesUp
     DEF Next, BootStep, Command, PowerLoss, EraseRun, WritePage, CheckRun, Finish,
         ForceProgram, OtaStart, OtaUpdate, OtaEnd, UpdateErase, UpdateProgram, Restart,
         LostBetween, LostInFlag, LostInRun, LostInStart, LostInUpdate, Lost, Goto
<1>2. hdr' = hdr /\ copy' = copy /\ (flag' = "update" => flag = "update")
  BY <1>1 DEF ReadIAPMode, JumpToApp, Verify, Fallback, ForceErase, RunAppMode, vars, flash
<1>3. CopyOK' <=> CopyOK
  BY <1>2 DEF CopyOK, CopyHolds
<1>4. CASE ReadIAPMode
  BY <1>2, <1>4 DEF ReadIAPMode, Goto, flash
<1>5. CASE Verify
  BY <1>3, <1>5 DEF Verify, Goto
<1>6. CASE JumpToApp \/ Fallback \/ ForceErase \/ UNCHANGED vars
  BY <1>2, <1>3, <1>6 DEF JumpToApp, Fallback, ForceErase, Goto, vars, TurnedAway
<1> QED
  BY <1>1, <1>4, <1>5, <1>6

LEMMA InitInstall == Init => InstallInv
<1>1. Init => TurnedAway
  BY DEF Init, TurnedAway
<1> QED
  BY <1>1, InitTInv, InitAttempt, InitSafe DEF InstallInv, SInv

LEMMA StepInstall == ASSUME Plain PROVE InstallInv /\ [Next]_vars => InstallInv'
BY StepTInv, StepAttempt, StepSafe, TurnedAwayKept, PlainIsFew, FewIsClean
   DEF InstallInv, SInv

(* A committed update stays, with its header, or its image has been        *)
(* installed.                                                              *)
LEMMA CommittedStep ==
  ASSUME Plain, InstallInv, Committed, [Next]_vars
  PROVE  /\ hdr' = hdr /\ pc' # "app"
         /\ Committed' \/ (RunHolds(hdr.img) /\ run' = run)
<1> USE DEF InstallInv, SInv
<1>1. pc \in {"reset", "verify"} \union Working
  BY DEF TurnedAway, Committed, TInv, TypeOK, Steps, Working
<1>2. CASE Finish \/ (LostInFlag /\ pc = "finish")
  BY <1>2 DEF Finish, LostInFlag, Lost, Goto, AttemptInv
<1>3. CASE Next /\ ~Finish /\ ~(LostInFlag /\ pc = "finish")
  <2>1. ~GiveUp /\ (ReadIAPMode => pc' = "verify")
    BY NeverGivesUp DEF ReadIAPMode, Goto, Committed
  <2>2. ReadIAPMode \/ Verify \/ EraseRun \/ WritePage \/ CheckRun \/ LostBetween \/ LostInRun
    BY <1>1, <1>3, <2>1
       DEF Next, BootStep, Command, PowerLoss, JumpToApp, Fallback, ForceErase, ForceProgram,
           OtaStart, OtaUpdate, OtaEnd, UpdateErase, UpdateProgram, Restart, LostInFlag,
           LostInStart, LostInUpdate, Goto, Working
  <2>3. flag' = flag /\ hdr' = hdr /\ copy' = copy /\ pc' \notin {"iap", "app", "end1", "end2"}
    BY <2>1, <2>2 DEF ReadIAPMode, Verify, EraseRun, WritePage, CheckRun, LostBetween,
                      LostInRun, Lost, Goto, flash
  <2>4. CopyOK' <=> CopyOK
    BY <2>3 DEF CopyOK, CopyHolds
  <2> QED
    BY <2>3, <2>4 DEF Committed
<1>4. CASE UNCHANGED vars
  <2>1. flag' = flag /\ hdr' = hdr /\ copy' = copy /\ pc' = pc
    BY <1>4 DEF vars, flash
  <2>2. CopyOK' <=> CopyOK
    BY <2>1 DEF CopyOK, CopyHolds
  <2> QED
    BY <2>1, <2>2 DEF Committed
<1> QED
  BY <1>2, <1>3, <1>4

(* A committed update is never given up before the run area holds its      *)
(* image, whatever power losses and the two faults do to the attempts to   *)
(* install it (main.c 160-258).                                            *)
THEOREM CommittedIsKept == ASSUME Plain PROVE Spec => CommittedUntilInstalled
<1>1. InstallInv /\ [Next]_vars =>
        [Committed /\ ~Committed' => RunHolds(hdr.img)]_vars
  BY CommittedStep
<1> QED
  BY <1>1, InitInstall, StepInstall, PTL DEF Spec, CommittedUntilInstalled

-----------------------------------------------------------------------------
(* The run area holds at most one image: that is the one RunImage chooses. *)
LEMMA OneImage == \A i \in Images : RunHolds(i) => RunIntact /\ RunImage = i
<1> SUFFICES ASSUME NEW i \in Images, RunHolds(i) PROVE RunIntact /\ RunImage = i
  OBVIOUS
<1>1. ASSUME NEW j \in Images, RunHolds(j) PROVE run[1].img = j
  <2>1. run[1] = PageOf(j, 1)
    BY <1>1 DEF RunHolds
  <2> QED
    BY <2>1 DEF PageOf
<1>2. \A j \in Images : RunHolds(j) => j = i
  BY <1>1
<1> QED
  BY <1>2 DEF RunIntact, RunImage

LEMMA OneImageNext == \A i \in Images : RunHolds(i)' => RunImage' = i
<1>1. (\A i \in Images : RunHolds(i) => RunIntact /\ RunImage = i)'
  BY OneImage, PTL
<1> QED
  BY <1>1

LEMMA ImageType == RunIntact => RunImage \in Images /\ RunHolds(RunImage)
BY DEF RunIntact, RunImage

LEMMA ImageKept == ASSUME run' = run PROVE RunImage' = RunImage
<1>1. \A i \in Images : RunHolds(i)' <=> RunHolds(i)
  BY DEF RunHolds
<1>2. CASE RunIntact
  <2>1. PICK i \in Images : RunHolds(i)
    BY <1>2 DEF RunIntact
  <2> QED
    BY <1>1, <2>1, OneImage, OneImageNext
<1>3. CASE ~RunIntact
  BY <1>1, <1>3 DEF RunIntact, RunImage
<1> QED
  BY <1>2, <1>3

(* The steps of AtomicInstall.                                             *)
LEMMA InitAtomic == Init => Abs!Init
<1> SUFFICES ASSUME Init PROVE Abs!Init
  OBVIOUS
<1>1. ~Committed /\ Running = None
  BY DEF Init, Committed, Running
<1>2. RunImage \in Images \union {None}
  BY ImageType DEF RunImage
<1> QED
  BY <1>1, <1>2 DEF Abs!Init, Installed

(* While an update is committed nothing changes that can be seen, even     *)
(* when the flag goes: the run area holds its image by then.               *)
LEMMA CommittedStutters ==
  ASSUME Plain, InstallInv, Committed, [Next]_vars
  PROVE  UNCHANGED <<Installed, Running>>
<1>1. /\ hdr' = hdr /\ pc # "app" /\ pc' # "app" /\ hdr.img \in Images
      /\ Committed' \/ (RunHolds(hdr.img) /\ run' = run)
  BY CommittedStep, CopyOKFacts DEF Committed
<1>2. Installed' = hdr.img
  <2>1. CASE Committed'
    BY <1>1, <2>1 DEF Installed
  <2>2. CASE ~Committed'
    <3>1. RunImage = hdr.img /\ RunImage' = RunImage
      BY <1>1, <2>2, OneImage, ImageKept
    <3> QED
      BY <2>2, <3>1 DEF Installed
  <2> QED
    BY <2>1, <2>2
<1> QED
  BY <1>1, <1>2 DEF Installed, Running

(* Otherwise the run area stays as it is.  What takes control from the     *)
(* program that ran, or from the download commands, commits an update or   *)
(* halts; nothing else starts a program but the jump.                      *)
LEMMA UncommittedStep ==
  ASSUME TInv, ~Committed, [Next]_vars
  PROVE  run' = run /\ (pc' = "app" => JumpToApp \/ (pc = "app" /\ ~Committed'))
<1>1. pc \notin Working
  BY DEF TInv, Committed, Working
<1>2. ~(EraseRun \/ WritePage \/ LostInRun \/ CheckRun \/ GiveUp \/ Finish)
  BY <1>1 DEF EraseRun, WritePage, LostInRun, CheckRun, GiveUp, Finish, Goto, Working
<1> QED
  BY <1>2 DEF Next, BootStep, Command, PowerLoss, ReadIAPMode, JumpToApp, Verify, Fallback,
              ForceErase, ForceProgram, OtaStart, OtaUpdate, OtaEnd, UpdateErase,
              UpdateProgram, Restart, LostBetween, LostInFlag, LostInStart, LostInUpdate,
              Lost, Goto, flash, vars, Committed

LEMMA UncommittedAtomic ==
  ASSUME Plain, InstallInv, InstallInv', ~Committed, [Next]_vars
  PROVE  Abs!Next \/ UNCHANGED <<Installed, Running>>
<1>1. run' = run /\ RunImage' = RunImage /\ Installed = RunImage
  BY UncommittedStep, ImageKept DEF InstallInv, Installed
<1>2. CASE pc' # "app" /\ Committed'
  <2>1. hdr'.img \in Images
    BY <1>2 DEF Committed, CopyOK
  <2>2. Abs!Replace(hdr'.img)
    BY <1>2 DEF Abs!Replace, Installed, Running
  <2> QED
    BY <2>1, <2>2 DEF Abs!Next
<1>3. CASE pc' # "app" /\ ~Committed'
  BY <1>1, <1>3 DEF Abs!Next, Abs!Halt, Installed, Running
<1>4. CASE pc' = "app" /\ pc = "app"
  <2>1. ~Committed'
    BY <1>4 DEF Committed
  <2> QED
    BY <1>1, <1>4, <2>1 DEF Installed, Running
<1>5. CASE pc' = "app" /\ pc # "app"
  <2>1. ~Committed' /\ Running = None /\ Running' = RunImage' /\ RunIntact'
    BY <1>5 DEF Committed, Running, InstallInv, SInv, SafeInv
  <2>2. RunImage \in Images
    BY <1>1, <2>1, ImageType DEF RunIntact, RunHolds
  <2> QED
    BY <1>1, <2>1, <2>2 DEF Abs!Next, Abs!Boot, Installed
<1> QED
  BY <1>2, <1>3, <1>4, <1>5

(* The loader implements atomic installation (main.c 96-258, iap_if.c      *)
(* 62-158): seen from outside one image is installed at a time, a new one  *)
(* takes its place in one step, and each boot starts the installed one,    *)
(* wherever the power fails between and within the flash operations.       *)
THEOREM LoaderIsAtomic == ASSUME Plain PROVE Spec => ImplementsAtomicInstall
<1>1. InstallInv /\ InstallInv' /\ [Next]_vars => [Abs!Next]_Abs!vars
  BY CommittedStutters, UncommittedAtomic DEF Abs!vars
<1> QED
  BY <1>1, InitInstall, InitAtomic, StepInstall, PTL DEF Spec, ImplementsAtomicInstall, Abs!Spec

=============================================================================

--------------------------- MODULE CanRing_proofs ----------------------------
(***************************************************************************)
(* Proofs about CanRing for every size of the ring and any number of       *)
(* messages: of its indices for any interrupts, of its messages when no    *)
(* interrupt but the first of a call finds the ring full.                  *)
(***************************************************************************)
EXTENDS CanRing, Sequences, TLAPS

USE RingAssumption

LEMMA WrapDef == ASSUME NEW i \in 0 .. Size
                 PROVE  Wrap(i) = IF i = Size THEN 0 ELSE i
BY DEF Wrap

(* The next slot is one step nearer to whatever lies ahead of it.          *)
LEMMA DistRange == ASSUME NEW i \in Slots, NEW j \in Slots
                   PROVE  Dist(i, j) \in 0 .. Size - 1 /\ (Dist(i, j) = 0 <=> i = j)
BY DEF Dist, Slots

LEMMA DistFrom == ASSUME NEW i \in Slots, NEW j \in Slots, i # j
                  PROVE  Wrap(i + 1) \in Slots /\ Dist(Wrap(i + 1), j) = Dist(i, j) - 1
BY WrapDef DEF Dist, Slots

LEMMA DistTo == ASSUME NEW i \in Slots, NEW j \in Slots
                PROVE  /\ Wrap(j + 1) \in Slots
                       /\ Dist(i, Wrap(j + 1)) = IF Wrap(j + 1) = i THEN 0 ELSE Dist(i, j) + 1
BY WrapDef DEF Dist, Slots

LEMMA WrapBehind == ASSUME NEW i \in Slots, NEW j \in Slots, Wrap(i + 1) = j + 1
                    PROVE  i = j
BY WrapDef DEF Slots

LEMMA WrapSame == ASSUME NEW i \in Slots, NEW j \in Slots, Wrap(i + 1) = Wrap(j + 1)
                  PROVE  i = j
BY WrapDef DEF Slots

-----------------------------------------------------------------------------
(* The invariant, action by action.                                        *)

LEMMA InitRing == ASSUME Init PROVE RingInv
BY DEF Init, RingInv, TypeOK, IndexInv, ContentInv, CallInv, Waiting, First, Claimed, Dist, Slots

LEMMA FirstType == ASSUME TypeOK, IndexInv PROVE First \in Slots /\ Waiting \in 0 .. Size - 1
<1>1. First \in Slots
  BY WrapDef DEF TypeOK, IndexInv, First, Claimed, Mine, Slots
<1> QED
  BY <1>1, DistRange DEF TypeOK, Waiting

(* The caller commits itself to the oldest message.                        *)
LEMMA ClaimKeeps ==
  ASSUME RingInv, pc \in {"idle", "reload"}, Read # Write,
         pc' = "store", r' = Read, burst' \in {0, burst},
         UNCHANGED <<ring, index, got, arrived, last>>
  PROVE  RingInv'
<1> USE DEF RingInv, TypeOK, IndexInv, index
<1>1. Read \in Slots /\ Write \in Slots /\ First = Read /\ Waiting = Dist(Read, Write)
  BY DEF First, Claimed, Waiting
<1>2. Mine' = Read /\ Claimed'
  BY DEF Mine, Claimed
<1>3. First' = Wrap(Read + 1) /\ Waiting' = Waiting - 1
  BY <1>1, <1>2, DistFrom DEF First, Claimed, Waiting
<1>4. Waiting \in 1 .. Size - 1
  BY <1>1, DistRange
<1>5. ring[Read] = arrived + 1 - Waiting
  BY <1>1, <1>4 DEF ContentInv
<1>6. ContentInv'
  BY <1>3, <1>4, DistRange DEF ContentInv
<1>7. CallInv'
  BY <1>1, <1>2, <1>3, <1>4, <1>5 DEF CallInv
<1> QED
  BY <1>1, <1>2, <1>6, <1>7 DEF Slots

LEMMA TestKeeps == ASSUME RingInv, Test PROVE RingInv'
<1>1. CASE pc' = "reload"
  <2> USE <1>1 DEF RingInv, TypeOK, IndexInv, Test, Step, index
  <2>1. First' = First /\ Waiting' = Waiting
    BY DEF First, Claimed, Waiting
  <2> QED
    BY <2>1 DEF ContentInv, CallInv, Claimed
<1>2. CASE pc' = "store"
  BY <1>2, ClaimKeeps DEF Test, Step
<1> QED
  BY <1>1, <1>2 DEF Test, Step

LEMMA ReloadKeeps == ASSUME RingInv, Reload PROVE RingInv'
BY ClaimKeeps DEF Reload, Step, RingInv, IndexInv

(* The steps of a call after that leave what waits alone.                  *)
LEMMA SameWaiting ==
  ASSUME RingInv, First' = First, UNCHANGED <<ring, Write, arrived>>
  PROVE  Waiting' = Waiting /\ ContentInv'
BY DEF RingInv, ContentInv, Waiting

LEMMA IncrementKeeps == ASSUME RingInv, Increment PROVE RingInv'
<1> USE DEF RingInv, TypeOK, IndexInv, Increment, Step
<1>1. Claimed /\ Claimed' /\ Mine = r /\ Mine' = r /\ First' = First
  BY DEF Claimed, Mine, First
<1>2. CallInv'
  BY <1>1, SameWaiting DEF CallInv
<1> QED
  BY <1>1, <1>2, SameWaiting DEF Slots

LEMMA CopyKeeps ==
  ASSUME RingInv, CopyHalf(1, "copy1", "copy2") \/ CopyHalf(2, "copy2", "load")
  PROVE  RingInv'
<1> USE DEF RingInv, TypeOK, IndexInv, CopyHalf, Step, index
<1>1. Claimed /\ Claimed' /\ Mine = r /\ Mine' = r /\ First' = First
  BY DEF Claimed, Mine, First
<1>2. TypeOK'
  BY <1>1
<1>3. CallInv'
  BY <1>1, SameWaiting DEF CallInv
<1> QED
  BY <1>1, <1>2, <1>3, SameWaiting

LEMMA LoadReadKeeps == ASSUME RingInv, LoadRead PROVE RingInv'
<1> USE DEF RingInv, TypeOK, IndexInv, LoadRead, Step, index
<1>1. Claimed /\ Claimed' /\ Mine = r /\ Mine' = r /\ First' = First
  BY DEF Claimed, Mine, First, Slots
<1>2. CallInv'
  BY <1>1, SameWaiting DEF CallInv
<1> QED
  BY <1>1, <1>2, SameWaiting

LEMMA WrapReadKeeps == ASSUME RingInv, WrapRead PROVE RingInv'
<1> USE DEF RingInv, TypeOK, IndexInv, WrapRead, Step
<1>1. Claimed /\ ~Claimed' /\ Mine = r - 1 /\ r \in 0 .. Size
  BY DEF Claimed, Mine
<1>2. First' = First /\ First \in Slots /\ Read' = First
  BY <1>1, FirstType DEF First
<1>3. CallInv'
  BY <1>1, <1>2, SameWaiting DEF CallInv
<1> QED
  BY <1>1, <1>2, <1>3, SameWaiting DEF Slots

LEMMA ClearKeeps == ASSUME RingInv, LoadWrite \/ StoreRead PROVE RingInv'
<1> USE DEF RingInv, TypeOK, IndexInv, index
<1>1. CASE LoadWrite
  <2>1. First' = Write /\ Waiting' = 0 /\ ~Claimed'
    BY <1>1, DistRange DEF LoadWrite, Step, First, Claimed, Waiting
  <2>2. last <= arrived
    BY FirstType DEF CallInv
  <2> QED
    BY <1>1, <2>1, <2>2 DEF LoadWrite, Step, ContentInv, CallInv, Slots
<1>2. CASE StoreRead
  <2>1. First' = First /\ ~Claimed'
    BY <1>2 DEF StoreRead, Step, First, Claimed
  <2> QED
    BY <1>2, <2>1, SameWaiting DEF StoreRead, Step, CallInv, Slots
<1> QED
  BY <1>1, <1>2

(* Within a call, the first interrupt may find the ring full and drop the  *)
(* oldest message; a later one finds room.  In the loader no other comes;  *)
(* the application's thread is preempted for longer.                       *)
Calm == Interrupt => pc = "idle" \/ burst = 0 \/ Waiting < Size - 1

(* A slot is Size - 1 steps behind the one before it.                      *)
LEMMA DistFull == ASSUME NEW i \in Slots
                  PROVE  Wrap(i + 1) # i /\ Dist(Wrap(i + 1), i) = Size - 1
BY WrapDef DEF Dist, Slots

(* What waits grows by the message that comes, or stays a full ring.       *)
LEMMA InterruptWaiting ==
  ASSUME RingInv, Interrupt, Calm
  PROVE  /\ Waiting' \in 0 .. Waiting + 1
         /\ Claimed => First' = First /\ Mine' = Mine /\ Mine # Write
<1> USE DEF RingInv, TypeOK, IndexInv, Interrupt, caller
<1>1. Write \in Slots /\ Write' = Wrap(Write + 1) /\ First \in Slots
  BY FirstType
<1>2. CASE Claimed
  <2>1. First' = First /\ Mine' = Mine
    BY <1>2 DEF First, Mine, Claimed
  <2>2. Mine # Write
    <3>1. CASE burst = 0
      BY <1>2, <3>1 DEF CallInv
    <3>2. CASE Waiting < Size - 1
      <4>1. First = Wrap(Mine + 1) /\ Mine \in Slots
        BY <1>2 DEF First
      <4> QED
        BY <3>2, <4>1, DistFull DEF Waiting
    <3> QED
      BY <1>2, <3>1, <3>2 DEF Calm, Claimed
  <2> QED
    BY <1>1, <1>2, <2>1, <2>2, DistTo, DistRange DEF Waiting
<1>3. CASE pc = "clear"
  BY <1>1, <1>3, DistTo, DistRange DEF First, Claimed, Waiting
<1>4. CASE pc \in {"idle", "reload"}
  <2>1. First = Read /\ First' = Read' /\ ~Claimed /\ Read \in Slots
    BY <1>4 DEF First, Claimed
  <2>2. CASE Write' = Read
    <3>1. Waiting = Size - 1
      BY <1>1, <2>1, <2>2, DistFull DEF Waiting
    <3>2. Waiting' = Size - 1
      BY <1>1, <2>1, <2>2, DistFull DEF Waiting
    <3> QED
      BY <2>1, <3>1, <3>2
  <2>3. CASE Write' # Read
    BY <1>1, <2>1, <2>3, DistTo, DistRange DEF Waiting
  <2> QED
    BY <2>2, <2>3
<1> QED
  BY <1>2, <1>3, <1>4 DEF Claimed

LEMMA InterruptKeeps == ASSUME RingInv, Interrupt, Calm PROVE RingInv'
<1> USE DEF RingInv, TypeOK, Interrupt, caller
<1>1. Write \in Slots /\ Write' = Wrap(Write + 1) /\ Write' \in Slots
  BY DistTo
<1>2. TypeOK'
  <2>1. Read' \in 0 .. Size
    <3>1. CASE Write' = Read
      <4>1. Read' = Wrap(Read + 1) /\ Read \in Slots
        BY <1>1, <3>1
      <4>2. Read' \in Slots
        BY <4>1, DistTo
      <4> QED
        BY <4>2 DEF Slots
    <3>2. CASE Write' # Read
      BY <3>2
    <3> QED
      BY <3>1, <3>2
  <2>2. ring' \in [Slots -> Nat]
    BY <1>1
  <2> QED
    BY <1>1, <2>1, <2>2
<1>3. IndexInv'
  <2>1. CASE Write' # Read
    BY <1>1, <2>1 DEF IndexInv, Claimed, Mine
  <2>2. CASE Write' = Read
    <3>1. Read \in Slots /\ Read' = Wrap(Read + 1) /\ Read' \in Slots /\ Read' # Write'
      BY <1>1, <2>2, DistFull, DistTo
    <3>2. pc \notin {"copy1", "copy2", "load", "wrap"}
      <4> SUFFICES ASSUME pc \in {"copy1", "copy2", "load", "wrap"} PROVE FALSE
        OBVIOUS
      <4>1. Claimed /\ Mine # Write /\ Mine \in Slots /\ Read = Mine + 1
        BY InterruptWaiting DEF Claimed, IndexInv
      <4> QED
        BY <1>1, <2>2, <4>1, WrapBehind
    <3>3. pc = "store" => Read = r
      <4> SUFFICES ASSUME pc = "store", Read = Wrap(r + 1) PROVE FALSE
        BY DEF IndexInv
      <4>1. r \in Slots /\ r # Write
        BY InterruptWaiting DEF Claimed, Mine, IndexInv
      <4> QED
        BY <1>1, <2>2, <4>1, WrapSame
    <3> QED
      BY <3>1, <3>2, <3>3 DEF IndexInv, Claimed, Mine
  <2> QED
    BY <2>1, <2>2
<1>4. ContentInv'
  <2>1. Waiting' <= arrived'
    BY InterruptWaiting, FirstType DEF ContentInv, IndexInv
  <2> SUFFICES ASSUME NEW s \in Slots, Dist(s, Write)' \in 1 .. Waiting'
               PROVE  ring'[s] = arrived' + 1 - Dist(s, Write)'
    BY <2>1 DEF ContentInv
  <2>2. CASE s = Write
    <3>1. Dist(s, Write)' = 1
      BY <1>1, <2>2, DistTo, DistFull, DistRange DEF Dist
    <3> QED
      BY <2>2, <3>1
  <2>3. CASE s # Write
    <3>1. Dist(s, Write)' = Dist(s, Write) + 1
      BY <1>1, DistTo, DistRange DEF Dist
    <3>2. Dist(s, Write) \in 1 .. Waiting
      BY <1>1, <2>3, <3>1, FirstType, InterruptWaiting, DistRange
    <3> QED
      BY <2>3, <3>1, <3>2 DEF ContentInv
  <2> QED
    BY <2>2, <2>3
<1>5. CallInv'
  <2>1. last + Waiting' <= arrived'
    BY FirstType, InterruptWaiting, <1>2, <1>3 DEF CallInv
  <2>2. ASSUME Claimed
        PROVE  ring'[Mine'] = ring[Mine] /\ Claimed' /\ burst' # 0 /\ Mine \in Slots
    BY <2>2, InterruptWaiting DEF Claimed, IndexInv
  <2>3. CASE ~Claimed
    BY <2>1, <2>3 DEF CallInv, Claimed
  <2>4. CASE Claimed
    <3>1. Mine' = Mine /\ ring'[Mine'] = ring[Mine]
      BY <2>2, <2>4, InterruptWaiting
    <3>2. ring[Mine] \in Nat /\ ring[Mine] + Waiting' <= arrived'
      BY <2>2, <2>4, <1>4, InterruptWaiting, FirstType DEF CallInv, IndexInv
    <3> QED
      BY <2>1, <2>2, <2>4, <3>1, <3>2 DEF CallInv, Claimed
  <2> QED
    BY <2>3, <2>4
<1> QED
  BY <1>2, <1>3, <1>4, <1>5

LEMMA StepKeeps == ASSUME RingInv, [Next]_vars, [Calm]_vars PROVE RingInv'
<1>1. CASE Recv
  BY <1>1, TestKeeps, ReloadKeeps, IncrementKeeps, CopyKeeps, LoadReadKeeps, WrapReadKeeps DEF Recv
<1>2. CASE LoadWrite \/ StoreRead
  BY <1>2, ClearKeeps
<1>3. CASE Interrupt
  <2>1. Calm
    BY <1>3 DEF Interrupt, Calm, vars, RingInv, TypeOK
  <2> QED
    BY <1>3, <2>1, InterruptKeeps
<1>4. CASE UNCHANGED vars
  BY <1>4 DEF vars, index, caller, RingInv, TypeOK, IndexInv, ContentInv, CallInv,
              Waiting, First, Claimed, Mine
<1> QED
  BY <1>1, <1>2, <1>3, <1>4 DEF Next

-----------------------------------------------------------------------------
(* One interrupt at most within a call is the first.                       *)
LEMMA OneIsCalm == ASSUME MaxBurst <= 1, RingInv PROVE Calm
BY DEF Calm, Interrupt, RingInv, TypeOK

(* The indices stay in range, what waits is the latest messages in order,  *)
(* and no slot is written while a call copies it, for every size of the    *)
(* ring, if after the first interrupt of a call no other finds the ring    *)
(* full, however many there are (drv_can.c 208-246, 341-364).              *)
THEOREM RingInvariantCalm == Spec /\ [][Calm]_vars => []RingInv
<1>1. Init => RingInv
  BY InitRing
<1>2. RingInv /\ [Next]_vars /\ [Calm]_vars => RingInv'
  BY StepKeeps
<1> QED
  BY <1>1, <1>2, PTL DEF Spec

(* In particular when one interrupt at most falls within a call, as in the *)
(* loader.                                                                 *)
THEOREM RingInvariant == ASSUME MaxBurst <= 1 PROVE Spec => []RingInv
<1>1. Init => RingInv
  BY InitRing
<1>2. RingInv /\ [Next]_vars => RingInv'
  BY StepKeeps, OneIsCalm
<1> QED
  BY <1>1, <1>2, PTL DEF Spec

LEMMA CalmFromOne == ASSUME MaxBurst <= 1 PROVE Spec => [][Calm]_vars
<1>1. RingInv => Calm
  BY OneIsCalm
<1> QED
  BY <1>1, RingInvariant, PTL

(* Then stm32_CAN_recv hands out whole messages in the order they came     *)
(* (drv_can.c 215-221), in the application too.                            *)
THEOREM CalmHandsOutInOrder == Spec /\ [][Calm]_vars => []InOrder
<1>1. RingInv => InOrder
  BY DEF RingInv, CallInv, Claimed, InOrder, WholeMessage
<1> QED
  BY <1>1, RingInvariantCalm, PTL

(* The same for the loader's interrupts.                                   *)
THEOREM HandsOutInOrder == ASSUME MaxBurst <= 1 PROVE Spec => []InOrder
<1> QED
  BY CalmFromOne, CalmHandsOutInOrder, PTL

-----------------------------------------------------------------------------
(* The ring implements the queue.                                          *)

LEMMA WrapTwice == ASSUME NEW i \in 0 .. 2 * Size - 1
                   PROVE  Wrap(i) = IF i < Size THEN i ELSE i - Size
BY DEF Wrap

(* n messages in a row, the first of them number b + 1.                    *)
Row(b, n) == [j \in 1 .. n |-> b + j]

LEMMA RowFacts ==
  ASSUME NEW n \in Nat, NEW b \in Nat
  PROVE  /\ Len(Row(b, n)) = n /\ (n = 0 <=> Row(b, n) = << >>)
         /\ n > 0 => Head(Row(b, n)) = b + 1 /\ Tail(Row(b, n)) = Row(b + 1, n - 1)
         /\ Append(Row(b, n), b + n + 1) = Row(b, n + 1)
<1>1. Row(b, n) \in Seq(Nat) /\ Len(Row(b, n)) = n /\ (n = 0 <=> Row(b, n) = << >>)
  BY DEF Row
<1>2. n > 0 => Head(Row(b, n)) = b + 1
  BY <1>1 DEF Row
<1>3. n > 0 => Tail(Row(b, n)) = Row(b + 1, n - 1)
  BY <1>1 DEF Row
<1>4. Append(Row(b, n), b + n + 1) = Row(b, n + 1)
  BY <1>1 DEF Row
<1> QED
  BY <1>1, <1>2, <1>3, <1>4

(* The queue holds the latest messages.                                    *)
QueueInv == /\ Waiting \in 0 .. Size - 1
            /\ arrived \in Nat /\ Waiting <= arrived
            /\ Queue = Row(arrived - Waiting, Waiting)

LEMMA QueueNow == RingInv => QueueInv
<1> SUFFICES ASSUME RingInv PROVE QueueInv
  OBVIOUS
<1>1. First \in Slots /\ Write \in Slots /\ Waiting \in 0 .. Size - 1
  BY FirstType DEF RingInv, TypeOK
<1>2. ASSUME NEW j \in 1 .. Waiting
      PROVE  ring[Wrap(First + j - 1)] = arrived - Waiting + j
  <2>1. /\ Wrap(First + j - 1) \in Slots
        /\ Dist(Wrap(First + j - 1), Write) = Waiting + 1 - j
    BY <1>1, WrapTwice DEF Waiting, Dist, Slots
  <2> QED
    BY <1>1, <2>1 DEF RingInv, TypeOK, ContentInv
<1> QED
  BY <1>1, <1>2 DEF Queue, QueueInv, Row, RingInv, TypeOK, ContentInv

LEMMA QueueNext == RingInv' => QueueInv'
BY QueueNow, PTL

Taken == IF Claimed THEN ring[Mine] ELSE last

(* A step that keeps what waits and what was taken is no step of the queue.*)
LEMMA Stutter ==
  ASSUME QueueInv, QueueInv', Waiting' = Waiting, Taken' = Taken, arrived' = arrived
  PROVE  UNCHANGED Abstract!vars
<1>1. Queue' = Queue
  BY DEF QueueInv
<1> QED
  BY <1>1 DEF Abstract!vars, Taken

(* The call takes its message when it commits itself to it.                *)
LEMMA ClaimTakes ==
  ASSUME RingInv, QueueInv, QueueInv', pc \in {"idle", "reload"}, Read # Write,
         pc' = "store", r' = Read, UNCHANGED <<ring, Read, Write, arrived>>
  PROVE  Abstract!Take
<1>1. Read \in Slots /\ Write \in Slots /\ First = Read /\ ~Claimed
  BY DEF RingInv, TypeOK, IndexInv, First, Claimed
<1>2. Claimed' /\ Mine' = Read /\ First' = Wrap(Read + 1) /\ ring' = ring /\ arrived' = arrived
  BY DEF Claimed, Mine, First
<1>3. Waiting \in 1 .. Size - 1 /\ Waiting' = Waiting - 1 /\ Waiting = Dist(Read, Write)
  BY <1>1, <1>2, DistFrom, DistRange DEF Waiting
<1>4. ring[Read] = arrived + 1 - Waiting
  BY <1>1, <1>3 DEF RingInv, ContentInv
<1>5. arrived - Waiting \in Nat /\ Waiting \in Nat /\ Waiting > 0
  BY <1>3 DEF QueueInv
<1> DEFINE b == arrived - Waiting
<1>6. /\ b \in Nat /\ ring[Read] = b + 1 /\ Queue = Row(b, Waiting)
      /\ Queue' = Row(b + 1, Waiting - 1)
  <2>1. arrived' - Waiting' = b + 1
    BY <1>2, <1>3 DEF QueueInv
  <2> QED
    BY <1>3, <1>4, <1>5, <2>1 DEF QueueInv
<1> HIDE DEF b
<1>7. Queue # << >> /\ Head(Queue) = ring[Read] /\ Queue' = Tail(Queue)
  <2>1. Waiting # 0
    BY <1>5
  <2> QED
    BY <1>5, <1>6, <2>1, RowFacts, Zenon
<1> QED
  BY <1>1, <1>2, <1>7 DEF Abstract!Take

(* What waits grows with every message until the ring is full.             *)
LEMMA InterruptGrows ==
  ASSUME RingInv, QueueInv, QueueInv', Interrupt, Calm
  PROVE  /\ Taken' = Taken
         /\ Waiting' = IF Waiting = Size - 1 THEN Waiting ELSE Waiting + 1
<1>1. Taken' = Taken
  <2>1. CASE Claimed
    BY <2>1, InterruptWaiting DEF Interrupt, Taken, Claimed, caller, RingInv, TypeOK, IndexInv
  <2>2. CASE ~Claimed
    BY <2>2 DEF Interrupt, Taken, Claimed, caller
  <2> QED
    BY <2>1, <2>2
<1>2. Waiting' = IF Waiting = Size - 1 THEN Waiting ELSE Waiting + 1
  <2> USE DEF RingInv, TypeOK, IndexInv, Interrupt, caller
  <2>1. Write \in Slots /\ Write' = Wrap(Write + 1) /\ First \in Slots
    BY FirstType
  <2>2. CASE Claimed
    <3>1. First' = First /\ Mine # Write /\ First = Wrap(Mine + 1) /\ Mine \in Slots
      BY <2>2, InterruptWaiting DEF First
    <3>2. Waiting = Dist(Mine, Write) - 1 /\ Dist(Mine, Write) \in 1 .. Size - 1
      BY <2>1, <3>1, DistFrom, DistRange DEF Waiting
    <3>3. Wrap(Write + 1) # First
      <4>1. Mine # Write /\ Wrap(Mine + 1) = IF Mine + 1 = Size THEN 0 ELSE Mine + 1
        BY <3>1, WrapDef DEF Slots
      <4>2. Wrap(Write + 1) = IF Write + 1 = Size THEN 0 ELSE Write + 1
        BY <2>1, WrapDef DEF Slots
      <4> QED
        BY <2>1, <3>1, <4>1, <4>2 DEF Slots
    <3> QED
      BY <2>1, <3>1, <3>2, <3>3, DistTo DEF Waiting
  <2>3. CASE pc = "clear"
    <3>1. First' = First /\ (First = Write \/ Waiting < Size - 1)
      BY <2>3 DEF First, Claimed, Calm
    <3>2. Wrap(Write + 1) # First
      BY <2>1, <3>1, DistFull DEF Waiting
    <3>3. Waiting' = Waiting + 1
      BY <2>1, <3>1, <3>2, DistTo DEF Waiting
    <3> QED
      BY <3>3 DEF QueueInv
  <2>4. CASE pc \in {"idle", "reload"}
    <3>1. First = Read /\ First' = Read' /\ Read \in Slots
      BY <2>4 DEF First, Claimed
    <3>2. CASE Write' = Read
      BY <2>1, <3>1, <3>2, DistFull DEF Waiting
    <3>3. CASE Write' # Read
      <4>1. Waiting' = Waiting + 1
        BY <2>1, <3>1, <3>3, DistTo DEF Waiting
      <4>2. Waiting \in Nat /\ Waiting' <= Size - 1
        BY DEF QueueInv
      <4> QED
        BY <4>1, <4>2
    <3> QED
      BY <3>2, <3>3
  <2> QED
    BY <2>2, <2>3, <2>4 DEF Claimed
<1> QED
  BY <1>1, <1>2

(* The interrupt adds its message, after the oldest has gone if the ring   *)
(* is full.                                                                *)
LEMMA InterruptArrives ==
  ASSUME RingInv, QueueInv, QueueInv', Interrupt, Calm
  PROVE  Abstract!Arrive
<1>1. arrived' = arrived + 1 /\ arrived - Waiting \in Nat /\ Waiting \in Nat
  BY DEF Interrupt, QueueInv
<1>2. Taken' = Taken
  BY InterruptGrows
<1>3. Waiting' = IF Waiting = Size - 1 THEN Waiting ELSE Waiting + 1
  BY InterruptGrows
<1> DEFINE b == arrived - Waiting
           n == Waiting
<1>4. b \in Nat /\ n \in Nat /\ arrived' = b + n + 1 /\ Queue = Row(b, n)
  BY <1>1 DEF QueueInv
<1>5. Queue' = IF n = Size - 1 THEN Row(b + 1, n) ELSE Row(b, n + 1)
  <2>1. arrived' - Waiting' = IF n = Size - 1 THEN b + 1 ELSE b
    BY <1>1, <1>3 DEF QueueInv
  <2> QED
    BY <1>3, <2>1 DEF QueueInv
<1> HIDE DEF b, n
<1>6. Len(Queue) = n
  BY <1>4, RowFacts
<1>7. CASE n # Size - 1
  <2>1. Queue' = Append(Queue, arrived')
    BY <1>4, <1>5, <1>7, RowFacts
  <2> QED
    BY <1>1, <1>2, <1>6, <1>7, <2>1 DEF Abstract!Arrive, Abstract!Room, Taken
<1>8. CASE n = Size - 1
  <2> DEFINE c == b + 1
             m == n - 1
  <2>1. c \in Nat /\ m \in Nat /\ arrived' = c + m + 1 /\ n = m + 1
    BY <1>4, <1>8
  <2>2. Tail(Queue) = Row(c, m)
    <3>1. n > 0
      BY <1>8
    <3> QED
      BY <1>4, <3>1, RowFacts, Zenon
  <2>3. Queue' = Row(c, m + 1)
    BY <1>5, <1>8, <2>1
  <2> HIDE DEF c, m
  <2>4. Queue' = Append(Tail(Queue), arrived')
    BY <2>1, <2>2, <2>3, RowFacts
  <2> QED
    BY <1>1, <1>2, <1>6, <1>8, <2>4 DEF Abstract!Arrive, Abstract!Room, Taken
<1> QED
  BY <1>7, <1>8

(* The steps of a call around the one that takes the message.              *)
LEMMA CallKeeps ==
  ASSUME RingInv,
         \/ Increment \/ LoadRead \/ WrapRead \/ StoreRead
         \/ CopyHalf(1, "copy1", "copy2") \/ CopyHalf(2, "copy2", "load")
  PROVE  Waiting' = Waiting /\ Taken' = Taken /\ arrived' = arrived
<1> USE DEF RingInv, TypeOK, IndexInv, index
<1>1. CASE Increment \/ LoadRead \/ CopyHalf(1, "copy1", "copy2") \/ CopyHalf(2, "copy2", "load")
  <2>1. Claimed /\ Claimed' /\ Mine' = Mine
    <3>1. CASE LoadRead
      BY <3>1 DEF LoadRead, Step, Claimed, Mine, Slots
    <3>2. CASE Increment
      BY <3>2 DEF Increment, Step, Claimed, Mine
    <3>3. CASE CopyHalf(1, "copy1", "copy2") \/ CopyHalf(2, "copy2", "load")
      BY <3>3 DEF CopyHalf, Step, Claimed, Mine
    <3> QED
      BY <1>1, <3>1, <3>2, <3>3
  <2>2. ring' = ring /\ Write' = Write /\ arrived' = arrived /\ First' = First
    BY <1>1, <2>1 DEF Increment, LoadRead, CopyHalf, First
  <2> QED
    BY <2>1, <2>2 DEF Taken, Waiting
<1>2. CASE WrapRead
  <2>1. Claimed /\ ~Claimed' /\ Mine = r - 1 /\ last' = ring[Mine]
    BY <1>2 DEF WrapRead, Step, Claimed, Mine, CallInv
  <2>2. ring' = ring /\ Write' = Write /\ arrived' = arrived /\ First' = First
    BY <1>2, <2>1 DEF WrapRead, Step, First
  <2> QED
    BY <2>1, <2>2 DEF Taken, Waiting
<1>3. CASE StoreRead
  <2>1. ~Claimed /\ ~Claimed' /\ last' = last
    BY <1>3 DEF StoreRead, Step, Claimed
  <2>2. ring' = ring /\ Write' = Write /\ arrived' = arrived /\ First' = First
    BY <1>3, <2>1 DEF StoreRead, Step, First
  <2> QED
    BY <2>1, <2>2 DEF Taken, Waiting
<1> QED
  BY <1>1, <1>2, <1>3

LEMMA CallStutters ==
  ASSUME RingInv, QueueInv, QueueInv',
         \/ Increment \/ LoadRead \/ WrapRead \/ StoreRead
         \/ CopyHalf(1, "copy1", "copy2") \/ CopyHalf(2, "copy2", "load")
  PROVE  UNCHANGED Abstract!vars
BY CallKeeps, Stutter

LEMMA TestTakes ==
  ASSUME RingInv, QueueInv, QueueInv', Test \/ Reload
  PROVE  Abstract!Take \/ UNCHANGED Abstract!vars
<1>1. CASE pc' = "store"
  BY <1>1, ClaimTakes DEF Test, Reload, Step, index, RingInv, IndexInv
<1>2. CASE pc' = "reload"
  <2>1. First' = Read /\ First = Read /\ ~Claimed /\ ~Claimed'
    BY <1>2 DEF Test, Reload, Step, index, First, Claimed
  <2> QED
    BY <1>2, <2>1, Stutter DEF Test, Reload, Step, index, Taken, Waiting
<1> QED
  BY <1>1, <1>2 DEF Test, Reload, Step

LEMMA ClearDiscards ==
  ASSUME RingInv, QueueInv', LoadWrite
  PROVE  Abstract!Discard
<1>1. First' = Write /\ Write' = Write /\ Waiting' = 0 /\ ~Claimed /\ ~Claimed'
  BY DistRange DEF LoadWrite, Step, index, First, Claimed, Waiting, RingInv, TypeOK
<1>2. Queue' = << >>
  <2>1. Queue' = Row(arrived', 0) /\ arrived' \in Nat
    BY <1>1 DEF QueueInv
  <2> QED
    BY <2>1, RowFacts
<1> QED
  BY <1>1, <1>2 DEF LoadWrite, Abstract!Discard

LEMMA StepImplements ==
  ASSUME RingInv, RingInv', QueueInv, QueueInv', [Next]_vars, [Calm]_vars
  PROVE  [Abstract!Next]_Abstract!vars
<1>1. CASE Test \/ Reload
  BY <1>1, TestTakes DEF Abstract!Next
<1>2. CASE Increment \/ LoadRead \/ WrapRead \/ StoreRead
           \/ CopyHalf(1, "copy1", "copy2") \/ CopyHalf(2, "copy2", "load")
  BY <1>2, CallStutters
<1>3. CASE LoadWrite
  BY <1>3, ClearDiscards DEF Abstract!Next
<1>4. CASE Interrupt
  <2>1. Calm
    BY <1>4 DEF Interrupt, Calm, vars, RingInv, TypeOK
  <2> QED
    BY <1>4, <2>1, InterruptArrives DEF Abstract!Next
<1>5. CASE UNCHANGED vars
  BY <1>5, Stutter DEF vars, index, caller, Waiting, First, Claimed, Mine, Taken
<1> QED
  BY <1>1, <1>2, <1>3, <1>4, <1>5 DEF Next, Recv

LEMMA InitImplements == Init => Abstract!Init
<1> SUFFICES ASSUME Init PROVE Abstract!Init
  OBVIOUS
<1>1. QueueInv /\ Waiting = 0 /\ ~Claimed
  BY InitRing, QueueNow DEF Init, Waiting, First, Claimed, Dist
<1> QED
  BY <1>1, RowFacts DEF Init, QueueInv, Abstract!Init

(* The ring is a queue of Size - 1 messages that loses its oldest message  *)
(* only when it is full (drv_can.c 354-362).                               *)
THEOREM CalmRingImplementsQueue == Spec /\ [][Calm]_vars => ImplementsQueue
<1>1. RingInv /\ RingInv' /\ [Next]_vars /\ [Calm]_vars => [Abstract!Next]_Abstract!vars
  <2>1. RingInv => QueueInv
    BY QueueNow
  <2>2. RingInv' => QueueInv'
    BY QueueNext
  <2> QED
    BY <2>1, <2>2, StepImplements
<1> QED
  BY <1>1, InitImplements, RingInvariantCalm, PTL DEF Spec, ImplementsQueue, Abstract!Spec

(* The same for the loader's interrupts.                                   *)
THEOREM RingImplementsQueue == ASSUME MaxBurst <= 1 PROVE Spec => ImplementsQueue
<1> QED
  BY CalmFromOne, CalmRingImplementsQueue, PTL

-----------------------------------------------------------------------------
(* Nothing is lost.                                                        *)

(* What has been taken and what waits are all that came.                   *)
NoneMissing == Taken + Waiting = arrived

(* The interrupt never finds the ring full.                                *)
NeverFull == Interrupt => Waiting < Size - 1

LEMMA NoneGoesMissing ==
  ASSUME RingInv, RingInv', NoneMissing, [Next]_vars, [NeverFull]_vars, [~LoadWrite]_vars
  PROVE  NoneMissing'
<1>1. QueueInv /\ QueueInv' /\ [Calm]_vars
  BY QueueNow, QueueNext DEF NeverFull, Calm
<1>2. Taken \in Nat
  BY DEF Taken, RingInv, TypeOK, IndexInv
<1>3. CASE Interrupt
  <2>1. Calm /\ Waiting < Size - 1
    BY <1>3 DEF Interrupt, NeverFull, Calm, vars, RingInv, TypeOK
  <2>2. arrived' = arrived + 1 /\ Waiting' = Waiting + 1 /\ Taken' = Taken
    BY <1>1, <1>3, <2>1, InterruptGrows DEF Interrupt, QueueInv
  <2> QED
    BY <1>1, <1>2, <2>2 DEF NoneMissing, QueueInv
<1>4. CASE Test \/ Reload
  <2>1. CASE pc' = "store"
    <3>1. pc \in {"idle", "reload"} /\ Read # Write /\ r' = Read
      BY <1>4, <2>1 DEF Test, Reload, Step, RingInv, IndexInv
    <3>2. ring' = ring /\ Read' = Read /\ Write' = Write /\ arrived' = arrived
      BY <1>4 DEF Test, Reload, index
    <3>3. Read \in Slots /\ Write \in Slots /\ First = Read
      BY <3>1 DEF RingInv, TypeOK, IndexInv, First, Claimed
    <3>4. Taken' = ring[Read] /\ First' = Wrap(Read + 1)
      BY <2>1, <3>1, <3>2 DEF Taken, Claimed, Mine, First
    <3>5. Waiting \in 1 .. Size - 1 /\ Waiting' = Waiting - 1 /\ Waiting = Dist(Read, Write)
      BY <3>1, <3>2, <3>3, <3>4, DistFrom, DistRange DEF Waiting
    <3>6. ring[Read] = arrived + 1 - Waiting
      BY <3>3, <3>5 DEF RingInv, ContentInv
    <3> QED
      BY <1>1, <3>2, <3>4, <3>5, <3>6 DEF NoneMissing, QueueInv
  <2>2. CASE pc' = "reload"
    BY <1>4, <2>2 DEF Test, Reload, Step, index, First, Claimed, Taken, Waiting, NoneMissing
  <2> QED
    BY <1>4, <2>1, <2>2 DEF Test, Reload, Step
<1>5. CASE \/ Increment \/ LoadRead \/ WrapRead \/ StoreRead
           \/ CopyHalf(1, "copy1", "copy2") \/ CopyHalf(2, "copy2", "load")
  BY <1>1, <1>5, CallKeeps DEF NoneMissing
<1>6. CASE LoadWrite
  <2>1. UNCHANGED vars
    BY <1>6
  <2> QED
    BY <1>6, <2>1 DEF LoadWrite, Step, vars, caller
<1>7. CASE UNCHANGED vars
  BY <1>7 DEF vars, index, caller, Waiting, First, Claimed, Mine, Taken, NoneMissing
<1> QED
  BY <1>3, <1>4, <1>5, <1>6, <1>7 DEF Next, Recv

(* As long as the interrupt finds room and the caller does not clear the   *)
(* ring, every message that came is handed out or waits: none goes missing *)
(* between the increment, the copy and the wrap of the index, however many *)
(* interrupts fall between them (drv_can.c 215-221, 354-362).              *)
THEOREM EveryMessageIsTaken ==
  Spec /\ [][NeverFull]_vars /\ [][~LoadWrite]_vars => []NoneMissing
<1>1. Init => NoneMissing
  BY DEF Init, NoneMissing, Taken, Claimed, Waiting, First, Dist
<1>2. [NeverFull]_vars => [Calm]_vars
  BY DEF NeverFull, Calm
<1>3. RingInv /\ RingInv' /\ NoneMissing /\ [Next]_vars /\ [NeverFull]_vars /\ [~LoadWrite]_vars
        => NoneMissing'
  BY NoneGoesMissing
<1> QED
  BY <1>1, <1>2, <1>3, RingInvariantCalm, PTL DEF Spec

-----------------------------------------------------------------------------
(* Any interrupts.                                                         *)

IndicesInRange == /\ Write \in Slots
                  /\ pc \in {"idle", "reload", "clear"} => Read \in Slots
                  /\ pc \in {"store", "copy1", "copy2", "clear"} => r \in Slots

(* However many interrupts fall between any two accesses of a call, and    *)
(* though the index they share is then one past the end and they move it   *)
(* themselves, no access leaves the array: the interrupt stores at Write,  *)
(* the call copies from its register, and between calls the read index is  *)
(* a slot (drv_can.c 208-246, 341-364).                                    *)
THEOREM IndicesStay == Spec => [](TypeOK /\ IndicesInRange)
<1> DEFINE Inv == TypeOK /\ IndicesInRange
<1>1. Init => Inv
  BY DEF Init, TypeOK, IndicesInRange, Slots
<1>2. Inv /\ [Next]_vars => Inv'
  <2> SUFFICES ASSUME TypeOK, IndicesInRange, [Next]_vars PROVE TypeOK' /\ IndicesInRange'
    OBVIOUS
  <2>0. \A x : x \in Slots <=> x \in 0 .. Size /\ x # Size
    BY DEF Slots
  <2> USE DEF TypeOK, IndicesInRange
  <2>1. CASE Recv
    <3>1. CASE Test \/ Reload
      BY <2>0, <3>1 DEF Test, Reload, Step, index
    <3>2. CASE Increment
      <4>1. r + 1 \in 0 .. Size
        BY <3>2 DEF Increment, Step, Slots
      <4> QED
        BY <3>2, <4>1 DEF Increment, Step, index
    <3>5. CASE LoadRead
      BY <3>5 DEF LoadRead, Step, index
    <3>3. ASSUME NEW h \in {1, 2}, NEW from \in {"copy1", "copy2"}, NEW to \in {"copy2", "load"},
                 CopyHalf(h, from, to)
          PROVE  TypeOK' /\ IndicesInRange'
      BY <3>3 DEF CopyHalf, Step, index
    <3>4. CASE WrapRead
      <4>1. Wrap(r) \in Slots
        BY WrapDef DEF Slots
      <4> QED
        BY <2>0, <3>4, <4>1 DEF WrapRead, Step, index
    <3> QED
      BY <2>1, <3>1, <3>2, <3>3, <3>4, <3>5 DEF Recv
  <2>2. CASE LoadWrite \/ StoreRead
    BY <2>0, <2>2 DEF LoadWrite, StoreRead, Step, index
  <2>3. CASE Interrupt
    <3>1. Wrap(Write + 1) \in Slots
      BY DistTo
    <3>2. Read \in Slots => Wrap(Read + 1) \in Slots
      BY DistTo
    <3>3. ring' \in [Slots -> Nat] /\ Write' \in Slots
      BY <2>3, <3>1 DEF Interrupt
    <3>4. Read' = Read \/ Read' \in Slots
      <4>1. Read' = Read \/ (Write' = Read /\ Read' = Wrap(Read + 1))
        BY <2>3 DEF Interrupt
      <4> QED
        BY <3>2, <3>3, <4>1
    <3>5. UNCHANGED <<pc, r, got, last>> /\ burst' \in Nat /\ arrived' \in Nat
      BY <2>3 DEF Interrupt, caller
    <3>6. TypeOK'
      BY <2>0, <3>3, <3>4, <3>5
    <3>7. IndicesInRange'
      BY <3>3, <3>4, <3>5
    <3> QED
      BY <3>6, <3>7
  <2>4. CASE UNCHANGED vars
    BY <2>4 DEF vars, index, caller
  <2> QED
    BY <2>1, <2>2, <2>3, <2>4 DEF Next
<1> QED
  BY <1>1, <1>2, PTL DEF Spec
=============================================================================

--------------------------- MODULE Identity_proofs ---------------------------
(***************************************************************************)
(* Proofs about Identity for any devices and identifiers: the host knows   *)
(* who may answer to an identifier, and no two devices answer to one.      *)
(*                                                                         *)
(* What a device holds stays within what the host knows of it (Own), and   *)
(* what the host knows of two devices stays apart (Disjoint).  The rest of *)
(* Own says why a device's steps keep that: a page that is not whole is    *)
(* blank, a device that saves may be blank, an application at work is not; *)
(* Acking and InFlight say that a command under way and an acknowledgement *)
(* do not meet, and that the command gives nothing the host did not note.  *)
(***************************************************************************)
EXTENDS Identity, TLAPS

USE IdAssumption

Mine(d) == may[d] \union {Board[d]}

Own(d) ==
  /\ Holds(d) \subseteq Mine(d)
  /\ page[d].words < 3 => page[d].id = Blank
  /\ pc[d] = "program" /\ page[d].words = 3 => page[d].id = ram[d].id
  /\ pc[d] \in {"erase", "program"} => Blank \in may[d]
  /\ then[d] = "ack" => pc[d] \in {"erase", "program"}
  /\ prog[d] = "app" /\ pc[d] \in {"run", "erase", "program"}
       => ram[d].id # Blank \/ (pc[d] # "run" /\ then[d] = "load")

Disjoint == \A d, e \in Devices : d # e => Mine(d) \cap Mine(e) \subseteq {Blank}

Acking == cmd # None =>
  \A d \in Devices : then[d] = "ack" => cmd.op = "save" /\ d \notin todo

InFlight == cmd # None =>
  /\ cmd.op = "set" => cmd.id \in Mine(cmd.uuid)
  /\ cmd.op = "write" => \A d \in Devices : Holder(d, cmd.to) => cmd.id \in Mine(d)
  /\ cmd.op \in {"save", "default"} =>
       \A d \in todo : Listens(d, cmd.to) => Blank \in may[d]

IInv == TypeOK /\ (\A d \in Devices : Own(d)) /\ Disjoint /\ Acking /\ InFlight

LEMMA InitHolds == Init => IInv
<1> SUFFICES ASSUME Init PROVE IInv
  OBVIOUS
<1> USE DEF Init, Erased, Default
<1>1. TypeOK
  BY DEF TypeOK, AnyID, Record
<1>2. \A d \in Devices : Own(d)
  BY DEF Own, Holds, Mine
<1>3. Disjoint
  BY DEF Disjoint, Mine
<1> QED
  BY <1>1, <1>2, <1>3 DEF IInv, Acking, InFlight

-----------------------------------------------------------------------------
(* Steps of one device.                                                    *)

Alone(d) == \A e \in Devices \ {d} :
  /\ prog'[e] = prog[e] /\ pc'[e] = pc[e] /\ then'[e] = then[e]
  /\ page'[e] = page[e] /\ ram'[e] = ram[e]

(* A step of one device that keeps its part keeps the whole.               *)
LEMMA DeviceStep ==
  ASSUME IInv, TypeOK', NEW d \in Devices, Alone(d), Own(d)', UNCHANGED <<bus, may>>,
         then'[d] = "ack" => then[d] = "ack"
  PROVE  IInv'
<1> USE DEF IInv, bus
<1>1. ASSUME NEW e \in Devices PROVE Own(e)'
  <2>1. CASE e = d
    BY <2>1
  <2>2. CASE e # d
    BY <2>2, Own(e) DEF Alone, Own, Holds, Mine
  <2> QED
    BY <2>1, <2>2
<1>2. Disjoint' /\ InFlight'
  BY DEF Disjoint, InFlight, Mine, Holder, Listens
<1>3. Acking'
  BY DEF Acking, Alone
<1> QED
  BY <1>1, <1>2, <1>3

LEMMA PowerOnKeeps == ASSUME IInv, NEW d \in Devices, PowerOn(d) PROVE IInv'
<1> USE DEF IInv, PowerOn, Set
<1>1. TypeOK'
  BY DEF TypeOK, bus
<1>2. Alone(d) /\ then' = then
  BY DEF Alone, TypeOK
<1>3. Own(d)'
  BY Own(d) DEF Own, Holds, Mine, TypeOK
<1> QED
  BY <1>1, <1>2, <1>3, DeviceStep

LEMMA PowerLossKeeps == ASSUME IInv, NEW d \in Devices, PowerLoss(d) PROVE IInv'
<1> USE DEF IInv, PowerLoss, Halt, Set
<1>1. TypeOK'
  <2>1. Default \in Record /\ Erased \in [words : 0 .. 3, whole : BOOLEAN, id : AnyID]
    BY DEF Erased, Default, Record, AnyID
  <2>2. page' \in [Devices -> [words : 0 .. 3, whole : BOOLEAN, id : AnyID]]
    BY <2>1 DEF TypeOK
  <2> QED
    BY <2>1, <2>2 DEF TypeOK, bus
<1>2. Alone(d) /\ then'[d] # "ack"
  BY DEF Alone, TypeOK
<1>3. Own(d)'
  BY Own(d) DEF Own, Holds, Mine, TypeOK, Erased
<1> QED
  BY <1>1, <1>2, <1>3, DeviceStep

LEMMA Overrides ==
  ASSUME TypeOK, NEW d \in Devices, NEW r \in Record
  PROVE  /\ Started(d, r) \in Record
         /\ Started(d, r).id = IF prog[d] = "app" THEN Board[d] ELSE r.id
BY DEF Started, TypeOK, Record, AnyID

LEMMA LoadKeeps == ASSUME IInv, NEW d \in Devices, Load(d) PROVE IInv'
<1> USE DEF IInv, Load, StartSave, Set
<1>0. /\ ReadBack(page[d]) \in Record /\ ReadBack(page[d]).id = page[d].id
      /\ Default \in Record /\ Default.id = Blank
  BY DEF TypeOK, Record, ReadBack, Default, AnyID
<1>1. TypeOK'
  <2>1. Started(d, ReadBack(page[d])) \in Record
    BY <1>0, Overrides
  <2>2. \E r \in Record : ram' = [ram EXCEPT ![d] = r]
    BY <1>0, <2>1
  <2>3. ram' \in [Devices -> Record]
    BY <2>2 DEF TypeOK
  <2>4. pc' \in [Devices -> {"off", "load", "erase", "program", "run"}]
    BY DEF TypeOK
  <2>5. then' \in [Devices -> {"load", "run", "ack"}]
    BY DEF TypeOK
  <2> QED
    BY <2>3, <2>4, <2>5 DEF TypeOK, bus
<1>2. Alone(d) /\ (then'[d] = "ack" => then[d] = "ack")
  BY DEF Alone, TypeOK
<1>3. Own(d)'
  <2>1. CASE page[d].words = 0
    BY <2>1, <1>0, Own(d) DEF Own, Holds, Mine, TypeOK
  <2>2. CASE page[d].words # 0
    <3>1. ram'[d].id = IF prog[d] = "app" THEN Board[d] ELSE page[d].id
      BY <2>2, <1>0, Overrides DEF TypeOK
    <3> QED
      BY <2>2, <3>1, Own(d) DEF Own, Holds, Mine, TypeOK
  <2> QED
    BY <2>1, <2>2
<1> QED
  BY <1>1, <1>2, <1>3, DeviceStep

LEMMA EraseKeeps == ASSUME IInv, NEW d \in Devices, Erase(d) PROVE IInv'
<1> USE DEF IInv, Erase, Set
<1>1. TypeOK'
  BY DEF TypeOK, bus, Erased, AnyID
<1>2. Alone(d) /\ then' = then
  BY DEF Alone, TypeOK
<1>3. Own(d)'
  BY Own(d) DEF Own, Holds, Mine, TypeOK, Erased
<1> QED
  BY <1>1, <1>2, <1>3, DeviceStep

LEMMA ProgramKeeps == ASSUME IInv, NEW d \in Devices, Program(d) PROVE IInv'
<1> USE DEF IInv, Program, Set
<1>1. TypeOK'
  <2>1. Programmed(page[d], ram[d]) \in [words : 0 .. 3, whole : BOOLEAN, id : AnyID]
    <3>1. /\ page[d].words \in 0 .. 2 /\ page[d].whole \in BOOLEAN /\ page[d].id \in AnyID
          /\ ram[d].whole \in BOOLEAN /\ ram[d].id \in AnyID
      BY DEF TypeOK, Record
    <3> QED
      BY <3>1 DEF Programmed
  <2> QED
    BY <2>1 DEF TypeOK, bus
<1>2. Alone(d) /\ then' = then
  BY DEF Alone, TypeOK
<1>3. Own(d)'
  BY Own(d) DEF Own, Holds, Mine, TypeOK, Programmed
<1> QED
  BY <1>1, <1>2, <1>3, DeviceStep

(* The acknowledgement of a save: its device alone holds the identifier.   *)
LEMMA SavedKeeps == ASSUME IInv, NEW d \in Devices, Saved(d) PROVE IInv'
<1> USE DEF IInv, Saved, Set
<1>1. may' = may \/ (then[d] = "ack" /\ ram[d].id # Blank /\ Learn(ram[d].id))
  OBVIOUS
<1>2. TypeOK'
  <2>1. ram[d].id \in AnyID
    BY DEF TypeOK, Record
  <2>2. may' \in [Devices -> SUBSET AnyID]
    BY <1>1, <2>1 DEF TypeOK, Learn
  <2> QED
    BY <2>2 DEF TypeOK, bus
<1>3. Alone(d) /\ then'[d] # "ack"
  BY DEF Alone, TypeOK
<1>4. CASE may' = may
  <2>1. Own(d)'
    BY <1>4, Own(d) DEF Own, Holds, Mine, TypeOK
  <2> QED
    BY <1>2, <1>3, <1>4, <2>1, DeviceStep
<1>5. CASE then[d] = "ack" /\ ram[d].id # Blank /\ Learn(ram[d].id)
  <2> DEFINE x == ram[d].id
  <2>1. x \in Mine(d) /\ page[d].id = x
    BY Own(d) DEF Own, Holds, TypeOK
  <2>2. may'[d] = {x} \ {Board[d]} /\ \A e \in Devices \ {d} : may'[e] = may[e]
    <3>1. Holder(d, x) /\ \A e \in Devices \ {d} : ~Holder(e, x)
      BY <2>1, <1>5 DEF Disjoint, Mine, Holder
    <3> QED
      BY <3>1, <1>5 DEF Learn, TypeOK
  <2>3. ASSUME NEW e \in Devices PROVE Own(e)'
    <3>1. CASE e = d
      BY <3>1, <2>1, <2>2, <1>5, Own(d) DEF Own, Holds, Mine, TypeOK
    <3>2. CASE e # d
      BY <3>2, <2>2, <1>3, Own(e) DEF Alone, Own, Holds, Mine
    <3> QED
      BY <3>1, <3>2
  <2>4. Disjoint'
    <3>1. \A e \in Devices : Mine(e)' \subseteq Mine(e)
      BY <2>1, <2>2 DEF Mine
    <3> QED
      BY <3>1 DEF Disjoint
  <2>5. Acking'
    BY <1>3 DEF Acking, Alone, bus
  <2>6. InFlight'
    <3>1. cmd # None => cmd.op = "save" /\ d \notin todo
      BY <1>5 DEF Acking
    <3> QED
      BY <3>1, <2>2 DEF InFlight, Listens, Holder, TypeOK, bus
  <2> QED
    BY <1>2, <2>3, <2>4, <2>5, <2>6
<1> QED
  BY <1>1, <1>4, <1>5

-----------------------------------------------------------------------------
(* Commands arriving.                                                      *)

LEMMA CommandTypes ==
  ASSUME TypeOK, cmd # None
  PROVE  /\ cmd.op \in {"set", "write", "save", "restart", "default"}
         /\ cmd.to \in AnyID
         /\ cmd.op \in {"set", "write"} => cmd.id \in IDs
         /\ cmd.op = "set" => cmd.uuid \in Devices
BY DEF TypeOK, Commands

LEMMA AnsweredTypes ==
  ASSUME TypeOK, NEW d \in Devices, Answered(d)
  PROVE  /\ cmd' \in Commands \union {None} /\ todo' \subseteq Devices
         /\ todo' = {} <=> cmd' = None
BY DEF TypeOK, Answered

LEMMA HandledStep ==
  ASSUME IInv, TypeOK', NEW d \in Devices, Alone(d), Own(d)', Answered(d), may' = may,
         then'[d] = "ack" => then[d] = "ack" \/ cmd.op = "save"
  PROVE  IInv'
<1> USE DEF IInv, Answered
<1>0. cmd # None /\ (cmd' = cmd \/ cmd' = None)
  BY DEF TypeOK
<1>1. ASSUME NEW e \in Devices PROVE Own(e)'
  <2>1. CASE e = d
    BY <2>1
  <2>2. CASE e # d
    BY <2>2, Own(e) DEF Alone, Own, Holds, Mine
  <2> QED
    BY <2>1, <2>2
<1>2. Disjoint'
  BY DEF Disjoint, Mine
<1>3. InFlight'
  BY <1>0 DEF InFlight, Mine, Holder, Listens
<1>4. Acking'
  BY <1>0 DEF Acking, Alone
<1> QED
  BY <1>1, <1>2, <1>3, <1>4

LEMMA MissKeeps == ASSUME IInv, NEW d \in Devices, Miss(d) PROVE IInv'
<1> USE DEF IInv, Miss, device
<1>1. TypeOK'
  BY DEF TypeOK, Answered
<1>2. Alone(d) /\ Own(d)'
  BY Own(d) DEF Alone, Own, Holds, Mine
<1> QED
  BY <1>1, <1>2, HandledStep

(* What a device that obeys holds tells that the host expected it to.      *)
LEMMA Obeying ==
  ASSUME IInv, NEW d \in Devices, pc[d] = "run", d \in todo, Obeys(d)
  PROVE  /\ cmd # None
         /\ Listens(d, cmd.to)
         /\ prog[d] = "app" => Holder(d, cmd.to)
<1> USE DEF IInv
<1>1. cmd # None
  BY DEF TypeOK
<1>2. ram[d].id \in Mine(d) /\ (prog[d] = "app" => ram[d].id # Blank)
  BY Own(d) DEF Own, Holds
<1> QED
  BY <1>1, <1>2 DEF Obeys, Listens, Holder, Mine

LEMMA SetKeeps ==
  ASSUME IInv, NEW d \in Devices, Answered(d), pc[d] = "run", may' = may, Obeys(d), DoSet(d)
  PROVE  IInv'
<1> USE DEF IInv, DoSet, Stay, Set
<1>0. cmd # None /\ cmd.id \in IDs
  BY Obeying, CommandTypes DEF Answered
<1>1. ram' = ram \/ (cmd.uuid = d /\ ram' = [ram EXCEPT ![d] = [ram[d] EXCEPT !.id = cmd.id]])
  OBVIOUS
<1>2. ram' \in [Devices -> Record]
  <2>1. [ram[d] EXCEPT !.id = cmd.id] \in Record
    BY <1>0 DEF TypeOK, Record, AnyID
  <2> QED
    BY <1>1, <2>1 DEF TypeOK
<1>3. TypeOK'
  BY <1>2, AnsweredTypes DEF TypeOK
<1>4. Alone(d)
  BY <1>1 DEF Alone, TypeOK
<1>5. ram'[d].id = ram[d].id \/ (cmd.uuid = d /\ ram'[d].id = cmd.id)
  BY <1>1 DEF TypeOK, Record
<1>6. Own(d)'
  BY <1>0, <1>5, Own(d) DEF Own, Holds, Mine, InFlight
<1> QED
  BY <1>3, <1>4, <1>6, HandledStep

LEMMA WriteKeeps ==
  ASSUME IInv, NEW d \in Devices, Answered(d), pc[d] = "run", may' = may, Obeys(d), DoWrite(d)
  PROVE  IInv'
<1> USE DEF IInv, DoWrite, Stay, Set
<1>0. cmd # None /\ cmd.id \in IDs
  BY Obeying, CommandTypes DEF Answered
<1>1. ram' = ram \/ (prog[d] = "app" /\ ram' = [ram EXCEPT ![d] = [ram[d] EXCEPT !.id = cmd.id]])
  OBVIOUS
<1>2. ram' \in [Devices -> Record]
  <2>1. [ram[d] EXCEPT !.id = cmd.id] \in Record
    BY <1>0 DEF TypeOK, Record, AnyID
  <2> QED
    BY <1>1, <2>1 DEF TypeOK
<1>3. TypeOK'
  BY <1>2, AnsweredTypes DEF TypeOK
<1>4. Alone(d)
  BY <1>1 DEF Alone, TypeOK
<1>5. ram'[d].id = ram[d].id \/ (prog[d] = "app" /\ ram'[d].id = cmd.id)
  BY <1>1 DEF TypeOK, Record
<1>6. prog[d] = "app" => cmd.id \in Mine(d)
  BY <1>0, Obeying DEF InFlight, Answered
<1>7. Own(d)'
  BY <1>0, <1>5, <1>6, Own(d) DEF Own, Holds, Mine
<1> QED
  BY <1>3, <1>4, <1>7, HandledStep

(* A device that starts to save was expected to listen, so may be blank.   *)
LEMMA StartingIsExpected ==
  ASSUME IInv, NEW d \in Devices, Answered(d), pc[d] = "run", Obeys(d),
         cmd.op \in {"save", "default"}
  PROVE  Blank \in may[d]
BY Obeying DEF IInv, InFlight, Answered

LEMMA SaveKeeps ==
  ASSUME IInv, NEW d \in Devices, Answered(d), pc[d] = "run", may' = may, Obeys(d), DoSave(d)
  PROVE  IInv'
<1> USE DEF IInv, DoSave, StartSave, Set
<1>1. TypeOK'
  BY DEF TypeOK, Answered
<1>2. Alone(d)
  BY DEF Alone, TypeOK
<1>3. Own(d)'
  BY StartingIsExpected, Own(d) DEF Own, Holds, Mine, TypeOK
<1> QED
  BY <1>1, <1>2, <1>3, HandledStep

LEMMA DefaultKeeps ==
  ASSUME IInv, NEW d \in Devices, Answered(d), pc[d] = "run", may' = may, Obeys(d), DoDefault(d)
  PROVE  IInv'
<1> USE DEF IInv, DoDefault, StartSave, Set
<1>0. Default \in Record /\ Default.id = Blank
  BY DEF Default, Record, AnyID
<1>1. TypeOK'
  <2>1. CASE prog[d] = "loader"
    <3>1. /\ pc' \in [Devices -> {"off", "load", "erase", "program", "run"}]
          /\ then' \in [Devices -> {"load", "run", "ack"}]
      BY <2>1 DEF TypeOK
    <3>2. ram' \in [Devices -> Record]
      BY <1>0, <2>1 DEF TypeOK
    <3> QED
      BY <3>1, <3>2, AnsweredTypes DEF TypeOK
  <2>2. CASE prog[d] # "loader"
    BY <2>2, AnsweredTypes DEF TypeOK
  <2> QED
    BY <2>1, <2>2
<1>2. Alone(d) /\ (then'[d] = "ack" => then[d] = "ack")
  BY DEF Alone, TypeOK
<1>3. Own(d)'
  <2>1. CASE prog[d] = "loader"
    BY <1>0, <2>1, StartingIsExpected, Own(d) DEF Own, Holds, Mine, TypeOK
  <2>2. CASE prog[d] # "loader"
    BY <2>2, Own(d) DEF Own, Holds, Mine, TypeOK
  <2> QED
    BY <2>1, <2>2
<1> QED
  BY <1>1, <1>2, <1>3, HandledStep

LEMMA RestartKeeps ==
  ASSUME IInv, NEW d \in Devices, Answered(d), may' = may, DoRestart(d)
  PROVE  IInv'
<1> USE DEF IInv, DoRestart, Halt, Set
<1>1. TypeOK'
  <2>1. Default \in Record
    BY DEF Default, Record, AnyID
  <2>2. /\ prog' \in [Devices -> {"loader", "app"}]
        /\ pc' \in [Devices -> {"off", "load", "erase", "program", "run"}]
        /\ then' \in [Devices -> {"load", "run", "ack"}]
        /\ ram' \in [Devices -> Record]
    BY <2>1 DEF TypeOK
  <2> QED
    BY <2>2, AnsweredTypes DEF TypeOK
<1>2. Alone(d) /\ then'[d] # "ack"
  BY DEF Alone, TypeOK
<1>3. Own(d)'
  BY Own(d) DEF Own, Holds, Mine, TypeOK
<1> QED
  BY <1>1, <1>2, <1>3, HandledStep

LEMMA HandleKeeps == ASSUME IInv, NEW d \in Devices, Handle(d) PROVE IInv'
<1>1. CASE Obeys(d)
  BY <1>1, SetKeeps, WriteKeeps, SaveKeeps, DefaultKeeps, RestartKeeps DEF Handle
<1>2. CASE ~Obeys(d)
  BY <1>2, MissKeeps DEF Handle, Miss
<1> QED
  BY <1>1, <1>2

-----------------------------------------------------------------------------
(* The host and the technician.                                            *)

(* The host takes more for possible than before.                           *)
Grows(e) == Mine(e) \subseteq Mine(e)' /\ (Blank \in may[e] => Blank \in may'[e])

(* When the host notes one more identifier of a device that no other may   *)
(* have, nothing is lost.                                                  *)
LEMMA Noted ==
  ASSUME TypeOK, Disjoint, NEW u \in Devices, NEW i \in IDs, FreeFor(u, i), MayBe(u, i)
  PROVE  /\ Disjoint'
         /\ may' \in [Devices -> SUBSET AnyID]
         /\ \A e \in Devices : Grows(e)
         /\ i \in Mine(u)'
         /\ \A e \in Devices \ {u} : may'[e] = may[e]
<1>1. may' = [may EXCEPT ![u] = (may[u] \union {i}) \ {Board[u]}]
  BY DEF MayBe, Set
<1>2. /\ may' \in [Devices -> SUBSET AnyID]
      /\ may'[u] = (may[u] \union {i}) \ {Board[u]}
      /\ \A e \in Devices \ {u} : may'[e] = may[e]
  BY <1>1 DEF TypeOK, AnyID
<1>3. Mine(u)' = Mine(u) \union {i} /\ \A e \in Devices \ {u} : Mine(e)' = Mine(e)
  BY <1>2 DEF Mine
<1>4. Disjoint'
  BY <1>3 DEF Disjoint, Mine, FreeFor, Holder
<1>5. \A e \in Devices : Grows(e)
  <2>1. Board[u] # Blank
    OBVIOUS
  <2> QED
    BY <1>2, <1>3, <2>1 DEF Grows
<1> QED
  BY <1>2, <1>3, <1>4, <1>5

LEMMA OwnGrows ==
  ASSUME IInv, UNCHANGED device, \A e \in Devices : Grows(e),
         NEW e \in Devices
  PROVE  Own(e)'
BY Own(e), Grows(e) DEF IInv, Own, Holds, Grows, device

(* A command goes out: nothing is waiting for an acknowledgement.          *)
LEMMA SentStep ==
  ASSUME IInv, NEW m \in Commands, SendTo(m), may' \in [Devices -> SUBSET AnyID],
         \A e \in Devices : Grows(e), Disjoint', InFlight'
  PROVE  IInv'
<1> USE DEF IInv, SendTo
<1>1. TypeOK'
  <2>1. Devices # {} /\ m # None
    OBVIOUS
  <2> QED
    BY <2>1 DEF TypeOK, device
<1>2. Acking'
  BY DEF Acking, HostIdle, device
<1> QED
  BY <1>1, <1>2, OwnGrows

LEMMA SetSent == ASSUME IInv, SendSet PROVE IInv'
<1>1. PICK u \in Devices, x \in AnyID, i \in IDs :
        /\ FreeFor(u, i)
        /\ SendTo([op |-> "set", uuid |-> u, to |-> x, id |-> i])
        /\ MayBe(u, i)
  BY DEF SendSet
<1> DEFINE m == [op |-> "set", uuid |-> u, to |-> x, id |-> i]
<1>2. m \in Commands /\ cmd' = m
  BY <1>1 DEF Commands, SendTo
<1>3. /\ Disjoint' /\ may' \in [Devices -> SUBSET AnyID] /\ i \in Mine(u)'
      /\ \A e \in Devices : Grows(e)
  BY <1>1, Noted DEF IInv
<1>4. InFlight'
  BY <1>2, <1>3 DEF InFlight
<1> QED
  BY <1>1, <1>2, <1>3, <1>4, SentStep

LEMMA WriteSent == ASSUME IInv, SendWrite PROVE IInv'
<1>1. PICK u \in Devices, x \in IDs, i \in IDs :
        /\ FreeFor(u, i) /\ Holder(u, x)
        /\ SendTo([op |-> "write", to |-> x, id |-> i])
        /\ MayBe(u, i)
  BY DEF SendWrite
<1> DEFINE m == [op |-> "write", to |-> x, id |-> i]
<1>2. m \in Commands /\ cmd' = m
  BY <1>1 DEF Commands, SendTo, AnyID
<1>3. /\ Disjoint' /\ may' \in [Devices -> SUBSET AnyID] /\ i \in Mine(u)'
      /\ \A e \in Devices : Grows(e)
  BY <1>1, Noted DEF IInv
<1>4. \A d \in Devices : Holder(d, x)' => d = u
  <2>1. Holder(u, x)' /\ x # Blank
    BY <1>1, <1>3, Grows(u) DEF Holder, Grows, Mine
  <2> QED
    BY <1>3, <2>1 DEF Disjoint, Mine, Holder
<1>5. InFlight'
  BY <1>2, <1>3, <1>4 DEF InFlight, Holder, Mine
<1> QED
  BY <1>1, <1>2, <1>3, <1>5, SentStep

LEMMA RewriteSent == ASSUME IInv, SendRewrite PROVE IInv'
<1>1. PICK o \in {"save", "default"}, x \in AnyID :
        /\ SendTo([op |-> o, to |-> x])
        /\ may' = [u \in Devices |-> IF Listens(u, x) THEN may[u] \union {Blank} ELSE may[u]]
  BY DEF SendRewrite
<1> DEFINE m == [op |-> o, to |-> x]
<1>2. m \in Commands /\ cmd' = m /\ todo' = Devices
  BY <1>1 DEF Commands, SendTo
<1>3. /\ may' \in [Devices -> SUBSET AnyID]
      /\ \A e \in Devices : Grows(e)
  BY <1>1 DEF IInv, TypeOK, AnyID, Grows, Mine, Grows, Mine
<1>4. Disjoint'
  BY <1>1 DEF IInv, Disjoint, Mine
<1>5. InFlight'
  <2>1. \A e \in Devices : Listens(e, x)' => Blank \in may'[e]
    BY <1>1 DEF Listens, Holder
  <2> QED
    BY <1>2, <2>1 DEF InFlight, Listens, Holder
<1> QED
  BY <1>1, <1>2, <1>3, <1>4, <1>5, SentStep

LEMMA RestartSent == ASSUME IInv, SendRestart PROVE IInv'
<1>1. PICK x \in AnyID : SendTo([op |-> "restart", to |-> x]) /\ may' = may
  BY DEF SendRestart
<1> DEFINE m == [op |-> "restart", to |-> x]
<1>2. m \in Commands /\ cmd' = m
  BY <1>1 DEF Commands, SendTo
<1>3. Disjoint' /\ may' \in [Devices -> SUBSET AnyID]
  BY <1>1 DEF IInv, TypeOK, Disjoint, Mine
<1>4. \A e \in Devices : Grows(e)
  BY <1>1 DEF Grows, Mine
<1>5. InFlight'
  BY <1>2 DEF InFlight
<1> QED
  BY <1>1, <1>2, <1>3, <1>4, <1>5, SentStep

LEMMA UartKeeps == ASSUME IInv, NEW d \in Devices, UartWrite(d) PROVE IInv'
<1> USE DEF IInv
<1>1. PICK i \in IDs : /\ FreeFor(d, i)
                       /\ ram' = [ram EXCEPT ![d] = [ram[d] EXCEPT !.id = i]]
                       /\ MayBe(d, i)
  BY DEF UartWrite, Set
<1>2. /\ UNCHANGED <<prog, pc, then, page, bus>>
      /\ pc[d] = "run" /\ cmd = None
  BY DEF UartWrite
<1>3. /\ Disjoint' /\ may' \in [Devices -> SUBSET AnyID] /\ i \in Mine(d)'
      /\ \A e \in Devices : Grows(e)
  BY <1>1, Noted
<1>4. ram' \in [Devices -> Record] /\ ram'[d].id = i
  <2>1. [ram[d] EXCEPT !.id = i] \in Record /\ [ram[d] EXCEPT !.id = i].id = i
    BY DEF TypeOK, Record, AnyID
  <2> QED
    BY <1>1, <2>1 DEF TypeOK
<1>5. TypeOK'
  BY <1>2, <1>3, <1>4 DEF TypeOK, bus
<1>6. ASSUME NEW e \in Devices PROVE Own(e)'
  <2>1. CASE e = d
    BY <2>1, <1>2, <1>3, <1>4, Own(d), Grows(d) DEF Own, Holds, Grows
  <2>2. CASE e # d
    <3>1. ram'[e] = ram[e]
      BY <2>2, <1>1 DEF TypeOK
    <3> QED
      BY <3>1, <1>2, <1>3, Own(e), Grows(e) DEF Own, Holds, Grows
  <2> QED
    BY <2>1, <2>2
<1>7. Acking' /\ InFlight'
  BY <1>2 DEF Acking, InFlight, bus
<1> QED
  BY <1>3, <1>5, <1>6, <1>7

(* A save over the UART may leave the device blank, and is noted as such.  *)
LEMMA UartSaveKeeps == ASSUME IInv, NEW d \in Devices, UartSave(d) PROVE IInv'
<1> USE DEF IInv
<1>1. /\ UNCHANGED <<prog, page, bus>> /\ pc[d] = "run" /\ prog[d] = "loader" /\ cmd = None
      /\ pc' = [pc EXCEPT ![d] = "erase"] /\ then' = [then EXCEPT ![d] = "run"]
      /\ ram' = [ram EXCEPT ![d] = ram[d]]
      /\ may' = [may EXCEPT ![d] = (may[d] \union {Blank}) \ {Board[d]}]
  BY DEF UartSave, StartSave, MayBe, Set
<1>2. Board[d] # Blank
  OBVIOUS
<1>3. /\ may' \in [Devices -> SUBSET AnyID] /\ may'[d] = (may[d] \union {Blank}) \ {Board[d]}
      /\ \A e \in Devices \ {d} : may'[e] = may[e]
  BY <1>1 DEF TypeOK, AnyID
<1>4. Mine(d)' = Mine(d) \union {Blank} /\ \A e \in Devices \ {d} : Mine(e)' = Mine(e)
  BY <1>3 DEF Mine
<1>5. Disjoint'
  BY <1>4 DEF Disjoint
<1>6. ram' = ram
  BY <1>1 DEF TypeOK
<1>7. TypeOK'
  BY <1>1, <1>3, <1>6 DEF TypeOK, bus
<1>8. ASSUME NEW e \in Devices PROVE Own(e)'
  <2>1. CASE e = d
    <3>1. /\ pc'[d] = "erase" /\ then'[d] = "run" /\ Blank \in may'[d]
          /\ ram'[d] = ram[d] /\ page'[d] = page[d] /\ prog'[d] = "loader"
      BY <1>1, <1>2, <1>3, <1>6 DEF TypeOK
    <3>2. Holds(d)' = Holds(d)
      BY <1>1, <3>1 DEF Holds
    <3> QED
      BY <2>1, <1>4, <3>1, <3>2, Own(d) DEF Own
  <2>2. CASE e # d
    <3>1. pc'[e] = pc[e] /\ then'[e] = then[e]
      BY <1>1, <2>2 DEF TypeOK
    <3> QED
      BY <2>2, <3>1, <1>1, <1>3, <1>4, <1>6, Own(e) DEF Own, Holds
  <2> QED
    BY <2>1, <2>2
<1>9. Acking' /\ InFlight'
  BY <1>1 DEF Acking, InFlight, bus
<1> QED
  BY <1>5, <1>7, <1>8, <1>9

-----------------------------------------------------------------------------
(* The theorems.                                                           *)

LEMMA StepKeeps == IInv /\ [Next]_vars => IInv'
<1> SUFFICES ASSUME IInv, [Next]_vars PROVE IInv'
  OBVIOUS
<1>1. CASE SendSet \/ SendWrite \/ SendRewrite \/ SendRestart
  BY <1>1, SetSent, WriteSent, RewriteSent, RestartSent
<1>2. ASSUME NEW d \in Devices, Device(d) PROVE IInv'
  BY <1>2, PowerOnKeeps, LoadKeeps, EraseKeeps, ProgramKeeps, SavedKeeps, HandleKeeps DEF Device
<1>3. ASSUME NEW d \in Devices, PowerLoss(d) \/ Miss(d) \/ UartWrite(d) \/ UartSave(d)
      PROVE  IInv'
  BY <1>3, PowerLossKeeps, MissKeeps, UartKeeps, UartSaveKeeps
<1>4. CASE UNCHANGED vars
  BY <1>4 DEF vars, device, bus, IInv, TypeOK, Own, Holds, Mine, Disjoint, Acking, InFlight,
              Holder, Listens
<1> QED
  BY <1>1, <1>2, <1>3, <1>4 DEF Next

LEMMA Invariant == Spec => []IInv
<1> QED
  BY InitHolds, StepKeeps, PTL DEF Spec

(* Type correctness.                                                       *)
THEOREM IdentityTyped == Spec => []TypeOK
<1>1. IInv => TypeOK
  BY DEF IInv
<1> QED
  BY <1>1, Invariant, PTL

(* Whatever saves are cut short and answers lost, the host knows what a    *)
(* device may answer to (iap_if.c 189-223, canbus_middle.c 728-736).       *)
THEOREM HostIsRight == Spec => []HostKnows
<1>1. IInv => HostKnows
  BY DEF IInv, Own, HostKnows, Mine
<1> QED
  BY <1>1, Invariant, PTL

(* No two devices of a bus answer to one identifier (canbus_middle.c       *)
(* 518-521, 632), if their boards differ and the host is careful.          *)
THEOREM IdentifiersAreUnique == Spec => []UniqueIDs
<1>1. IInv => UniqueIDs
  BY DEF IInv, Own, Holds, Disjoint, UniqueIDs
<1> QED
  BY <1>1, Invariant, PTL
=============================================================================

--------------------------- MODULE HistStoreProofs ---------------------------
(***************************************************************************)
(* Proofs about HistStore and CsvExport, for any number of sectors and     *)
(* slots, in three parts.                                                  *)
(*                                                                         *)
(* Where writes go: the types, the invariant of the write positions        *)
(* (WriteInv), and from it that every write targets virgin bytes, that     *)
(* back-patching only dates slots that hold a record, and that a date once *)
(* written stays.                                                          *)
(*                                                                         *)
(* What the flash holds: the count is that of the slots served, a power-on *)
(* finds the records the running store serves, in order, and the store     *)
(* implements the bounded log HistLog.  They rest on RingInv: the sequence *)
(* numbers of the sectors form one chain, and between a record and the     *)
(* frontier lie no more slots than there were appends since.               *)
(*                                                                         *)
(* The export beside the running store: rows in order, and none missing    *)
(* that was there throughout.  They rest on ExportInv: the sectors of the  *)
(* snapshot keep their sequence numbers, and what is still to be copied    *)
(* lies above what is delivered.                                           *)
(***************************************************************************)
EXTENDS HistStoreInv, CsvExport, FoldLemmas, FiniteSetTheorems, TLAPS

-----------------------------------------------------------------------------
(* Ring arithmetic.                                                        *)

\* Sector and slot 0 exist, and no sector is none.
LEMMA Zero == 0 \in Sec /\ 0 \in Slot /\ NoSec \notin Sec /\ 0 \in 0 .. Slots
BY SectorsAssumption, SlotsAssumption DEF Sec, Slot, NoSec

\* The next sector is another one.
LEMMA SuccType == ASSUME NEW s \in Sec PROVE Succ(s) \in Sec /\ Succ(s) # s
BY SectorsAssumption DEF Sec, Succ

\* A distance is a number of sectors, 0 only from a sector to itself.
LEMMA DistType ==
  ASSUME NEW a \in Sec, NEW b \in Sec
  PROVE  Dist(a, b) \in Sec /\ (Dist(a, b) = 0 <=> a = b)
BY SectorsAssumption DEF Sec, Dist

\* Two sectors equally far from a third are the same one.
LEMMA DistInjective ==
  ASSUME NEW a \in Sec, NEW b \in Sec, NEW c \in Sec, Dist(a, b) = Dist(a, c)
  PROVE  b = c
BY SectorsAssumption DEF Sec, Dist

\* The next sector is one step further, unless it is where one started.
LEMMA DistSucc ==
  ASSUME NEW a \in Sec, NEW b \in Sec, Succ(b) # a
  PROVE  Dist(a, Succ(b)) = Dist(a, b) + 1
BY SectorsAssumption DEF Sec, Dist, Succ

\* Multiples of the slots of a sector.
LEMMA SlotsProduct ==
  /\ \A k \in Nat : k * Slots \in Nat
  /\ \A k \in Int : k * Slots \in Int /\ (k + 1) * Slots = k * Slots + Slots
                    /\ (k - 1) * Slots = k * Slots - Slots
  /\ 0 * Slots = 0
BY SlotsAssumption

-----------------------------------------------------------------------------
(* Types.                                                                  *)

\* An erased or foreign flash is of the types.
LEMMA InitType == Init => TypeOK
<1> SUFFICES ASSUME Init PROVE TypeOK
  OBVIOUS
<1>1. hdr \in [Sec -> Int] /\ dat \in [Sec -> [Slot -> Int]] /\ tag \in [Sec -> [Slot -> Tags]]
  BY DEF Init, Virgin, Torn, Tags
<1>2. /\ cur \in Sec /\ oldest \in Sec /\ slot \in 0 .. Slots /\ seq \in Nat /\ count \in Nat
      /\ pending \in Sec \cup {NoSec} /\ prepared \in Sec \cup {NoSec}
      /\ unkSec \in Sec /\ unkSlot \in Slot /\ unkCount \in Nat
  BY Zero DEF Init
<1>3. /\ pc \in PCs /\ job \in Jobs /\ target \in Sec /\ at \in Slot /\ left \in Nat
      /\ dated \in BOOLEAN
  BY Zero DEF Init, PCs, Jobs
<1>4. appended \in Nat /\ acked \in SUBSET Nat /\ damage \in Nat
  BY DEF Init
<1> QED
  BY <1>1, <1>2, <1>3, <1>4 DEF TypeOK

\* Writing one cell keeps a table's type.
LEMMA CellUpdate ==
  ASSUME NEW T, NEW f \in [Sec -> [Slot -> T]], NEW s \in Sec, NEW i, NEW v \in T
  PROVE  [f EXCEPT ![s][i] = v] \in [Sec -> [Slot -> T]]
<1>1. [f[s] EXCEPT ![i] = v] \in [Slot -> T]
  OBVIOUS
<1> QED
  BY <1>1

\* Writing a record keeps the type of the records.
LEMMA WritePayloadType ==
  ASSUME TypeOK, NEW v \in Int, WritePayload(v)
  PROVE  dat' \in [Sec -> [Slot -> Int]]
BY CellUpdate DEF TypeOK, WritePayload

\* Writing a timestamp keeps the type of the timestamps.
LEMMA WriteTagType ==
  ASSUME TypeOK, NEW s \in Sec, NEW i, NEW t \in Tags, WriteTag(s, i, t)
  PROVE  tag' \in [Sec -> [Slot -> Tags]]
BY CellUpdate DEF TypeOK, WriteTag

\* What can stand in a cell after a write, complete or not.
LEMMA WrittenValues ==
  ASSUME NEW x \in Int, NEW y \in Int, NEW t \in Tags
  PROVE  /\ Programmed(x, y) \in Int /\ CutShort(x, y) \subseteq Int /\ Failed(x) \subseteq Int
         /\ Tagged(t) \in Tags /\ Filled(t) \in Tags
         /\ TagCutShort(t) \subseteq Tags /\ TagFailed(t) \subseteq Tags
BY DEF Programmed, CutShort, Failed, Tagged, Filled, TagCutShort, TagFailed, Tags, Torn

\* An erase cut short keeps the types of the flash.
LEMMA ErasePartlyType ==
  ASSUME TypeOK, NEW s \in Sec, ErasePartly(s)
  PROVE  /\ hdr' \in [Sec -> Int]
         /\ dat' \in [Sec -> [Slot -> Int]]
         /\ tag' \in [Sec -> [Slot -> Tags]]
BY DEF TypeOK, ErasePartly, Virgin, Torn, Tags

\* So does a whole one.
LEMMA EraseAllType ==
  ASSUME TypeOK, NEW s \in Sec, EraseAll(s)
  PROVE  /\ hdr' \in [Sec -> Int]
         /\ dat' \in [Sec -> [Slot -> Int]]
         /\ tag' \in [Sec -> [Slot -> Tags]]
BY DEF TypeOK, EraseAll, Virgin, Tags

\* A call that returns leaves its variables in their types.
LEMMA ReturnType ==
  ASSUME TypeOK, NEW p \in PCs, Return(p)
  PROVE  pc' \in PCs /\ job' \in Jobs /\ target' \in Sec /\ at' \in Slot
         /\ left' \in Nat /\ dated' \in BOOLEAN
BY Zero DEF Return, Jobs


\* TypeOK alone is not inductive: append() raises slot, which stays in range
\* because a payload or timestamp is only ever written below Slots.
TypeInv == TypeOK /\ JobMatches

\* The types and the call of each program point, at the start.
LEMMA TypeInit == Init => TypeInv
BY InitType DEF Init, TypeInv, JobMatches

\* A record that has been appended keeps both.
LEMMA AppendedType ==
  ASSUME TypeInv, pc \in {"payload", "tag"}, Appended,
         hdr' \in [Sec -> Int], dat' \in [Sec -> [Slot -> Int]], tag' \in [Sec -> [Slot -> Tags]]
  PROVE  TypeInv'
<1>1. slot < Slots /\ job = "append"
  BY DEF TypeInv, JobMatches
<1>a. slot \in 0 .. Slots /\ count \in Nat /\ unkCount \in Nat
  BY DEF TypeInv, TypeOK
<1>b. slot' = slot + 1 /\ count' = count + 1 /\ (unkCount' = unkCount + 1 \/ unkCount' = unkCount)
  BY DEF Appended, unk
<1>2. slot' \in 0 .. Slots /\ slot \in Slot /\ count' \in Nat /\ unkCount' \in Nat
  BY <1>1, <1>a, <1>b, SlotsAssumption DEF Slot
<1>3. pending' \in Sec \cup {NoSec}
  <2>1. pending' \in {Succ(cur), pending}
    BY DEF Appended, PreArmed
  <2> QED
    BY <2>1, SuccType DEF TypeInv, TypeOK
<1>c. unkSec' \in Sec /\ unkSlot' \in Slot
  <2>1. unkSec' \in {unkSec, cur} /\ unkSlot' \in {unkSlot, slot}
    BY DEF Appended, unk
  <2> QED
    BY <2>1, <1>2 DEF TypeInv, TypeOK
<1>4. pc' \in PCs /\ job' \in Jobs /\ target' \in Sec /\ at' \in Slot
      /\ left' \in Nat /\ dated' \in BOOLEAN
  BY Zero DEF Appended, Return, PCs, Jobs
<1>5. TypeOK'
  BY <1>2, <1>3, <1>c, <1>4 DEF TypeInv, TypeOK, Appended
<1>6. JobMatches'
  BY DEF JobMatches, Appended, Return
<1> QED
  BY <1>5, <1>6 DEF TypeInv

\* So does a power cut, which resets what is held in RAM.
LEMMA LosePowerType ==
  ASSUME TypeInv, LosePower, appended' = appended, acked' = acked, damage' \in Nat,
         hdr' \in [Sec -> Int], dat' \in [Sec -> [Slot -> Int]], tag' \in [Sec -> [Slot -> Tags]]
  PROVE  TypeInv'
<1>1. TypeOK'
  BY Zero DEF TypeInv, TypeOK, LosePower, Return, PCs, Jobs
<1>2. JobMatches'
  BY DEF JobMatches, LosePower, Return
<1> QED
  BY <1>1, <1>2 DEF TypeInv

\* So does a call given up after a failing write.
LEMMA GiveUpType ==
  ASSUME TypeInv, GiveUp, Damage, UNCHANGED <<meta, unk>>,
         pc \in {"erase", "header", "payload", "tag"},
         hdr' \in [Sec -> Int], dat' \in [Sec -> [Slot -> Int]], tag' \in [Sec -> [Slot -> Tags]]
  PROVE  TypeInv'
<1>1. /\ job' = "none" /\ target' = 0 /\ at' = 0 /\ left' = 0 /\ dated' = FALSE
      /\ job = "format" => pc' = "disabled"
      /\ job # "format" => pc' = "idle"
  BY DEF GiveUp, Return
<1>2. pc' \in PCs /\ job' \in Jobs /\ target' \in Sec /\ at' \in Slot
      /\ left' \in Nat /\ dated' \in BOOLEAN
  BY <1>1, Zero DEF PCs, Jobs
<1>3. TypeOK'
  BY <1>2 DEF TypeInv, TypeOK, Damage, meta, unk
<1>4. JobMatches'
  BY <1>1 DEF TypeInv, JobMatches, Damage, meta, unk
<1> QED
  BY <1>3, <1>4 DEF TypeInv

\* Every step keeps the types and the call of each program point.
LEMMA TypeStep == TypeInv /\ [Next]_vars => TypeInv'
<1> SUFFICES ASSUME TypeInv, [Next]_vars PROVE TypeInv'
  OBVIOUS
<1> USE DEF TypeInv
<1>1. CASE BeginFresh
  <2>1. TypeOK'
    BY <1>1, Zero DEF BeginFresh, TypeOK, flash, meta, unk, hist, PCs, Jobs
  <2> QED
    BY <2>1, <1>1 DEF BeginFresh, JobMatches, flash, meta, unk, hist
<1>2. CASE Begin
  <2>1. PICK c \in Sec, o \in Sec, n \in 0 .. Slots :
          /\ IsNewest(c) /\ cur' = c /\ oldest' = o /\ slot' = n /\ seq' = hdr[c]
          /\ count' = Dist(o, c) * Slots + n
    BY <1>2 DEF Begin
  <2>2. seq' \in Nat
    BY <2>1 DEF IsNewest, HdrValid, TypeOK
  <2>3. count' \in Nat
    <3>1. Dist(o, c) \in Nat /\ n \in Nat
      BY DistType, SectorsAssumption, SlotsAssumption DEF Sec
    <3>2. Dist(o, c) * Slots \in Nat
      BY <3>1, SlotsProduct
    <3> QED
      BY <2>1, <3>1, <3>2
  <2>4. TypeOK'
    BY <1>2, <2>1, <2>2, <2>3 DEF Begin, TypeOK, flash, unk, args, hist, PCs
  <2> QED
    BY <2>4, <1>2 DEF Begin, JobMatches, flash, unk, args, hist
<1>3. CASE EraseOk
  <2>1. TypeOK'
    BY <1>3, EraseAllType DEF EraseOk, TypeOK, meta, unk, args, hist, PCs
  <2> QED
    BY <2>1, <1>3 DEF EraseOk, JobMatches, meta, unk, args, hist
<1>4. CASE EraseFail
  <2>1. hdr' \in [Sec -> Int] /\ dat' \in [Sec -> [Slot -> Int]] /\ tag' \in [Sec -> [Slot -> Tags]]
    BY <1>4, ErasePartlyType DEF EraseFail, TypeOK
  <2> QED
    BY <2>1, <1>4, GiveUpType DEF EraseFail
<1>5. CASE HeaderFail
  <2>1. hdr' \in [Sec -> Int]
    BY <1>5 DEF HeaderFail, Failed, Torn, TypeOK
  <2> QED
    BY <1>5, <2>1, GiveUpType DEF HeaderFail, TypeOK
<1>6. CASE FormatDone
  <2>1. hdr' \in [Sec -> Int]
    BY <1>6 DEF FormatDone, WriteHeader, Programmed, NewSeq, Torn, TypeOK
  <2>2. TypeOK'
    BY <1>6, <2>1, Zero DEF FormatDone, Return, TypeOK, unk, hist, PCs, Jobs
  <2> QED
    BY <2>2, <1>6 DEF FormatDone, Return, JobMatches, unk, hist
<1>7. ASSUME WriteHeader, DropOldest
      PROVE  hdr' \in [Sec -> Int] /\ oldest' \in Sec /\ count' \in Nat
  <2>1. hdr' \in [Sec -> Int]
    BY <1>7 DEF WriteHeader, Programmed, NewSeq, Torn, TypeOK
  <2>2. oldest' \in Sec /\ count' \in Nat
    BY <1>7, SuccType, SlotsAssumption DEF DropOldest, TypeOK
  <2> QED
    BY <2>1, <2>2
<1>8. CASE ServiceDone
  <2>1. TypeOK'
    BY <1>8, <1>7, Zero DEF ServiceDone, Return, TypeOK, unk, hist, PCs, Jobs
  <2> QED
    BY <2>1, <1>8 DEF ServiceDone, Return, JobMatches, unk, hist
<1>9. CASE AdvanceDone
  <2>1. hdr' \in [Sec -> Int] /\ oldest' \in Sec /\ count' \in Nat
    BY <1>9, <1>7 DEF AdvanceDone
  <2>2. cur' \in Sec /\ slot' = 0 /\ seq' \in Nat /\ pending' = NoSec /\ prepared' = NoSec
    BY <1>9 DEF AdvanceDone, Advance, TypeOK
  <2>3. TypeOK'
    BY <1>9, <2>1, <2>2, Zero DEF AdvanceDone, TypeOK, unk, args, hist, PCs
  <2> QED
    BY <2>2, <2>3, <1>9, SlotsAssumption DEF AdvanceDone, JobMatches, unk, args, hist
<1>10. ASSUME NEW d \in BOOLEAN, BeginAppend(d) PROVE TypeInv'
  <2>1. Succ(cur) \in Sec
    BY SuccType DEF TypeOK
  <2>3. seq' \in Nat /\ slot' \in 0 .. Slots /\ pending' \in Sec \cup {NoSec}
        /\ prepared' \in Sec \cup {NoSec} /\ cur' \in Sec /\ oldest' \in Sec
        /\ count' \in Nat /\ target' \in Sec /\ pc' \in PCs /\ job' \in Jobs
    <3>1. CASE slot < Slots
      BY <1>10, <3>1 DEF BeginAppend, TypeOK, meta, PCs, Jobs
    <3>2. CASE ~(slot < Slots) /\ prepared = Succ(cur)
      BY <1>10, <3>2, <2>1, Zero DEF BeginAppend, Advance, TypeOK, PCs, Jobs
    <3>3. CASE ~(slot < Slots) /\ prepared # Succ(cur)
      BY <1>10, <3>3, <2>1 DEF BeginAppend, Prepare, TypeOK, meta, PCs, Jobs
    <3> QED
      BY <3>1, <3>2, <3>3
  <2>2. TypeOK'
    BY <1>10, <2>3 DEF BeginAppend, TypeOK, flash, unk
  <2>4. appended' > 0 /\ unkCount' = unkCount
    BY <1>10 DEF BeginAppend, TypeOK, unk
  <2>5. pc' \in {"erase", "payload"} /\ job' = "append" /\ (pc' = "payload" => slot' < Slots)
    BY <1>10, SlotsAssumption DEF BeginAppend, Advance, Prepare, meta
  <2> QED
    BY <2>2, <2>4, <2>5 DEF JobMatches
<1>22. pc \in {"payload", "tag"} => slot \in Slot /\ dat[cur][slot] \in Int /\ tag[cur][slot] \in Tags
  <2>1. pc \in {"payload", "tag"} => slot \in Slot
    BY SlotsAssumption DEF JobMatches, TypeOK, Slot
  <2> QED
    BY <2>1 DEF TypeOK
<1>11. CASE pc = "payload" /\ PayloadOk
  <2>1. hdr' \in [Sec -> Int] /\ dat' \in [Sec -> [Slot -> Int]] /\ tag' \in [Sec -> [Slot -> Tags]]
    <3>1. Programmed(dat[cur][slot], appended) \in Int
      BY <1>11, <1>22, WrittenValues DEF TypeOK, PayloadOk, Programmed, Torn
    <3> QED
      BY <1>11, <3>1, WritePayloadType DEF PayloadOk, TypeOK
  <2>2. CASE dated
    <3>1. TypeOK'
      BY <1>11, <2>1, <2>2 DEF PayloadOk, TypeOK, meta, unk, args, hist, PCs
    <3> QED
      BY <3>1, <1>11, <2>2 DEF PayloadOk, JobMatches, meta, unk, args, hist
  <2>3. CASE ~ dated
    BY <1>11, <2>1, <2>3, AppendedType DEF PayloadOk
  <2> QED
    BY <2>2, <2>3
<1>12. CASE pc = "payload" /\ PayloadFail
  <2>1. dat' \in [Sec -> [Slot -> Int]]
    <3>1. PICK v \in Failed(dat[cur][slot]) : WritePayload(v)
      BY <1>12 DEF PayloadFail
    <3>2. v \in Int
      BY <1>12, <1>22, <3>1 DEF PayloadFail, Failed, Torn
    <3> QED
      BY <3>1, <3>2, WritePayloadType
  <2> QED
    BY <1>12, <2>1, GiveUpType DEF PayloadFail, TypeOK
<1>13. CASE pc = "tag" /\ TagOk
  <2>1. tag' \in [Sec -> [Slot -> Tags]]
    <3>1. Tagged(tag[cur][slot]) \in Tags
      BY DEF Tagged, Tags
    <3> QED
      BY <1>13, <3>1, WriteTagType DEF TagOk, TypeOK
  <2> QED
    BY <1>13, <2>1, AppendedType DEF TagOk, TypeOK
<1>14. CASE pc = "tag" /\ TagFail
  <2>1. tag' \in [Sec -> [Slot -> Tags]]
    <3>1. PICK t \in TagFailed(tag[cur][slot]) : WriteTag(cur, slot, t)
      BY <1>14 DEF TagFail
    <3>2. t \in Tags
      BY <1>14, <1>22, <3>1 DEF TagFail, TagFailed, Tags
    <3> QED
      BY <3>1, <3>2, WriteTagType DEF TypeOK
  <2> QED
    BY <1>14, <2>1, GiveUpType DEF TagFail, TypeOK
<1>15. CASE ServiceErase
  <2>1. TypeOK'
    BY <1>15 DEF ServiceErase, Prepare, TypeOK, flash, unk, hist, PCs, Jobs
  <2> QED
    BY <2>1, <1>15 DEF ServiceErase, Prepare, JobMatches, flash, unk, hist
<1>16. CASE Patch
  <2>1. TypeOK'
    BY <1>16 DEF Patch, TypeOK, flash, meta, unk, hist, PCs, Jobs
  <2> QED
    BY <2>1, <1>16 DEF Patch, JobMatches, flash, meta, unk, hist
<1>17. CASE PatchSlot
  <2>a. tag[target][at] \in Tags
    BY DEF TypeOK
  <2>b. PICK t \in {Filled(tag[target][at])} \cup TagFailed(tag[target][at]) : WriteTag(target, at, t)
    BY <1>17 DEF PatchSlot
  <2>c. t \in Tags
    BY <2>a, <2>b DEF Filled, TagFailed, Tags
  <2>1. tag' \in [Sec -> [Slot -> Tags]] /\ damage' \in Nat
    <3>1. tag' \in [Sec -> [Slot -> Tags]]
      BY <2>b, <2>c, WriteTagType DEF TypeOK
    <3>2. damage' \in Nat
      BY <1>17 DEF PatchSlot, Damage, hist, TypeOK
    <3> QED
      BY <3>1, <3>2
  <2>2. at' \in Slot /\ target' \in Sec /\ left' \in Nat
    <3>1. left' \in Nat
      BY <1>17 DEF PatchSlot, TypeOK
    <3>2. target' \in Sec
      BY <1>17, SuccType DEF PatchSlot, TypeOK
    <3>3. at \in Slot /\ (at' = 0 \/ (at' = at + 1 /\ at + 1 < Slots))
      BY <1>17 DEF PatchSlot, TypeOK
    <3> QED
      BY <3>1, <3>2, <3>3, Zero, SlotsAssumption DEF Slot
  <2>3. TypeOK'
    BY <1>17, <2>1, <2>2 DEF PatchSlot, TypeOK, meta, unk, hist, Damage
  <2> QED
    BY <2>3, <1>17 DEF PatchSlot, JobMatches, meta, unk
<1>18. CASE PatchDone
  <2>1. TypeOK'
    BY <1>18, Zero DEF PatchDone, Return, TypeOK, flash, meta, hist, PCs, Jobs
  <2> QED
    BY <2>1, <1>18 DEF PatchDone, Return, JobMatches, flash, meta, hist
<1>19. CASE PowerCut
  BY <1>19, LosePowerType DEF PowerCut, flash, hist, TypeOK
<1>20. CASE PowerCutInWrite
  <2>1. damage' \in Nat /\ appended' = appended /\ acked' = acked
    BY <1>20 DEF PowerCutInWrite, Damage, TypeOK
  <2>2. hdr' \in [Sec -> Int] /\ dat' \in [Sec -> [Slot -> Int]] /\ tag' \in [Sec -> [Slot -> Tags]]
    <3>1. CASE pc = "erase" /\ ErasePartly(target)
      BY <3>1, ErasePartlyType DEF TypeOK
    <3>2. CASE /\ pc = "header"
               /\ \E h \in CutShort(hdr[target], NewSeq) : hdr' = [hdr EXCEPT ![target] = h]
               /\ UNCHANGED <<dat, tag>>
      BY <3>2 DEF TypeOK, CutShort, Programmed, NewSeq, Torn
    <3>3. CASE /\ pc = "payload"
               /\ \E v \in CutShort(dat[cur][slot], appended) : WritePayload(v)
               /\ UNCHANGED <<hdr, tag>>
      <4>1. PICK v \in CutShort(dat[cur][slot], appended) : WritePayload(v)
        BY <3>3
      <4>2. v \in Int
        BY <3>3, <4>1, <1>22 DEF CutShort, Programmed, Torn, TypeOK
      <4> QED
        BY <3>3, <4>1, <4>2, WritePayloadType DEF TypeOK
    <3>4. CASE /\ pc = "tag"
               /\ \E t \in TagCutShort(tag[cur][slot]) : WriteTag(cur, slot, t)
               /\ UNCHANGED <<hdr, dat>>
      <4>1. PICK t \in TagCutShort(tag[cur][slot]) : WriteTag(cur, slot, t)
        BY <3>4
      <4>2. t \in Tags
        BY <3>4, <4>1, <1>22 DEF TagCutShort, Tagged, Tags
      <4> QED
        BY <3>4, <4>1, <4>2, WriteTagType DEF TypeOK
    <3>5. CASE /\ pc = "patch"
               /\ \E t \in IF tag[target][at] = "unknown" THEN TagCutShort("unknown")
                           ELSE {tag[target][at]} : WriteTag(target, at, t)
               /\ UNCHANGED <<hdr, dat>>
      <4>1. PICK t \in {tag[target][at]} \cup TagCutShort("unknown") : WriteTag(target, at, t)
        BY <3>5
      <4>2. t \in Tags
        BY <4>1 DEF TagCutShort, Tagged, Tags, TypeOK
      <4> QED
        BY <3>5, <4>1, <4>2, WriteTagType DEF TypeOK
    <3> QED
      BY <1>20, <3>1, <3>2, <3>3, <3>4, <3>5 DEF PowerCutInWrite
  <2> QED
    BY <1>20, <2>1, <2>2, LosePowerType DEF PowerCutInWrite
<1>21. CASE UNCHANGED vars
  BY <1>21 DEF vars, flash, meta, unk, args, hist, TypeOK, JobMatches
<1> QED
  BY <1>1, <1>2, <1>3, <1>4, <1>5, <1>6, <1>8, <1>9, <1>10, <1>11, <1>12, <1>13, <1>14,
     <1>15, <1>16, <1>17, <1>18, <1>19, <1>20, <1>21 DEF Next, Payload, Tag

\* Every variable keeps its type, for every partition size and every bound.
THEOREM TypeCorrect == Spec => []TypeOK
<1>1. TypeInv => TypeOK
  BY DEF TypeInv
<1> QED
  BY <1>1, TypeInit, TypeStep, PTL DEF Spec


-----------------------------------------------------------------------------
(* The write positions.                                                    *)

\* WriteInv without the types, which TypeStep has proved already.
Shape == Frontier /\ Recycling /\ Erased /\ UndatedRun /\ PatchRange

\* The invariant in the two parts the proof treats apart.
LEMMA WriteInvParts == WriteInv <=> TypeInv /\ Shape
BY DEF WriteInv, TypeInv, Shape

\* With the power off, or before a format has finished, nothing is claimed.
LEMMA Down ==
  ASSUME pc' \in {"off", "disabled"} \/ (pc' = "erase" /\ job' = "format")
  PROVE  Shape'
BY DEF Shape, Running, Frontier, Recycling, Erased, UndatedRun, PatchRange

\* RAM unchanged, and cells disturbed only where a record already stands.
LEMMA CellsKept ==
  ASSUME WriteInv, UNCHANGED <<meta, unk>>, Running, pc # "tag", pc' \in {"idle", "patch"},
         dat' = dat,
         ClockSyncs =>
           \A s \in Sec, i \in Slot : dat[s][i] = Virgin => tag'[s][i] = tag[s][i],
         PatchRange'
  PROVE  Shape'
<1>1. ClockSyncs => \A s \in Sec, i \in Slot : CellVirgin(s, i) => CellVirgin(s, i)'
  BY DEF CellVirgin
<1>2. Frontier'
  BY <1>1 DEF WriteInv, TypeOK, Frontier, meta
<1>3. Recycling'
  BY <1>1 DEF WriteInv, TypeOK, Recycling, meta, unk
<1>4. UndatedRun'
  BY DEF WriteInv, UndatedRun, InRun, meta, unk
<1> QED
  BY <1>2, <1>3, <1>4 DEF Shape, Erased

\* A record write that fails while powered spoils the slot at the frontier only.
LEMMA FaultKept ==
  ASSUME WriteInv, pc \in {"payload", "tag"}, RecordFaults, GiveUp, UNCHANGED <<meta, unk>>,
         \A s \in Sec, i \in Slot : s # cur \/ i # slot =>
            dat'[s][i] = dat[s][i] /\ tag'[s][i] = tag[s][i]
  PROVE  Shape'
<1>1. /\ Running /\ slot < Slots /\ cur \in Sec /\ slot \in Int
      /\ pending = NoSec /\ prepared = NoSec /\ pc' = "idle"
  BY SlotsAssumption
  DEF WriteInv, TypeOK, JobMatches, Running, Recycling, GiveUp, Return
<1>2. \A i \in Slot : i > slot => dat'[cur][i] = dat[cur][i] /\ tag'[cur][i] = tag[cur][i]
  BY <1>1 DEF Slot
<1>3. Frontier'
  BY <1>1, <1>2 DEF WriteInv, Frontier, CellVirgin, meta, Slot
<1>4. Recycling'
  BY <1>1 DEF Recycling, meta
<1>5. UndatedRun'
  <2>1. \A s \in Sec, i \in Slot : InRun(s, i)' => InRun(s, i) /\ (s # cur \/ i # slot)
    BY <1>1 DEF InRun, meta, unk, Slot
  <2> QED
    BY <1>1, <2>1 DEF WriteInv, UndatedRun, meta, unk
<1> QED
  BY <1>1, <1>3, <1>4, <1>5 DEF Shape, Erased, PatchRange

\* An erase, complete or not, leaves the other sectors alone.
LEMMA EraseLocal ==
  ASSUME TypeOK, EraseAll(target) \/ ErasePartly(target)
  PROVE  \A s \in Sec : s # target => dat'[s] = dat[s] /\ tag'[s] = tag[s]
BY DEF TypeOK, EraseAll, ErasePartly

\* Preparing the next sector: it lies beyond the undated run, so erasing it
\* disturbs neither that run nor the frontier.
LEMMA EraseNext ==
  ASSUME WriteInv, pc = "erase", job # "format", EraseAll(target) \/ ErasePartly(target),
         UNCHANGED <<meta, unk>>,
         \/ pc' = "idle"
         \/ pc' = "header" /\ target' = target /\ job' = job /\ Erased'
  PROVE  Shape'
<1>1. Running
  BY DEF Running
<1>2. target = Succ(cur) /\ target # cur /\ cur \in Sec /\ target \in Sec /\ slot = Slots
      /\ prepared = NoSec
  BY <1>1, SuccType DEF WriteInv, Recycling, TypeOK
<1>3. \A s \in Sec : s # target => dat'[s] = dat[s] /\ tag'[s] = tag[s]
  BY EraseLocal DEF WriteInv
<1>4. Frontier'
  BY <1>1, <1>2, <1>3 DEF WriteInv, Frontier, CellVirgin, meta
<1>5. Recycling'
  BY <1>1, <1>2 DEF WriteInv, Recycling, meta, unk
<1>6. UndatedRun'
  <2>1. CASE ClockSyncs /\ unkCount > 0
    <3>1. Dist(unkSec, target) = Dist(unkSec, cur) + 1
      BY <1>1, <1>2, <2>1, DistSucc DEF WriteInv, Recycling, TypeOK
    <3>2. Dist(unkSec, cur) \in Int
      BY DistType DEF WriteInv, TypeOK, Sec
    <3>3. \A s \in Sec, i \in Slot : InRun(s, i)' => InRun(s, i) /\ s # target
      BY <3>1, <3>2 DEF InRun, meta, unk
    <3> QED
      BY <1>1, <1>3, <2>1, <3>3 DEF WriteInv, UndatedRun, meta, unk
  <2>2. CASE ~ (ClockSyncs /\ unkCount > 0)
    BY <2>2 DEF UndatedRun, unk
  <2> QED
    BY <2>1, <2>2
<1>7. PatchRange' /\ Erased'
  BY DEF PatchRange, Erased
<1> QED
  BY <1>4, <1>5, <1>6, <1>7 DEF Shape

\* Moving on to a sector that is virgin and does not start the undated run.
LEMMA AdvanceShape ==
  ASSUME WriteInv, Running, slot = Slots, NEW n \in Sec, n = Succ(cur),
         \A i \in Slot : dat[n][i] = Virgin,
         ClockSyncs => (\A i \in Slot : CellVirgin(n, i)) /\ (unkCount > 0 => n # unkSec),
         Advance(n), dat' = dat, tag' = tag, UNCHANGED unk,
         pc' = "payload", job' = "append"
  PROVE  Shape'
<1>1. Frontier'
  BY SlotsAssumption DEF Frontier, Advance, Slot, CellVirgin
<1>2. Recycling' /\ Erased' /\ PatchRange'
  BY DEF Recycling, Erased, PatchRange, Advance
<1>3. UndatedRun'
  <2>1. SUFFICES ASSUME ClockSyncs, unkCount > 0
                 PROVE  /\ \A s \in Sec, i \in Slot : InRun(s, i)' => dat[s][i] # Virgin
                        /\ cur' # unkSec
                        /\ unkCount <= Dist(unkSec, n) * Slots + 0 - unkSlot
    BY DEF UndatedRun, Advance, unk
  <2>2. /\ Dist(unkSec, n) = Dist(unkSec, cur) + 1
        /\ cur \in Sec /\ unkSec \in Sec /\ unkSlot \in Int /\ unkCount \in Int
        /\ Dist(unkSec, cur) \in Int
    BY <2>1, DistSucc, DistType DEF WriteInv, TypeOK, Sec, Slot
  <2>3. \A s \in Sec, i \in Slot : InRun(s, i)' => InRun(s, i)
    <3> SUFFICES ASSUME NEW s \in Sec, NEW i \in Slot, InRun(s, i)' PROVE InRun(s, i)
      OBVIOUS
    <3>1. s # n
      BY DEF InRun, Advance, Slot
    <3>2. Dist(unkSec, s) <= Dist(unkSec, n) /\ Dist(unkSec, s) # Dist(unkSec, n)
      BY <2>2, <3>1, DistInjective DEF InRun, Advance, unk
    <3>3. Dist(unkSec, s) \in Int
      BY <2>2, DistType DEF Sec
    <3> QED
      BY <2>2, <3>2, <3>3, SlotsAssumption DEF InRun, Advance, unk, Slot
  <2>4. unkCount <= Dist(unkSec, cur) * Slots + slot - unkSlot
    BY <2>1 DEF WriteInv, UndatedRun
  <2>5. Dist(unkSec, n) * Slots = Dist(unkSec, cur) * Slots + Slots
        /\ Dist(unkSec, cur) * Slots \in Int
    BY <2>2, SlotsProduct
  <2> QED
    BY <2>1, <2>2, <2>3, <2>4, <2>5, SlotsAssumption DEF WriteInv, UndatedRun, Advance
<1> QED
  BY <1>1, <1>2, <1>3 DEF Shape

\* The record at the frontier is written and the frontier moves up.
LEMMA AppendedShape ==
  ASSUME WriteInv, pc \in {"payload", "tag"}, Appended,
         dat'[cur][slot] # Virgin,
         \A s \in Sec, i \in Slot : s # cur \/ i # slot =>
            dat'[s][i] = dat[s][i] /\ tag'[s][i] = tag[s][i]
  PROVE  Shape'
<1>1. Running /\ slot < Slots /\ slot \in Slot /\ cur \in Sec /\ pending = NoSec /\ prepared = NoSec
  BY SlotsAssumption DEF WriteInv, TypeOK, JobMatches, Running, Recycling, Slot
<1>2. /\ slot' = slot + 1 /\ cur' = cur /\ prepared' = prepared /\ pending' = PreArmed
      /\ pc' = "idle" /\ job' = "none"
  BY DEF Appended, Return
<1>3. Frontier'
  BY <1>1, <1>2 DEF WriteInv, Frontier, CellVirgin, Slot
<1>4. Recycling'
  BY <1>1, <1>2, SlotsAssumption DEF Recycling, PreArmed, Slot
<1>5. Erased' /\ PatchRange'
  BY <1>2 DEF Erased, PatchRange
<1>6. UndatedRun'
  <2>0. unkCount \in Nat /\ unkSlot \in Slot /\ unkSec \in Sec
    BY DEF WriteInv, TypeOK
  <2>1. CASE ClockSyncs /\ unkCount > 0
    <3>1. unkSec' = unkSec /\ unkSlot' = unkSlot /\ unkCount' <= unkCount + 1 /\ unkCount' \in Int
      BY <2>0, <2>1 DEF Appended, unk
    <3>2. \A s \in Sec, i \in Slot : InRun(s, i)' => dat'[s][i] # Virgin
      BY <1>1, <1>2, <2>1, <3>1 DEF WriteInv, UndatedRun, InRun, Slot
    <3>3. (cur' = unkSec' => unkSlot' < slot') /\ unkCount <= Dist(unkSec, cur) * Slots + slot - unkSlot
      BY <1>1, <1>2, <2>0, <2>1, <3>1 DEF WriteInv, UndatedRun, Slot
    <3>4. Dist(unkSec, cur) * Slots \in Int
      BY <1>1, <2>0, DistType, SlotsProduct DEF Sec
    <3>5. unkCount' <= (Dist(unkSec, cur) * Slots + slot - unkSlot) + 1
      BY <1>1, <2>0, <3>1, <3>3, <3>4 DEF Slot
    <3>6. Dist(unkSec', cur') = Dist(unkSec, cur)
      BY <1>2, <3>1
    <3>7. unkCount' <= Dist(unkSec, cur) * Slots + slot' - unkSlot
      BY <1>1, <1>2, <2>0, <3>4, <3>5, <3>1 DEF Slot
    <3>8. unkCount' <= Dist(unkSec', cur') * Slots + slot' - unkSlot'
      BY <3>1, <3>6, <3>7
    <3> QED
      BY <3>2, <3>3, <3>8 DEF UndatedRun
  <2>2. CASE unkCount = 0 /\ dated
    <3>1. unkCount' = 0
      BY <2>2 DEF Appended, unk
    <3> QED
      BY <3>1 DEF UndatedRun
  <2>3. CASE unkCount = 0 /\ ~ dated
    <3>1. unkSec' = cur /\ unkSlot' = slot /\ unkCount' = 1
      BY <2>3 DEF Appended
    <3>2. Dist(cur, cur) = 0 /\ 0 * Slots = 0
      BY <1>1, DistType, SlotsProduct
    <3>3. \A s \in Sec, i \in Slot : InRun(s, i)' => s = cur /\ i = slot
      <4> SUFFICES ASSUME NEW s \in Sec, NEW i \in Slot, InRun(s, i)'
                   PROVE  s = cur /\ i = slot
        OBVIOUS
      <4>1. Dist(cur, s) <= 0 /\ Dist(cur, s) \in Sec
        BY <1>1, <1>2, <3>1, <3>2, DistType DEF InRun
      <4>2. s = cur
        BY <1>1, <4>1, DistType DEF Sec
      <4> QED
        BY <4>2, <1>1, <1>2, <3>1 DEF InRun, Slot
    <3>4. Dist(unkSec, cur)' = 0
      BY <1>2, <3>1, <3>2
    <3> QED
      BY <1>1, <1>2, <3>1, <3>2, <3>3, <3>4 DEF UndatedRun, Slot
  <2>4. CASE ~ ClockSyncs
    BY <2>4 DEF UndatedRun
  <2> QED
    BY <2>0, <2>1, <2>2, <2>3, <2>4
<1> QED
  BY <1>3, <1>4, <1>5, <1>6 DEF Shape

\* The payload of a dated record is written, its timestamp comes next.
LEMMA PayloadShape ==
  ASSUME WriteInv, pc = "payload", PayloadOk, dated
  PROVE  Shape'
<1>1. /\ Running /\ slot < Slots /\ slot \in Slot /\ cur \in Sec /\ job = "append"
      /\ ClockSyncs /\ ~ RecordFaults => tag[cur][slot] = "unknown"
  BY SlotsAssumption
  DEF PayloadOk, WriteInv, TypeOK, JobMatches, Running, Frontier, CellVirgin, Slot
<1>2. UNCHANGED <<meta, unk>> /\ pc' = "tag" /\ job' = job /\ tag' = tag
  BY DEF PayloadOk, args
<1>3. /\ dat'[cur][slot] # Virgin
      /\ \A s \in Sec, i \in Slot : s # cur \/ i # slot => dat'[s][i] = dat[s][i]
  BY <1>1 DEF PayloadOk, WritePayload, Programmed, WriteInv, TypeOK, JobMatches, Virgin, Torn
<1>4. Frontier'
  BY <1>1, <1>2, <1>3 DEF WriteInv, Frontier, CellVirgin, meta, Slot
<1>5. Recycling'
  <2>1. pending = NoSec /\ prepared = NoSec
    BY <1>1, SlotsAssumption DEF WriteInv, Recycling, Slot
  <2> QED
    BY <1>2, <2>1 DEF Recycling, meta
<1>6. UndatedRun'
  BY <1>1, <1>2, <1>3 DEF WriteInv, UndatedRun, InRun, meta, unk
<1> QED
  BY <1>2, <1>4, <1>5, <1>6 DEF Shape, Erased, PatchRange

\* What back-patching visits holds a record.
LEMMA PatchedSlot ==
  ASSUME WriteInv, pc = "patch", left > 0, ClockSyncs
  PROVE  InRun(target, at) /\ dat[target][at] # Virgin
<1>1. /\ unkCount > 0 /\ Running /\ unkSec \in Sec /\ cur \in Sec /\ target \in Sec
      /\ at \in Int /\ slot \in Int /\ left \in Int
      /\ at \in Slot
  BY SlotsAssumption DEF WriteInv, JobMatches, Running, TypeOK, Slot
<1>2. target = cur => at < slot
  <2>1. SUFFICES ASSUME target = cur PROVE at < slot
    OBVIOUS
  <2>2. (Dist(unkSec, cur) - Dist(unkSec, target)) * Slots = 0
    BY <1>1, <2>1, DistType, SlotsProduct DEF Sec
  <2>3. left <= 0 + slot - at
    BY <2>2 DEF WriteInv, PatchRange
  <2> QED
    BY <1>1, <2>3
<1>3. InRun(target, at)
  BY <1>2 DEF WriteInv, PatchRange, InRun
<1> QED
  BY <1>1, <1>3 DEF WriteInv, UndatedRun

\* One step of back-patching stays within the undated run.
LEMMA PatchStaysInRange ==
  ASSUME WriteInv, PatchSlot, ClockSyncs
  PROVE  PatchRange'
<1>1. /\ unkSec \in Sec /\ cur \in Sec /\ target \in Sec /\ at \in Slot /\ at \in Int
      /\ slot \in Int /\ slot <= Slots /\ left \in Nat /\ left > 0 /\ unkSlot \in Int
      /\ Dist(unkSec, target) \in Int /\ Dist(unkSec, cur) \in Int
      /\ Dist(unkSec, cur) <= Sectors - 1
      /\ UNCHANGED <<meta, unk, pc>> /\ pc = "patch" /\ left' = left - 1 /\ Slots \in Int
  <2>1. /\ unkSec \in Sec /\ cur \in Sec /\ target \in Sec /\ at \in Slot
        /\ slot \in 0 .. Slots /\ left \in Nat /\ unkSlot \in Slot
    BY DEF WriteInv, TypeOK
  <2>2. left > 0 /\ UNCHANGED <<meta, unk, pc>> /\ pc = "patch" /\ left' = left - 1
    BY DEF PatchSlot
  <2>3. Dist(unkSec, target) \in Sec /\ Dist(unkSec, cur) \in Sec
    BY <2>1, DistType
  <2> QED
    BY <2>1, <2>2, <2>3, SectorsAssumption, SlotsAssumption DEF Slot, Sec
<1>2. /\ Dist(unkSec, target) <= Dist(unkSec, cur)
      /\ target = unkSec => at >= unkSlot
      /\ left <= (Dist(unkSec, cur) - Dist(unkSec, target)) * Slots + slot - at
  BY <1>1 DEF WriteInv, PatchRange
<1>3. CASE at + 1 < Slots
  <2>1. at' = at + 1 /\ target' = target
    BY <1>3 DEF PatchSlot
  <2>2. (Dist(unkSec, cur) - Dist(unkSec, target)) * Slots \in Int
    BY <1>1, SlotsProduct
  <2>3. left' <= (Dist(unkSec, cur) - Dist(unkSec, target)) * Slots + slot - at'
    BY <1>1, <1>2, <2>1, <2>2
  <2> QED
    BY <1>1, <1>2, <2>1, <2>3 DEF PatchRange, meta, unk
<1>4. CASE ~ (at + 1 < Slots)
  <2>1. at' = 0 /\ target' = Succ(target) /\ at = Slots - 1
    BY <1>1, <1>4 DEF PatchSlot, Slot
  <2>2. CASE Dist(unkSec, target) = Dist(unkSec, cur)
    <3>1. left <= 0 + slot - at
      BY <1>1, <1>2, <2>2, SlotsProduct
    <3>2. left' <= 0
      BY <1>1, <2>1, <3>1
    <3> QED
      BY <1>1, <3>2 DEF PatchRange
  <2>3. CASE Dist(unkSec, target) < Dist(unkSec, cur)
    <3>1. Succ(target) # unkSec
      <4>1. SUFFICES ASSUME Succ(target) = unkSec PROVE Dist(unkSec, target) = Sectors - 1
        BY <1>1, <2>3
      <4> QED
        BY <1>1, <4>1, SectorsAssumption DEF Succ, Dist, Sec
    <3>2. Dist(unkSec, Succ(target)) = Dist(unkSec, target) + 1
      BY <1>1, <3>1, DistSucc
    <3>3. (Dist(unkSec, cur) - Dist(unkSec, Succ(target))) * Slots
            = (Dist(unkSec, cur) - Dist(unkSec, target)) * Slots - Slots
          /\ (Dist(unkSec, cur) - Dist(unkSec, target)) * Slots \in Int
      <4> DEFINE k == Dist(unkSec, cur) - Dist(unkSec, target)
      <4>1. k \in Int /\ Dist(unkSec, cur) - Dist(unkSec, Succ(target)) = k - 1
        BY <1>1, <3>2
      <4> HIDE DEF k
      <4>2. (k - 1) * Slots = k * Slots - Slots /\ k * Slots \in Int
        BY <4>1, SlotsProduct
      <4> QED
        BY <4>1, <4>2 DEF k
    <3>4. left' <= (Dist(unkSec, cur) - Dist(unkSec, Succ(target))) * Slots + slot - 0
      BY <1>1, <1>2, <2>1, <3>3
    <3>5. Dist(unkSec, Succ(target)) <= Dist(unkSec, cur)
      BY <1>1, <2>3, <3>2
    <3>6. Dist(unkSec', target') = Dist(unkSec, Succ(target)) /\ Dist(unkSec', cur') = Dist(unkSec, cur)
          /\ at' = 0 /\ slot' = slot /\ target' # unkSec'
      BY <1>1, <2>1, <3>1 DEF meta, unk
    <3>7. left' <= (Dist(unkSec', cur') - Dist(unkSec', target')) * Slots + slot' - at'
      BY <3>4, <3>6
    <3>8. Dist(unkSec', target') <= Dist(unkSec', cur')
      BY <3>5, <3>6
    <3> QED
      BY <3>6, <3>7, <3>8 DEF PatchRange
  <2>4. Dist(unkSec, target) = Dist(unkSec, cur) \/ Dist(unkSec, target) < Dist(unkSec, cur)
    <3>1. Dist(unkSec, target) \in Int /\ Dist(unkSec, cur) \in Int
          /\ Dist(unkSec, target) <= Dist(unkSec, cur)
      BY <1>1, <1>2
    <3> QED
      BY <3>1
  <2> QED
    BY <2>2, <2>3, <2>4
<1> QED
  BY <1>3, <1>4

\* The second part claims nothing at the start.
LEMMA InitShape == Init => Shape
BY DEF Init, Shape, Running, Frontier, Recycling, Erased, UndatedRun, PatchRange

\* Every step keeps the second part.
LEMMA ShapeStep ==
  ASSUME WriteInv, [Next]_vars
  PROVE  Shape'
<1>0. TypeOK /\ JobMatches
  BY DEF WriteInv
<1>1. CASE BeginFresh
  BY <1>1, Down DEF BeginFresh
<1>2. CASE Begin
  <2>1. /\ pc' = "idle" /\ pc = "off" /\ dat' = dat /\ tag' = tag
        /\ pending' = NoSec /\ prepared' = NoSec /\ unkCount' = 0
    BY <1>0, <1>2 DEF Begin, JobMatches, flash, unk
  <2>2. \A i \in Slot : i >= slot' => CellVirgin(cur', i)
    BY <1>2 DEF Begin, IsFreeSlot
  <2>3. Frontier'
    BY <1>0, <1>2, <2>1, <2>2 DEF Frontier, CellVirgin, Begin, TypeOK, Slot
  <2> QED
    BY <2>1, <2>3 DEF Shape, Recycling, Erased, UndatedRun, PatchRange
<1>3. CASE EraseOk
  <2>1. pc = "erase" /\ EraseAll(target) /\ pc' = "header" /\ UNCHANGED <<meta, unk, args>>
    BY <1>3 DEF EraseOk
  <2>2. Erased'
    BY <1>0, <2>1 DEF Erased, EraseAll, CellVirgin, args, TypeOK
  <2>3. CASE job = "format"
    BY <2>1, <2>2, <2>3
    DEF Shape, Running, Frontier, Recycling, UndatedRun, PatchRange, args
  <2>4. CASE job # "format"
    BY <2>1, <2>2, <2>4, EraseNext DEF args
  <2> QED
    BY <2>3, <2>4
<1>4. CASE EraseFail
  <2>1. CASE job = "format"
    BY <1>4, <2>1, Down DEF EraseFail, GiveUp, Return
  <2>2. CASE job # "format"
    BY <1>4, <2>2, EraseNext DEF EraseFail, GiveUp, Return
  <2> QED
    BY <2>1, <2>2
<1>5. CASE HeaderFail
  <2>1. CASE job = "format"
    BY <1>5, <2>1, Down DEF HeaderFail, GiveUp, Return
  <2>2. CASE job # "format"
    BY <1>5, <2>2, CellsKept DEF HeaderFail, GiveUp, Return, Running, PatchRange
  <2> QED
    BY <2>1, <2>2
<1>6. CASE FormatDone
  <2>1. /\ pc' = "idle" /\ cur' = 0 /\ slot' = 0 /\ target = 0 /\ dat' = dat /\ tag' = tag
        /\ pending' = NoSec /\ prepared' = NoSec /\ unkCount' = 0
    BY <1>0, <1>6 DEF FormatDone, JobMatches, Return, unk
  <2>2. \A i \in Slot : CellVirgin(0, i)
    BY <1>6, <2>1 DEF FormatDone, WriteInv, Erased
  <2> QED
    BY <2>1, <2>2 DEF Shape, Frontier, Recycling, Erased, UndatedRun, PatchRange, CellVirgin
<1>7. CASE ServiceDone
  <2>1. /\ Running /\ pc = "header" /\ job = "service"
        /\ pc' = "idle" /\ prepared' = target /\ UNCHANGED <<dat, tag, cur, slot, pending, unk>>
    BY <1>7 DEF ServiceDone, Return, Running
  <2>2. /\ target = Succ(cur) /\ slot = Slots /\ pending = NoSec
        /\ ClockSyncs /\ unkCount > 0 => target # unkSec
        /\ \A i \in Slot : CellVirgin(target, i)
    BY <2>1 DEF WriteInv, Recycling, Erased
  <2>3. Frontier'
    BY <2>1 DEF WriteInv, Frontier, CellVirgin
  <2>4. Recycling'
    BY <2>1, <2>2 DEF Recycling, CellVirgin, unk
  <2>5. UndatedRun'
    BY <2>1 DEF WriteInv, UndatedRun, InRun, unk
  <2> QED
    BY <2>1, <2>3, <2>4, <2>5 DEF Shape, Erased, PatchRange
<1>8. CASE AdvanceDone
  <2>1. /\ Running /\ pc = "header" /\ job = "append" /\ job' = job /\ Advance(target)
        /\ pc' = "payload" /\ dat' = dat /\ tag' = tag /\ UNCHANGED unk
    BY <1>8 DEF AdvanceDone, Running, args
  <2>2. /\ target \in Sec /\ target = Succ(cur) /\ slot = Slots
        /\ ClockSyncs /\ unkCount > 0 => target # unkSec
        /\ \A i \in Slot : CellVirgin(target, i)
    BY <1>0, <2>1 DEF WriteInv, Recycling, Erased, TypeOK
  <2>3. \A i \in Slot : dat[target][i] = Virgin
    BY <2>2 DEF CellVirgin
  <2> QED
    BY <2>1, <2>2, <2>3, AdvanceShape
<1>9. ASSUME NEW d \in BOOLEAN, BeginAppend(d) PROVE Shape'
  <2>1. /\ pc = "idle" /\ job = "none" /\ Running /\ dat' = dat /\ tag' = tag
        /\ UNCHANGED unk /\ Succ(cur) \in Sec /\ slot \in 0 .. Slots
    BY <1>0, <1>9, SuccType DEF BeginAppend, JobMatches, Running, flash, TypeOK
  <2>2. CASE slot < Slots
    <3>1. pc' = "payload" /\ UNCHANGED meta /\ pending = NoSec /\ prepared = NoSec
      BY <1>9, <2>1, <2>2, SlotsAssumption DEF BeginAppend, WriteInv, Recycling
    <3>2. Frontier'
      BY <2>1, <3>1 DEF WriteInv, Frontier, CellVirgin, meta
    <3>3. UndatedRun'
      BY <2>1, <3>1 DEF WriteInv, UndatedRun, InRun, meta, unk
    <3>4. Recycling'
      BY <3>1 DEF Recycling, meta
    <3> QED
      BY <3>1, <3>2, <3>3, <3>4 DEF Shape, Erased, PatchRange
  <2>3. CASE ~ (slot < Slots) /\ prepared = Succ(cur)
    <3>1. prepared # NoSec
      BY <2>1, <2>3, Zero
    <3>2. /\ slot = Slots /\ \A i \in Slot : dat[Succ(cur)][i] = Virgin
          /\ ClockSyncs => /\ \A i \in Slot : CellVirgin(Succ(cur), i)
                           /\ unkCount > 0 => Succ(cur) # unkSec
      BY <2>1, <2>3, <3>1 DEF WriteInv, Recycling
    <3> QED
      BY <1>9, <2>1, <2>3, <3>2, AdvanceShape DEF BeginAppend
  <2>4. CASE ~ (slot < Slots) /\ prepared # Succ(cur)
    <3>1. /\ pc' = "erase" /\ job' = "append" /\ target' = Succ(cur) /\ UNCHANGED meta
          /\ slot = Slots
      BY <1>9, <2>1, <2>4, SlotsAssumption DEF BeginAppend, Prepare
    <3>2. prepared = NoSec
      BY <2>1, <2>4 DEF WriteInv, Recycling
    <3>3. ClockSyncs /\ unkCount > 0 => Succ(cur) # unkSec
      BY <1>9, <3>1 DEF BeginAppend, ClockInTime
    <3>4. Frontier'
      BY <2>1, <3>1 DEF WriteInv, Frontier, CellVirgin, meta
    <3>5. UndatedRun'
      BY <2>1, <3>1 DEF WriteInv, UndatedRun, InRun, meta, unk
    <3>6. Recycling'
      BY <2>1, <3>1, <3>2, <3>3 DEF WriteInv, Recycling, meta, unk
    <3> QED
      BY <3>1, <3>4, <3>5, <3>6 DEF Shape, Erased, PatchRange
  <2> QED
    BY <2>2, <2>3, <2>4
<1>10. CASE pc = "payload" /\ PayloadOk
  <2>1. CASE dated
    BY <1>10, <2>1, PayloadShape
  <2>2. CASE ~ dated
    <3>1. pc = "payload" /\ Appended /\ tag' = tag
          /\ WritePayload(Programmed(dat[cur][slot], appended))
      BY <1>10, <2>2 DEF PayloadOk
    <3>2. slot \in Slot /\ cur \in Sec /\ appended # Virgin
      BY <1>0, <3>1, SlotsAssumption DEF TypeOK, JobMatches, Slot, Virgin
    <3>3. /\ dat'[cur][slot] # Virgin
          /\ \A s \in Sec, i \in Slot : s # cur \/ i # slot => dat'[s][i] = dat[s][i]
      BY <1>0, <3>1, <3>2 DEF WritePayload, Programmed, TypeOK, Virgin, Torn
    <3> QED
      BY <3>1, <3>3, AppendedShape
  <2> QED
    BY <2>1, <2>2
<1>11. CASE pc = "tag" /\ TagOk
  <2>1. pc = "tag" /\ Appended /\ dat' = dat /\ dat[cur][slot] # Virgin
    BY <1>11 DEF TagOk, WriteInv, Frontier
  <2>2. \A s \in Sec, i \in Slot : s # cur \/ i # slot => tag'[s][i] = tag[s][i]
    BY <1>0, <1>11 DEF TagOk, WriteTag, TypeOK
  <2> QED
    BY <2>1, <2>2, AppendedShape
<1>12. CASE pc = "payload" /\ PayloadFail
  <2>1. /\ RecordFaults /\ GiveUp /\ tag' = tag /\ UNCHANGED <<meta, unk>>
        /\ \E v \in Failed(dat[cur][slot]) : WritePayload(v)
    BY <1>12 DEF PayloadFail
  <2>2. \A s \in Sec, i \in Slot : s # cur \/ i # slot => dat'[s][i] = dat[s][i]
    BY <1>0, <2>1 DEF WritePayload, TypeOK
  <2> QED
    BY <1>12, <2>1, <2>2, FaultKept
<1>19. CASE pc = "tag" /\ TagFail
  <2>1. /\ RecordFaults /\ GiveUp /\ dat' = dat /\ UNCHANGED <<meta, unk>>
        /\ \E t \in TagFailed(tag[cur][slot]) : WriteTag(cur, slot, t)
    BY <1>19 DEF TagFail
  <2>2. \A s \in Sec, i \in Slot : s # cur \/ i # slot => tag'[s][i] = tag[s][i]
    BY <1>0, <2>1 DEF WriteTag, TypeOK
  <2> QED
    BY <1>19, <2>1, <2>2, FaultKept
<1>13. CASE ServiceErase
  <2>1. /\ pc = "idle" /\ Running /\ pending # NoSec /\ pending' = NoSec
        /\ pc' = "erase" /\ job' = "service" /\ target' = pending /\ dat' = dat /\ tag' = tag
        /\ UNCHANGED <<cur, slot, prepared, unk>>
        /\ ClockSyncs /\ unkCount > 0 => pending # unkSec
    BY <1>0, <1>13
    DEF ServiceErase, Prepare, Running, JobMatches, flash, ClockInTime
  <2>2. pending = Succ(cur) /\ slot = Slots /\ prepared = NoSec
    BY <2>1 DEF WriteInv, Recycling
  <2>3. Frontier'
    BY <2>1 DEF WriteInv, Frontier, CellVirgin
  <2>4. Recycling'
    BY <2>1, <2>2 DEF Recycling, unk
  <2>5. UndatedRun'
    BY <2>1 DEF WriteInv, UndatedRun, InRun, unk
  <2> QED
    BY <2>1, <2>3, <2>4, <2>5 DEF Shape, Erased, PatchRange
<1>14. CASE Patch
  <2>1. /\ Running /\ pc = "idle" /\ pc' = "patch" /\ unkCount > 0 /\ UNCHANGED <<meta, unk>>
        /\ target' = unkSec /\ at' = unkSlot /\ left' = unkCount /\ dat' = dat /\ tag' = tag
    BY <1>0, <1>14 DEF Patch, Running, JobMatches, flash
  <2>2. PatchRange'
    <3> SUFFICES ASSUME ClockSyncs PROVE PatchRange'
      BY DEF PatchRange
    <3>1. Dist(unkSec, unkSec) = 0 /\ Dist(unkSec, cur) \in Int /\ Dist(unkSec, cur) >= 0
          /\ unkSlot \in Int
      BY <1>0, DistType DEF TypeOK, Sec, Slot
    <3>2. Dist(unkSec, cur) - 0 = Dist(unkSec, cur)
      BY <3>1
    <3>3. unkCount <= Dist(unkSec, cur) * Slots + slot - unkSlot
      BY <2>1 DEF WriteInv, UndatedRun
    <3> QED
      BY <2>1, <3>1, <3>2, <3>3 DEF PatchRange, meta, unk
  <2> QED
    BY <2>1, <2>2, CellsKept
<1>15. CASE PatchSlot
  <2>1. pc = "patch" /\ left > 0 /\ pc' = pc /\ Running /\ dat' = dat /\ UNCHANGED <<meta, unk>>
    BY <1>0, <1>15 DEF PatchSlot, Running, JobMatches
  <2>2. ClockSyncs =>
          \A s \in Sec, i \in Slot : dat[s][i] = Virgin => tag'[s][i] = tag[s][i]
    <3>1. ClockSyncs => dat[target][at] # Virgin
      BY <2>1, PatchedSlot
    <3>2. \A s \in Sec, i \in Slot : s # target \/ i # at => tag'[s][i] = tag[s][i]
      BY <1>0, <1>15 DEF PatchSlot, WriteTag, TypeOK
    <3> QED
      BY <3>1, <3>2
  <2>3. PatchRange'
    BY <1>15, PatchStaysInRange DEF PatchRange
  <2> QED
    BY <2>1, <2>2, <2>3, CellsKept
<1>16. CASE PatchDone
  <2>1. /\ Running /\ pc = "patch" /\ pc' = "idle" /\ UNCHANGED meta /\ unkCount' = 0
        /\ dat' = dat /\ tag' = tag
    BY <1>0, <1>16 DEF PatchDone, Return, Running, JobMatches, flash
  <2>2. Frontier'
    BY <2>1 DEF WriteInv, Frontier, CellVirgin, meta
  <2>3. Recycling'
    BY <2>1 DEF WriteInv, Recycling, CellVirgin, meta
  <2> QED
    BY <2>1, <2>2, <2>3 DEF Shape, Erased, UndatedRun, PatchRange
<1>17. CASE PowerCut \/ PowerCutInWrite
  BY <1>17, Down DEF PowerCut, PowerCutInWrite, LosePower, Return
<1>18. CASE UNCHANGED vars
  <2>1. UNCHANGED <<flash, meta, unk, args, pc, hist>>
    BY <1>18 DEF vars, flash, meta, unk, args, hist
  <2>2. Frontier' /\ Recycling' /\ Erased'
    BY <2>1 DEF WriteInv, Frontier, Recycling, Erased, CellVirgin, Running, flash, meta, unk, args
  <2>3. UndatedRun' /\ PatchRange'
    BY <2>1 DEF WriteInv, UndatedRun, InRun, PatchRange, Running, flash, meta, unk, args
  <2> QED
    BY <2>2, <2>3 DEF Shape
<1> QED
  BY <1>1, <1>2, <1>3, <1>4, <1>5, <1>6, <1>7, <1>8, <1>9, <1>10, <1>11, <1>12, <1>13,
     <1>14, <1>15, <1>16, <1>17, <1>18, <1>19 DEF Next, Payload, Tag

\* The write positions are as they should be, in every environment.
THEOREM WritePositions == Spec => []WriteInv
<1>1. Init => WriteInv
  BY TypeInit, InitShape, WriteInvParts
<1>2. WriteInv /\ [Next]_vars => WriteInv'
  BY TypeStep, ShapeStep, WriteInvParts DEF WriteInv, TypeInv, Shape
<1> QED
  BY <1>1, <1>2, PTL DEF Spec

\* Every header, record and timestamp is written over virgin bytes (the
\* promise in partition_flash.h), whatever the size of the ring and wherever
\* power is cut.
THEOREM WritesAreVirgin == Environment => (Spec => []VirginWrites)
<1> SUFFICES ASSUME Environment PROVE Spec => []VirginWrites
  OBVIOUS
<1>1. WriteInv => VirginWrites
  <2> SUFFICES ASSUME WriteInv PROVE VirginWrites
    OBVIOUS
  <2>1. pc = "header" => hdr[target] = Virgin /\ \A i \in Slot : CellVirgin(target, i)
    BY DEF WriteInv, Erased
  <2>2. pc = "payload" => CellVirgin(cur, slot)
    BY SlotsAssumption DEF WriteInv, TypeOK, JobMatches, Running, Frontier, Slot, Environment
  <2>3. pc = "tag" => tag[cur][slot] = "unknown"
    BY DEF WriteInv, Frontier, Environment
  <2> QED
    BY <2>1, <2>2, <2>3 DEF VirginWrites
<1> QED
  BY <1>1, WritePositions, PTL

\* Back-patching visits only slots that a record was written to, as long as the
\* clock syncs before the ring comes round, whatever writes fail meanwhile.
THEOREM PatchesDateRecords == ClockSyncs => (Spec => []DatesRecords)
<1> SUFFICES ASSUME ClockSyncs PROVE Spec => []DatesRecords
  OBVIOUS
<1>1. WriteInv => DatesRecords
  BY PatchedSlot DEF DatesRecords
<1> QED
  BY <1>1, WritePositions, PTL

\* A write that reports failure leaves everything above the frontier virgin.
THEOREM FaultsStayAtFrontier == ClockSyncs => (Spec => []FaultContained)
<1> SUFFICES ASSUME ClockSyncs PROVE Spec => []FaultContained
  OBVIOUS
<1>1. WriteInv => FaultContained
  BY DEF WriteInv, JobMatches, Running, Frontier, FaultContained
<1> QED
  BY <1>1, WritePositions, PTL

\* One write of a timestamp changes one cell.
LEMMA TagLocal ==
  ASSUME TypeOK, NEW s \in Sec, NEW i, NEW t, WriteTag(s, i, t)
  PROVE  \A r \in Sec, j \in Slot : tag'[r][j] # tag[r][j] => r = s /\ j = i
BY DEF TypeOK, WriteTag

\* Where a timestamp goes that append() writes, none stands.
LEMMA TagFree ==
  ASSUME Environment, WriteInv, pc = "tag"
  PROVE  tag[cur][slot] # "dated"
BY DEF Environment, WriteInv, Frontier

\* A timestamp once written goes only with its sector: append() dates an empty
\* word, and back-patching passes over one that is dated.
THEOREM DatesStay == Environment => (Spec => DatedStays)
<1> DEFINE Stays == \A s \in Sec, i \in Slot :
                      tag[s][i] = "dated" /\ tag'[s][i] # "dated" => pc = "erase" /\ s = target
<1>1. ASSUME Environment, WriteInv, [Next]_vars
      PROVE  Stays
  <2>0. TypeOK /\ target \in Sec /\ cur \in Sec
    BY <1>1 DEF WriteInv, TypeOK
  <2>1. CASE tag' = tag
    BY <2>1
  <2>2. CASE pc = "erase" /\ (EraseAll(target) \/ ErasePartly(target))
    BY <2>0, <2>2, EraseLocal
  <2>3. CASE pc = "tag" /\ \E t : WriteTag(cur, slot, t)
    <3>1. PICK t : WriteTag(cur, slot, t)
      BY <2>3
    <3>2. \A r \in Sec, j \in Slot : tag'[r][j] # tag[r][j] => r = cur /\ j = slot
      BY <2>0, <3>1, TagLocal
    <3>3. tag[cur][slot] # "dated"
      BY <1>1, <2>3, TagFree
    <3> QED
      BY <3>2, <3>3
  <2>4. ASSUME NEW t, WriteTag(target, at, t), tag[target][at] = "dated" => t = "dated"
        PROVE  Stays
    <3>2. tag[target][at] = "dated" => tag' = tag
      <4> SUFFICES ASSUME tag[target][at] = "dated" PROVE tag' = tag
        OBVIOUS
      <4>1. tag' = [tag EXCEPT ![target][at] = tag[target][at]]
        BY <2>4 DEF WriteTag
      <4> QED
        BY <2>0, <4>1 DEF TypeOK
    <3> QED
      BY <2>0, <2>4, <3>2, TagLocal
  <2>5. CASE PatchSlot
    <3>1. PICK t \in {Filled(tag[target][at])} \cup TagFailed(tag[target][at]) :
            WriteTag(target, at, t) /\ (tag[target][at] = "dated" => t = "dated")
      BY <2>5 DEF PatchSlot, Filled
    <3> QED
      BY <2>4, <3>1
  <2>6. CASE PowerCutInWrite
    <3>1. CASE pc = "tag" /\ \E t \in TagCutShort(tag[cur][slot]) : WriteTag(cur, slot, t)
      BY <2>3, <3>1
    <3>2. CASE \E t \in IF tag[target][at] = "unknown" THEN TagCutShort("unknown")
                         ELSE {tag[target][at]} : WriteTag(target, at, t)
      <4>1. PICK t \in IF tag[target][at] = "unknown" THEN TagCutShort("unknown")
                        ELSE {tag[target][at]} : WriteTag(target, at, t)
        BY <3>2
      <4> QED
        BY <2>4, <4>1
    <3> QED
      BY <2>1, <2>2, <2>6, <3>1, <3>2 DEF PowerCutInWrite
  <2>7. CASE pc = "tag" /\ (TagOk \/ TagFail)
    BY <2>3, <2>7 DEF TagOk, TagFail
  <2>8. CASE EraseOk \/ EraseFail
    BY <2>2, <2>8 DEF EraseOk, EraseFail
  <2>9. ~ (PatchSlot \/ PowerCutInWrite \/ Tag \/ EraseOk \/ EraseFail) => tag' = tag
    BY <1>1
    DEF Next, BeginFresh, Begin, HeaderFail, FormatDone, ServiceDone, AdvanceDone, BeginAppend,
        Payload, PayloadOk, PayloadFail, ServiceErase, Patch, PatchDone, PowerCut, vars, flash
  <2> QED
    BY <2>1, <2>5, <2>6, <2>7, <2>8, <2>9 DEF Tag
<1>2. WriteInv /\ [Next]_vars /\ Environment => [Stays]_vars
  BY <1>1
<1> SUFFICES ASSUME Environment PROVE Spec => DatedStays
  OBVIOUS
<1> QED
  BY <1>2, WritePositions, PTL DEF Spec, DatedStays

-----------------------------------------------------------------------------
(* More ring arithmetic: distances to a fixed sector.                      *)

\* Two sectors equally far behind a third are the same one.
LEMMA BehindInjective ==
  ASSUME NEW a \in Sec, NEW b \in Sec, NEW c \in Sec, Dist(a, c) = Dist(b, c)
  PROVE  a = b
BY SectorsAssumption DEF Sec, Dist

\* The sector after c is the farthest behind it, and no other is as far.
LEMMA Farthest ==
  ASSUME NEW c \in Sec, NEW s \in Sec
  PROVE  /\ Dist(s, c) <= Sectors - 1
         /\ Dist(s, c) = Sectors - 1 <=> s = Succ(c)
BY SectorsAssumption DEF Sec, Dist, Succ

\* One step along the ring, in front of c or behind it.
LEMMA Behind ==
  ASSUME NEW c \in Sec, NEW s \in Sec
  PROVE  /\ s # c => Dist(Succ(s), c) = Dist(s, c) - 1
         /\ s # Succ(c) => Dist(Pred(s), c) = Dist(s, c) + 1
         /\ Pred(s) \in Sec /\ Pred(Succ(s)) = s
BY SectorsAssumption DEF Sec, Dist, Succ, Pred

-----------------------------------------------------------------------------
(* The chain of sequence numbers.                                          *)

\* The valid headers are the same in the next state.
SameHeaders ==
  \A s \in Sec : (HdrValid(s)' <=> HdrValid(s)) /\ (HdrValid(s) => hdr'[s] = hdr[s])

\* The head of the chain is the newest sector, the only one.
LEMMA HeadIsNewest ==
  ASSUME TypeOK, NEW c \in Sec, ChainAt(c), NEW n \in Sec
  PROVE  IsNewest(n) <=> n = c
<1>1. \A s \in Sec : HdrValid(s) => hdr[s] = hdr[c] - Dist(s, c) /\ Dist(s, c) \in Sec
  BY DistType DEF ChainAt
<1>2. \A s \in Sec : hdr[s] \in Int
  BY DEF TypeOK
<1>3. HdrValid(c)
  BY DEF ChainAt
<1>4. ASSUME n = c PROVE IsNewest(n)
  BY <1>1, <1>2, <1>3, <1>4 DEF IsNewest, Sec
<1>5. ASSUME IsNewest(n) PROVE n = c
  <2>1. HdrValid(n) /\ hdr[c] <= hdr[n]
    BY <1>3, <1>5 DEF IsNewest
  <2>2. Dist(n, c) = 0
    BY <1>1, <1>2, <2>1 DEF Sec
  <2> QED
    BY <2>2, DistType
<1> QED
  BY <1>4, <1>5

\* The chain depends on the valid headers only.
LEMMA ChainSame ==
  ASSUME SameHeaders, NEW c \in Sec, ChainAt(c)
  PROVE  ChainAt(c)'
BY DEF SameHeaders, ChainAt

\* The chain and the range served survive a step that leaves the valid headers
\* and the bookkeeping alone.
LEMMA HeadKept ==
  ASSUME IInv, SameHeaders, UNCHANGED <<cur, oldest, slot, seq, count, prepared>>,
         Running' => Running, job' = "format" => job = "format"
  PROVE  Chain' /\ Served'
<1>1. cur \in Sec /\ (prepared # NoSec => prepared \in Sec)
  BY DEF IInv, WriteInv, TypeOK
<1>2. \A c \in Sec : ChainAt(c) => ChainAt(c)'
  BY ChainSame
<1>3. NoHeader => NoHeader'
  BY DEF SameHeaders, NoHeader
<1>4. Running => Top \in Sec /\ Top' = Top
  BY <1>1 DEF Top
<1>5. Running' => ChainAt(Top)' /\ HdrValid(cur)' /\ hdr'[cur'] = seq'
  <2> SUFFICES ASSUME Running' PROVE ChainAt(Top)' /\ HdrValid(cur)' /\ hdr'[cur'] = seq'
    OBVIOUS
  <2>1. ChainAt(Top) /\ HdrValid(cur) /\ hdr[cur] = seq /\ Top \in Sec /\ Top' = Top
    BY <1>4 DEF IInv, RingInv, Chain
  <2>2. ChainAt(Top)'
    BY <2>1, ChainSame DEF SameHeaders, ChainAt
  <2> QED
    BY <1>1, <2>1, <2>2 DEF SameHeaders, HdrValid
<1>6. Chain'
  BY <1>2, <1>3, <1>5 DEF IInv, RingInv, Chain
<1>7. Served'
  BY DEF IInv, RingInv, Served, SameHeaders
<1> QED
  BY <1>6, <1>7

\* What a step of the running store finds when it prepares the next sector.
LEMMA Preparing ==
  ASSUME IInv, pc \in {"erase", "header"}, job # "format"
  PROVE  /\ Running /\ cur \in Sec /\ oldest \in Sec /\ target \in Sec
         /\ target = Succ(cur) /\ target # cur /\ slot = Slots
         /\ prepared = NoSec /\ Top = cur /\ ChainAt(cur) /\ hdr[cur] = seq /\ seq \in Nat
         /\ HdrValid(cur)
<1>1. Running
  BY DEF Running
<1>2. cur \in Sec /\ oldest \in Sec /\ target \in Sec /\ seq \in Nat
  BY DEF IInv, WriteInv, TypeOK
<1>3. target = Succ(cur) /\ slot = Slots /\ prepared = NoSec
  BY <1>1 DEF IInv, WriteInv, Recycling
<1>4. Top = cur
  BY <1>3 DEF Top
<1>5. ChainAt(Top) /\ HdrValid(cur) /\ hdr[cur] = seq
  BY <1>1 DEF IInv, RingInv, Chain
<1> QED
  BY <1>1, <1>2, <1>3, <1>4, <1>5, SuccType

\* What an erase does to the headers.
LEMMA EraseHeader ==
  ASSUME TypeOK, NEW t \in Sec, EraseAll(t) \/ ErasePartly(t)
  PROVE  /\ \A s \in Sec : s # t => hdr'[s] = hdr[s]
         /\ hdr'[t] \in {hdr[t], Torn, Virgin}
BY DEF TypeOK, EraseAll, ErasePartly

\* The next sector lies at the far end of the chain, so the chain survives when
\* its header goes, wholly or not.
LEMMA EraseChain ==
  ASSUME IInv, pc = "erase", job # "format", EraseAll(target) \/ ErasePartly(target),
         NEW c \in Sec, c = cur
  PROVE  ChainAt(c)' /\ HdrValid(c)' /\ hdr'[c] = hdr[c]
<1>0. /\ target \in Sec /\ target = Succ(c) /\ target # c /\ ChainAt(c)
      /\ TypeOK
  BY Preparing DEF IInv, WriteInv
<1>1. /\ \A s \in Sec : s # target => hdr'[s] = hdr[s]
      /\ hdr'[target] \in {hdr[target], Torn, Virgin}
  BY <1>0, EraseHeader
<1>2. \A s \in Sec : HdrValid(s)' => HdrValid(s) /\ hdr'[s] = hdr[s]
  BY <1>1 DEF HdrValid, Torn, Virgin
<1>3. \A s \in Sec : HdrValid(s) /\ s # target => HdrValid(s)'
  BY <1>1 DEF HdrValid
<1>4. ASSUME NEW s \in Sec, HdrValid(s)', NEW t \in Sec, Dist(t, c) <= Dist(s, c)
      PROVE  HdrValid(t)'
  <2>1. HdrValid(t)
    BY <1>0, <1>2, <1>4 DEF ChainAt
  <2>2. t = target => s = target
    <3>1. Dist(t, c) \in Int /\ Dist(s, c) \in Int
      BY DistType DEF Sec
    <3> QED
      BY <1>0, <1>4, <3>1, Farthest, SectorsAssumption
  <2> QED
    BY <1>3, <1>4, <2>1, <2>2
<1>5. HdrValid(c)' /\ hdr'[c] = hdr[c]
  BY <1>0, <1>1, <1>3 DEF ChainAt
<1> QED
  BY <1>0, <1>2, <1>4, <1>5 DEF ChainAt

\* It loses at most the next sector, which is then the oldest one.
LEMMA EraseServed ==
  ASSUME IInv, pc = "erase", job # "format", EraseAll(target) \/ ErasePartly(target),
         UNCHANGED meta
  PROVE  Served' /\ (Running' /\ job' # "format" => Chain')
<1>0. /\ Running /\ cur \in Sec /\ oldest \in Sec /\ target \in Sec /\ target = Succ(cur)
      /\ target # cur /\ slot = Slots /\ prepared = NoSec /\ hdr[cur] = seq /\ TypeOK
  BY Preparing DEF IInv, WriteInv
<1>1. /\ \A s \in Sec : s # target => hdr'[s] = hdr[s]
      /\ hdr'[target] \in {hdr[target], Torn, Virgin}
  BY <1>0, EraseHeader
<1>2. \A s \in Sec : HdrValid(s)' => HdrValid(s)
  BY <1>1 DEF HdrValid, Torn, Virgin
<1>3. \A s \in Sec : HdrValid(s) /\ s # target => HdrValid(s)'
  BY <1>1 DEF HdrValid
<1>4. \A s \in Sec : Dist(s, cur) <= Dist(oldest, cur) =>
        HdrValid(s)' \/ (s = oldest /\ s = Succ(cur) /\ slot = Slots)
  <2> SUFFICES ASSUME NEW s \in Sec, Dist(s, cur) <= Dist(oldest, cur)
               PROVE  HdrValid(s)' \/ (s = oldest /\ s = Succ(cur))
    BY <1>0
  <2>1. CASE s # target
    BY <1>0, <1>3, <2>1 DEF IInv, RingInv, Served
  <2>2. CASE s = target
    <3>1. Dist(s, cur) = Sectors - 1 /\ Dist(oldest, cur) <= Sectors - 1
          /\ Dist(oldest, cur) \in Int
      BY <1>0, <2>2, Farthest, DistType DEF Sec
    <3> QED
      BY <1>0, <2>2, <3>1, Farthest, SectorsAssumption
  <2> QED
    BY <2>1, <2>2
<1>5. Served'
  BY <1>0, <1>2, <1>4 DEF IInv, RingInv, Served, meta
<1>6. Top' = cur /\ cur' = cur /\ seq' = seq
  BY <1>0 DEF Top, meta
<1>7. \A c \in Sec : c = cur => ChainAt(c)' /\ HdrValid(c)' /\ hdr'[c] = hdr[c]
  BY EraseChain
<1>8. (\E c \in Sec : ChainAt(c)') /\ ChainAt(Top)' /\ HdrValid(cur)' /\ hdr'[cur] = seq
  <2>1. \E c \in Sec : c = cur /\ ChainAt(c)' /\ HdrValid(c)' /\ hdr'[c] = hdr[c]
    BY <1>0, <1>7
  <2> QED
    BY <1>0, <1>6, <2>1 DEF ChainAt, HdrValid
<1> QED
  BY <1>5, <1>6, <1>8 DEF Chain

\* A header written to the next sector extends the chain by one.
LEMMA HeaderChain ==
  ASSUME IInv, pc = "header", job # "format", hdr' = [hdr EXCEPT ![target] = seq + 1],
         NEW c \in Sec, c = target
  PROVE  ChainAt(c)' /\ HdrValid(c)' /\ hdr'[c] = seq + 1
<1>0. /\ cur \in Sec /\ c = Succ(cur) /\ c # cur /\ ChainAt(cur) /\ hdr[cur] = seq
      /\ seq \in Nat /\ TypeOK
  BY Preparing DEF IInv, WriteInv
<1>1. /\ hdr'[c] = seq + 1
      /\ \A s \in Sec : s # c => hdr'[s] = hdr[s]
  BY <1>0 DEF TypeOK
<1>2. HdrValid(c)' /\ \A s \in Sec : s # c => (HdrValid(s)' <=> HdrValid(s))
  BY <1>0, <1>1 DEF HdrValid
<1>3. \A s \in Sec : s # c => Dist(s, c) = Dist(s, cur) + 1 /\ Dist(s, cur) \in Int
  BY <1>0, DistSucc, DistType DEF Sec
<1>4. Dist(c, c) = 0
  BY DistType
<1>5. ASSUME NEW s \in Sec, HdrValid(s)' PROVE hdr'[s] = hdr'[c] - Dist(s, c)
  <2>1. CASE s = c
    BY <1>0, <1>1, <1>4, <2>1
  <2>2. CASE s # c
    <3>1. hdr[s] = seq - Dist(s, cur)
      BY <1>0, <1>2, <1>5, <2>2 DEF ChainAt
    <3> QED
      BY <1>0, <1>1, <1>3, <2>2, <3>1
  <2> QED
    BY <2>1, <2>2
<1>6. ASSUME NEW s \in Sec, HdrValid(s)', NEW t \in Sec, Dist(t, c) <= Dist(s, c)
      PROVE  HdrValid(t)'
  <2>1. CASE t = c
    BY <1>2, <2>1
  <2>2. CASE t # c
    <3>1. s # c
      <4>1. Dist(t, c) \in Sec /\ Dist(t, c) # 0
        BY <2>2, DistType
      <4> QED
        BY <1>4, <1>6, <4>1 DEF Sec
    <3>2. Dist(t, cur) <= Dist(s, cur)
      BY <1>3, <1>6, <2>2, <3>1
    <3> QED
      BY <1>0, <1>2, <1>6, <2>2, <3>1, <3>2 DEF ChainAt
  <2> QED
    BY <2>1, <2>2
<1> QED
  BY <1>1, <1>2, <1>5, <1>6 DEF ChainAt

\* With its header written the next sector is recycled: from the oldest sector,
\* which may have moved on, to the current one all are valid, and counted.
LEMMA Recycled ==
  ASSUME IInv, pc = "header", job # "format", hdr' = [hdr EXCEPT ![target] = seq + 1],
         DropOldest
  PROVE  /\ oldest' \in Sec /\ oldest' # target
         /\ \A s \in Sec : s # target =>
              (HdrValid(s)' <=> Dist(s, cur) <= Dist(oldest', cur))
         /\ count' = Dist(oldest', cur) * Slots + slot
<1>0. /\ Running /\ cur \in Sec /\ oldest \in Sec /\ target \in Sec /\ target = Succ(cur)
      /\ target # cur /\ slot = Slots /\ prepared = NoSec /\ TypeOK
  BY Preparing DEF IInv, WriteInv
<1>1. \A s \in Sec : s # target => (HdrValid(s)' <=> HdrValid(s))
  BY <1>0 DEF TypeOK, HdrValid
<1>2. \A s \in Sec : s # target => (HdrValid(s) <=> Dist(s, cur) <= Dist(oldest, cur))
  BY <1>0, Zero DEF IInv, RingInv, Served
<1>3. count = Dist(oldest, cur) * Slots + slot
  BY <1>0 DEF IInv, RingInv, Served
<1>4. CASE target = oldest
  <2>1. Dist(oldest, cur) = Sectors - 1 /\ Sectors - 1 \in Nat
    <3>1. Dist(target, cur) = Sectors - 1
      BY <1>0, Farthest
    <3> QED
      BY <1>4, <3>1, SectorsAssumption
  <2>2. count = (Sectors - 1) * Slots + Slots /\ (Sectors - 1) * Slots \in Nat
    BY <1>0, <1>3, <2>1, SlotsProduct
  <2>3. count > 0 /\ count >= Slots
    BY <2>2, SlotsAssumption
  <2>4. oldest' = Succ(target) /\ count' = (Sectors - 1) * Slots
    BY <1>4, <2>2, <2>3, SlotsAssumption DEF DropOldest
  <2>5. oldest' \in Sec /\ oldest' # target /\ Dist(oldest', cur) = (Sectors - 1) - 1
    BY <1>0, <1>4, <2>1, <2>4, SuccType, Behind
  <2>6. ((Sectors - 1) - 1) * Slots = (Sectors - 1) * Slots - Slots
    BY <2>1, SlotsProduct
  <2>7. count' = Dist(oldest', cur) * Slots + slot
    BY <1>0, <2>2, <2>4, <2>5, <2>6, SlotsAssumption
  <2>8. \A s \in Sec : s # target =>
          (Dist(s, cur) <= Dist(oldest, cur) <=> Dist(s, cur) <= Dist(oldest', cur))
    <3> SUFFICES ASSUME NEW s \in Sec, s # target
                 PROVE  Dist(s, cur) <= Sectors - 1 /\ Dist(s, cur) <= (Sectors - 1) - 1
      BY <2>1, <2>5
    <3>1. Dist(s, cur) <= Sectors - 1 /\ Dist(s, cur) # Sectors - 1 /\ Dist(s, cur) \in Int
      BY <1>0, Farthest, DistType DEF Sec
    <3> QED
      BY <3>1, SectorsAssumption
  <2> QED
    BY <1>1, <1>2, <2>5, <2>7, <2>8
<1>5. CASE target # oldest
  <2>1. oldest' = oldest /\ count' = count
    BY <1>5 DEF DropOldest
  <2> QED
    BY <1>0, <1>1, <1>2, <1>3, <1>5, <2>1
<1> QED
  BY <1>4, <1>5

\* Moving on to a sector n that follows the ones served and is valid.
LEMMA AdvanceServed ==
  ASSUME TypeOK, slot = Slots, NEW n \in Sec, n = Succ(cur), Advance(n),
         oldest' \in Sec, oldest' # n,
         \A s \in Sec : s # n => (HdrValid(s)' <=> Dist(s, cur) <= Dist(oldest', cur)),
         HdrValid(n)',
         count' = Dist(oldest', cur) * Slots + slot
  PROVE  Served'
<1>1. cur \in Sec /\ cur' = n /\ slot' = 0 /\ prepared' = NoSec
  BY DEF TypeOK, Advance
<1>2. \A s \in Sec : s # n => Dist(s, n) = Dist(s, cur) + 1 /\ Dist(s, cur) \in Nat
  BY <1>1, DistSucc, DistType DEF Sec
<1>3. Dist(n, n) = 0
  BY DistType
<1>4. \A s \in Sec : HdrValid(s)' <=> Dist(s, n) <= Dist(oldest', n)
  <2> SUFFICES ASSUME NEW s \in Sec PROVE HdrValid(s)' <=> Dist(s, n) <= Dist(oldest', n)
    OBVIOUS
  <2>1. CASE s = n
    BY <1>2, <1>3, <2>1
  <2>2. CASE s # n
    BY <1>2, <2>2
  <2> QED
    BY <2>1, <2>2
<1>5. count' = Dist(oldest', n) * Slots + 0
  <2>1. Dist(oldest', n) = Dist(oldest', cur) + 1 /\ Dist(oldest', cur) \in Nat
    BY <1>2
  <2> DEFINE k == Dist(oldest', cur)
  <2>2. k \in Nat /\ Dist(oldest', n) = k + 1 /\ count' = k * Slots + Slots
    BY <2>1
  <2> HIDE DEF k
  <2>3. (k + 1) * Slots = k * Slots + Slots /\ k * Slots \in Nat
    BY <2>2, SlotsProduct
  <2> QED
    BY <2>2, <2>3, SlotsAssumption
<1>6. oldest' # prepared'
  BY <1>1, Zero
<1> QED
  BY <1>1, <1>4, <1>5, <1>6 DEF Served

\* What begin() reads off the headers is what the invariant says of them.
LEMMA BeginHead ==
  ASSUME IInv, Begin
  PROVE  Chain' /\ Served'
<1>1. PICK c \in Sec, o \in Sec, n \in 0 .. Slots :
        /\ IsNewest(c) /\ IsOldest(o, c) /\ IsFreeSlot(n, c)
        /\ cur' = c /\ oldest' = o /\ slot' = n /\ seq' = hdr[c]
        /\ count' = Dist(o, c) * Slots + n
  BY DEF Begin
<1>2. /\ TypeOK /\ pc = "off" /\ job = "none" /\ prepared = NoSec
      /\ prepared' = NoSec /\ job' = "none" /\ hdr' = hdr
  BY DEF Begin, IInv, WriteInv, JobMatches, flash, args
<1>3. ChainAt(c)
  <2>1. PICK h \in Sec : ChainAt(h)
    BY <1>1 DEF IInv, RingInv, Chain, IsNewest, NoHeader
  <2> QED
    BY <1>1, <1>2, <2>1, HeadIsNewest
<1>4. Chain'
  <2>1. ChainAt(c)'
    BY <1>2, <1>3 DEF ChainAt, HdrValid
  <2>2. Top' = c
    BY <1>1, <1>2 DEF Top
  <2>3. ChainAt(Top)'
    BY <1>2, <1>3, <2>2 DEF ChainAt, HdrValid
  <2>4. HdrValid(cur)' /\ hdr'[cur'] = seq'
    BY <1>1, <1>2 DEF IsNewest, HdrValid
  <2> QED
    BY <1>2, <2>1, <2>3, <2>4 DEF Chain
<1>5. \A s \in Sec : HdrValid(s) <=> Dist(s, c) <= Dist(o, c)
  <2>1. \A s \in Sec : Dist(s, c) <= Dist(o, c) => HdrValid(s)
    BY <1>1 DEF IsOldest, IsRun
  <2>2. ASSUME NEW s \in Sec, HdrValid(s), ~ (Dist(s, c) <= Dist(o, c)) PROVE FALSE
    <3>1. /\ Dist(s, c) \in Int /\ Dist(o, c) \in Int
          /\ Dist(s, c) <= Sectors - 1
      BY Farthest, DistType DEF Sec
    <3>2. Dist(o, c) # Sectors - 1
      BY <2>2, <3>1, SectorsAssumption
    <3>3. Pred(o) \in Sec /\ Dist(Pred(o), c) = Dist(o, c) + 1
      BY <3>2, Farthest, Behind
    <3>4. HdrValid(Pred(o)) /\ HdrValid(o)
      BY <1>3, <2>1, <2>2, <3>1, <3>3 DEF ChainAt
    <3>5. hdr[Pred(o)] = hdr[c] - Dist(Pred(o), c) /\ hdr[o] = hdr[c] - Dist(o, c)
      BY <1>3, <3>3, <3>4 DEF ChainAt
    <3>6. hdr[Pred(o)] = hdr[o] - 1
      BY <1>2, <3>1, <3>3, <3>5 DEF TypeOK
    <3> QED
      BY <1>1, <3>2, <3>4, <3>6 DEF IsOldest
  <2> QED
    BY <2>1, <2>2
<1>6. Served'
  BY <1>1, <1>2, <1>5, Zero DEF Served, HdrValid
<1> QED
  BY <1>4, <1>6

-----------------------------------------------------------------------------
(* The records.                                                            *)

\* Every record of the next state was one before, in a sector of the same number.
NoNewRecord ==
  \A s \in Sec, i \in Slot :
    HdrValid(s)' /\ dat'[s][i] > 0 =>
      HdrValid(s) /\ hdr'[s] = hdr[s] /\ dat'[s][i] = dat[s][i]

\* Fewer records are in order if the records were.
LEMMA OrderKept ==
  ASSUME LogOrder, NoNewRecord
  PROVE  LogOrder'
<1> SUFFICES ASSUME NEW s \in Sec, NEW t \in Sec, NEW i \in Slot, NEW j \in Slot,
                    dat'[s][i] > 0, dat'[t][j] > 0, HdrValid(s)', HdrValid(t)',
                    hdr'[s] < hdr'[t] \/ (s = t /\ i < j)
             PROVE  dat'[s][i] < dat'[t][j]
  BY DEF LogOrder
<1>1. HdrValid(s) /\ hdr'[s] = hdr[s] /\ dat'[s][i] = dat[s][i]
  BY DEF NoNewRecord
<1>2. HdrValid(t) /\ hdr'[t] = hdr[t] /\ dat'[t][j] = dat[t][j]
  BY DEF NoNewRecord
<1> QED
  BY <1>1, <1>2 DEF LogOrder

\* The types of what Fits computes with.
LEMMA CellTypes ==
  ASSUME TypeOK, NEW s \in Sec, NEW i \in Slot, NEW c \in Sec
  PROVE  /\ dat[s][i] \in Int /\ i \in Int /\ Slots \in Int
         /\ Dist(s, c) \in Int /\ Dist(s, c) * Slots \in Int
<1>1. dat[s][i] \in Int
  BY DEF TypeOK
<1>2. i \in Int /\ Slots \in Int
  BY SlotsAssumption DEF Slot
<1>3. Dist(s, c) \in Int
  BY DistType DEF Sec
<1> QED
  BY <1>1, <1>2, <1>3, SlotsProduct

\* Fewer records fit, too, under a frontier that has not moved up by more than
\* the appends since.
LEMMA FitsKept ==
  ASSUME TypeOK, NoNewRecord, NEW c \in Sec, NEW n \in Int, NEW last \in Int,
         NEW m \in Int, NEW later \in Int, Fits(c, n, last), m - n <= later - last
  PROVE  Fits(c, m, later)'
<1> SUFFICES ASSUME NEW s \in Sec, NEW i \in Slot, HdrValid(s)', dat'[s][i] > 0
             PROVE  dat'[s][i] + Dist(s, c) * Slots + m - 1 - i <= later
  BY DEF Fits
<1>1. dat[s][i] + Dist(s, c) * Slots + n - 1 - i <= last /\ dat'[s][i] = dat[s][i]
  BY DEF Fits, NoNewRecord
<1>2. dat[s][i] \in Int /\ i \in Int /\ Dist(s, c) * Slots \in Int
  BY CellTypes
<1> QED
  BY <1>1, <1>2

\* Moving the frontier from the end of sector c to the start of the next one,
\* which holds no record.
LEMMA FitsAdvanced ==
  ASSUME TypeOK, NoNewRecord, NEW c \in Sec, NEW n \in Sec, n = Succ(c),
         NEW last \in Int, NEW later \in Int, Fits(c, Slots, last), last <= later,
         \A i \in Slot : ~ (dat'[n][i] > 0)
  PROVE  Fits(n, 0, later)'
<1> SUFFICES ASSUME NEW s \in Sec, NEW i \in Slot, HdrValid(s)', dat'[s][i] > 0
             PROVE  dat'[s][i] + Dist(s, n) * Slots + 0 - 1 - i <= later
  BY DEF Fits
<1>1. dat[s][i] + Dist(s, c) * Slots + Slots - 1 - i <= last /\ dat'[s][i] = dat[s][i]
  BY DEF Fits, NoNewRecord
<1>2. dat[s][i] \in Int /\ i \in Int /\ Dist(s, c) \in Int /\ Slots \in Int
  BY CellTypes
<1>3. Dist(s, n) = Dist(s, c) + 1
  BY DistSucc
<1> DEFINE k == Dist(s, c)
<1>4. Dist(s, n) * Slots = (k + 1) * Slots /\ k \in Int
  BY <1>2, <1>3
<1>5. dat[s][i] + k * Slots + Slots - 1 - i <= last
  BY <1>1
<1> HIDE DEF k
<1>6. (k + 1) * Slots = k * Slots + Slots /\ k * Slots \in Int
  BY <1>4, SlotsProduct
<1> QED
  BY <1>1, <1>2, <1>4, <1>5, <1>6

\* An erase makes no record.
LEMMA EraseRecords ==
  ASSUME IInv, NEW t \in Sec, EraseAll(t) \/ ErasePartly(t)
  PROVE  /\ NoNewRecord
         /\ \A s \in Sec, i \in Slot : dat'[s][i] \in {dat[s][i], Torn, Virgin}
         /\ \A s \in Sec : s # t => dat'[s] = dat[s]
<1>1. TypeOK
  BY DEF IInv, WriteInv
<1>2. /\ \A s \in Sec : s # t => hdr'[s] = hdr[s] /\ dat'[s] = dat[s]
      /\ hdr'[t] \in {hdr[t], Torn, Virgin}
      /\ \A i \in Slot : dat'[t][i] \in {dat[t][i], Torn, Virgin}
  BY <1>1 DEF TypeOK, EraseAll, ErasePartly
<1>3. \A s \in Sec, i \in Slot : dat'[s][i] \in {dat[s][i], Torn, Virgin}
  BY <1>2
<1>4. \A s \in Sec : HdrValid(s)' => HdrValid(s) /\ hdr'[s] = hdr[s]
  BY <1>2 DEF HdrValid, Torn, Virgin
<1>5. NoNewRecord
  BY <1>3, <1>4 DEF NoNewRecord, Torn, Virgin
<1> QED
  BY <1>2, <1>3, <1>5

\* Nor does a header written to an erased sector.
LEMMA HeaderRecords ==
  ASSUME IInv, pc = "header", dat' = dat, \A s \in Sec : s # target => hdr'[s] = hdr[s]
  PROVE  NoNewRecord
<1>1. \A i \in Slot : dat[target][i] = Virgin
  BY DEF IInv, WriteInv, Erased, CellVirgin
<1>2. \A s \in Sec : s # target => (HdrValid(s)' => HdrValid(s))
  BY DEF HdrValid
<1> QED
  BY <1>1, <1>2 DEF NoNewRecord, Virgin

\* Nor does a step that leaves headers and records alone.
LEMMA SameRecords ==
  ASSUME hdr' = hdr, dat' = dat
  PROVE  NoNewRecord /\ SameHeaders
BY DEF NoNewRecord, SameHeaders, HdrValid

\* The record of the latest append() goes above all others, wherever its write
\* is cut short.
LEMMA RecordWritten ==
  ASSUME IInv, pc = "payload", hdr' = hdr, appended' = appended,
         NEW v \in {dat[cur][slot], Torn, Programmed(dat[cur][slot], appended)}, WritePayload(v)
  PROVE  /\ LogOrder'
         /\ \A s \in Sec, i \in Slot : dat'[s][i] \in Torn .. appended
<1>0. /\ TypeOK /\ Running /\ job = "append" /\ slot \in Slot /\ cur \in Sec
      /\ prepared = NoSec /\ slot < Slots
  <2>1. TypeOK /\ cur \in Sec /\ slot \in 0 .. Slots
    BY DEF IInv, WriteInv, TypeOK
  <2>2. job = "append" /\ slot < Slots /\ Running
    BY DEF IInv, WriteInv, JobMatches, Running
  <2>3. prepared = NoSec
    BY <2>1, <2>2, SlotsAssumption DEF IInv, WriteInv, Recycling
  <2> QED
    BY <2>1, <2>2, <2>3, SlotsAssumption DEF Slot
<1>1. /\ dat'[cur][slot] = v
      /\ \A s \in Sec, i \in Slot : s # cur \/ i # slot => dat'[s][i] = dat[s][i]
  BY <1>0 DEF WritePayload, TypeOK
<1>2. \A s \in Sec, i \in Slot : dat[s][i] \in Torn .. appended /\ dat[s][i] < appended
  BY <1>0 DEF IInv, RingInv, Serials
<1>3. appended \in Nat
  BY <1>0 DEF TypeOK
<1>4. v \in Torn .. appended
  BY <1>0, <1>2, <1>3 DEF Programmed, Torn
<1>5. \A s \in Sec, i \in Slot : dat'[s][i] \in Torn .. appended
  BY <1>1, <1>2, <1>4
<1>6. \A s \in Sec : HdrValid(s) => ~ (hdr[cur] < hdr[s])
  <2>1. ChainAt(cur) /\ hdr[cur] \in Int
    BY <1>0 DEF IInv, RingInv, Chain, Top, TypeOK
  <2>2. \A s \in Sec : HdrValid(s) => hdr[s] = hdr[cur] - Dist(s, cur)
    BY <2>1 DEF ChainAt
  <2>3. \A s \in Sec : Dist(s, cur) \in Nat
    BY <1>0, DistType DEF Sec
  <2> QED
    BY <2>1, <2>2, <2>3
<1>7. v > 0 => v = dat[cur][slot] \/ v = appended
  BY DEF Programmed, Torn
<1>8. ASSUME NEW s \in Sec, NEW t \in Sec, NEW i \in Slot, NEW j \in Slot,
             dat'[s][i] > 0, dat'[t][j] > 0, HdrValid(s), HdrValid(t),
             hdr[s] < hdr[t] \/ (s = t /\ i < j)
      PROVE  dat'[s][i] < dat'[t][j]
  <2>1. CASE s = cur /\ i = slot
    <3>1. t = cur /\ j > slot
      BY <1>6, <1>8, <2>1
    <3>2. dat[t][j] = Virgin
      BY <1>0, <3>1 DEF IInv, WriteInv, Frontier
    <3>3. dat'[t][j] = dat[t][j]
      BY <1>0, <1>1, <3>1 DEF Slot
    <3> QED
      BY <1>8, <3>2, <3>3 DEF Virgin
  <2>2. CASE ~ (s = cur /\ i = slot) /\ ~ (t = cur /\ j = slot)
    <3>1. dat'[s][i] = dat[s][i] /\ dat'[t][j] = dat[t][j]
      BY <1>1, <2>2
    <3>2. LogOrder
      BY DEF IInv, RingInv
    <3> QED
      BY <1>8, <3>1, <3>2 DEF LogOrder
  <2>3. CASE ~ (s = cur /\ i = slot) /\ t = cur /\ j = slot
    <3>1. dat'[s][i] = dat[s][i] /\ dat'[t][j] = v
      BY <1>1, <2>3
    <3>2. CASE v = dat[cur][slot]
      <4>1. dat'[t][j] = dat[t][j] /\ LogOrder
        BY <2>3, <3>1, <3>2 DEF IInv, RingInv
      <4> QED
        BY <1>8, <3>1, <4>1 DEF LogOrder
    <3>3. CASE v = appended
      BY <1>2, <3>1, <3>3
    <3> QED
      BY <1>7, <1>8, <3>1, <3>2, <3>3
  <2> QED
    BY <2>1, <2>2, <2>3
<1>9. LogOrder'
  BY <1>8 DEF LogOrder, HdrValid
<1> QED
  BY <1>5, <1>9

-----------------------------------------------------------------------------
(* Every step keeps the chain and the range served.                        *)

\* While a format is under way no header is valid, and none becomes so by an
\* erase, nor by a header write that reports failure.
LEMMA NoHeaderKept ==
  ASSUME IInv, job = "format",
         \A s \in Sec : s # target => hdr'[s] = hdr[s],
         hdr'[target] \in {hdr[target], Torn, Virgin}
  PROVE  NoHeader'
<1>1. NoHeader
  BY DEF IInv, RingInv, Chain
<1> QED
  BY <1>1 DEF NoHeader, HdrValid, Torn, Virgin

\* The first header of a formatted partition.
LEMMA FirstHeader ==
  ASSUME IInv, pc = "header", job = "format", hdr' = [hdr EXCEPT ![target] = 1]
  PROVE  ChainAt(0)' /\ HdrValid(0)' /\ \A s \in Sec : HdrValid(s)' => s = 0
<1>1. NoHeader /\ target = 0 /\ TypeOK
  BY DEF IInv, RingInv, Chain, WriteInv, JobMatches
<1>2. hdr'[0] = 1 /\ \A s \in Sec : s # 0 => hdr'[s] = hdr[s]
  BY <1>1, Zero DEF TypeOK
<1>3. HdrValid(0)' /\ \A s \in Sec : HdrValid(s)' => s = 0
  BY <1>1, <1>2 DEF NoHeader, HdrValid
<1>4. Dist(0, 0) = 0 /\ \A t \in Sec : Dist(t, 0) \in Nat /\ (Dist(t, 0) = 0 <=> t = 0)
  BY Zero, DistType DEF Sec
<1>5. ChainAt(0)'
  <2>1. \A s \in Sec : HdrValid(s)' => hdr'[s] = hdr'[0] - Dist(s, 0)
    BY <1>2, <1>3, <1>4
  <2>2. \A s, t \in Sec : HdrValid(s)' /\ Dist(t, 0) <= Dist(s, 0) => HdrValid(t)'
    BY <1>3, <1>4
  <2> QED
    BY <1>3, <2>1, <2>2 DEF ChainAt
<1> QED
  BY <1>3, <1>5

\* A header that reports failure leaves the valid ones alone.
LEMMA HeaderFailed ==
  ASSUME IInv, pc = "header", NEW h \in Failed(hdr[target]), hdr' = [hdr EXCEPT ![target] = h]
  PROVE  SameHeaders
<1>1. TypeOK /\ target \in Sec /\ hdr[target] = Virgin
  BY DEF IInv, WriteInv, TypeOK, Erased
<1>2. h \in {Virgin, Torn} /\ hdr'[target] = h /\ \A s \in Sec : s # target => hdr'[s] = hdr[s]
  BY <1>1 DEF Failed, TypeOK
<1> QED
  BY <1>1, <1>2 DEF SameHeaders, HdrValid, Virgin, Torn

\* What is written as a header over an erased one.
LEMMA HeaderValue ==
  ASSUME IInv, pc = "header"
  PROVE  /\ Programmed(hdr[target], NewSeq) = NewSeq
         /\ job = "format" => NewSeq = 1
         /\ job # "format" => NewSeq = seq + 1
BY DEF IInv, WriteInv, Erased, Programmed, NewSeq

\* A record that has been appended is one more served.
LEMMA AppendedHead ==
  ASSUME IInv, pc \in {"payload", "tag"}, Appended, hdr' = hdr
  PROVE  Chain' /\ Served'
<1>1. /\ Running /\ slot < Slots /\ slot \in Int /\ count \in Nat /\ prepared = NoSec
      /\ cur \in Sec /\ oldest \in Sec
  <2>1. /\ cur \in Sec /\ oldest \in Sec /\ slot \in 0 .. Slots /\ count \in Nat
        /\ Running /\ slot < Slots
    BY DEF IInv, WriteInv, TypeOK, JobMatches, Running
  <2>2. prepared = NoSec
    BY <2>1, SlotsAssumption DEF IInv, WriteInv, Recycling
  <2> QED
    BY <2>1, <2>2
<1>2. /\ slot' = slot + 1 /\ count' = count + 1 /\ UNCHANGED <<cur, oldest, seq, prepared>>
      /\ pc' = "idle" /\ job' = "none"
  BY DEF Appended, Return
<1>3. Chain'
  <2>1. ChainAt(cur) /\ HdrValid(cur) /\ hdr[cur] = seq /\ Top' = cur
    BY <1>1, <1>2 DEF IInv, RingInv, Chain, Top
  <2> QED
    BY <1>1, <1>2, <2>1 DEF Chain, ChainAt, HdrValid
<1>4. Dist(oldest, cur) * Slots \in Int
  BY <1>1, DistType, SlotsProduct DEF Sec
<1>5. count' = Dist(oldest, cur) * Slots + slot'
  BY <1>1, <1>2, <1>4 DEF IInv, RingInv, Served
<1>6. /\ \A s \in Sec : Dist(s, cur) <= Dist(oldest, cur) => HdrValid(s)
      /\ \A s \in Sec : HdrValid(s) /\ s # prepared => Dist(s, cur) <= Dist(oldest, cur)
      /\ oldest # prepared
  BY <1>1 DEF IInv, RingInv, Served
<1>7. Served'
  BY <1>2, <1>5, <1>6 DEF Served, HdrValid
<1> QED
  BY <1>3, <1>7

\* The other steps of the running store leave headers and bookkeeping alone.
LEMMA QuietHead ==
  ASSUME IInv, hdr' = hdr, UNCHANGED <<cur, oldest, slot, seq, count, prepared>>,
         Running' => Running, job' = "format" => job = "format"
  PROVE  Chain' /\ Served'
<1>1. SameHeaders
  BY DEF SameHeaders, HdrValid
<1> QED
  BY <1>1, HeadKept

\* With the power off there is a chain or no header at all.
LEMMA OffHead ==
  ASSUME pc' = "off", job' = "none", NoHeader' \/ \E c \in Sec : ChainAt(c)'
  PROVE  Chain' /\ Served'
BY DEF Chain, Served, Running

\* Whatever the flash operation is that power fails in, the chain stands.
LEMMA CutHead ==
  ASSUME IInv, PowerCutInWrite
  PROVE  NoHeader' \/ \E c \in Sec : ChainAt(c)'
<1>0. TypeOK /\ target \in Sec /\ cur \in Sec /\ prepared \in Sec \cup {NoSec}
  BY DEF IInv, WriteInv, TypeOK
<1>1. CASE hdr' = hdr
  <2>1. NoHeader \/ \E c \in Sec : ChainAt(c)
    BY DEF IInv, RingInv, Chain
  <2> QED
    BY <1>1, <2>1 DEF NoHeader, ChainAt, HdrValid
<1>2. CASE pc = "erase" /\ ErasePartly(target)
  <2>1. CASE job = "format"
    BY <1>0, <1>2, <2>1, EraseHeader, NoHeaderKept
  <2>2. CASE job # "format"
    <3>1. \A c \in Sec : c = cur => ChainAt(c)'
      BY <1>2, <2>2, EraseChain
    <3>2. \E c \in Sec : c = cur
      BY <1>0
    <3> QED
      BY <3>1, <3>2
  <2> QED
    BY <2>1, <2>2
<1>3. CASE pc = "header" /\ \E h \in CutShort(hdr[target], NewSeq) : hdr' = [hdr EXCEPT ![target] = h]
  <2>1. PICK h \in CutShort(hdr[target], NewSeq) : hdr' = [hdr EXCEPT ![target] = h]
    BY <1>3
  <2>2. CASE h \in Failed(hdr[target])
    <3>1. SameHeaders
      BY <1>3, <2>1, <2>2, HeaderFailed
    <3>2. NoHeader \/ \E c \in Sec : ChainAt(c)
      BY DEF IInv, RingInv, Chain
    <3> QED
      BY <3>1, <3>2, ChainSame DEF SameHeaders, NoHeader
  <2>3. CASE h = NewSeq /\ job = "format"
    <3>1. ChainAt(0)'
      BY <1>3, <2>1, <2>3, HeaderValue, FirstHeader
    <3> QED
      BY <3>1, Zero
  <2>4. CASE h = NewSeq /\ job # "format"
    <3>1. \A c \in Sec : c = target => ChainAt(c)'
      BY <1>3, <2>1, <2>4, HeaderValue, HeaderChain
    <3>2. \E c \in Sec : c = target
      BY <1>0
    <3> QED
      BY <3>1, <3>2
  <2> QED
    BY <1>3, <2>1, <2>2, <2>3, <2>4, HeaderValue DEF CutShort, Failed
<1> QED
  BY <1>1, <1>2, <1>3 DEF PowerCutInWrite

\* Every step keeps the chain, and the range served with its count.
LEMMA HeadStep ==
  ASSUME IInv, [Next]_vars
  PROVE  Chain' /\ Served'
<1>0. /\ TypeOK /\ JobMatches /\ target \in Sec /\ cur \in Sec
  BY DEF IInv, WriteInv, TypeOK
<1>1. CASE BeginFresh
  BY <1>1 DEF BeginFresh, Chain, Served, Running, NoHeader, HdrValid, flash
<1>2. CASE Begin
  BY <1>2, BeginHead
<1>3. CASE EraseOk \/ EraseFail
  <2>1. pc = "erase" /\ (EraseAll(target) \/ ErasePartly(target)) /\ UNCHANGED meta
    BY <1>3 DEF EraseOk, EraseFail
  <2>2. CASE job = "format"
    <3>1. NoHeader'
      BY <1>0, <2>1, <2>2, EraseHeader, NoHeaderKept
    <3>2. ~ Running'
      BY <1>3, <2>2 DEF EraseOk, EraseFail, GiveUp, Return, Running, args
    <3> QED
      BY <3>1, <3>2 DEF Chain, Served
  <2>3. CASE job # "format"
    <3>1. Running' /\ job' # "format"
      BY <1>3, <2>3 DEF EraseOk, EraseFail, GiveUp, Return, Running, args
    <3> QED
      BY <2>1, <2>3, <3>1, EraseServed
  <2> QED
    BY <2>2, <2>3
<1>4. CASE HeaderFail
  <2>1. SameHeaders /\ UNCHANGED meta
    BY <1>4, HeaderFailed DEF HeaderFail
  <2>2. (Running' => Running) /\ job' # "format"
    BY <1>4 DEF HeaderFail, GiveUp, Return, Running
  <2> QED
    BY <2>1, <2>2, HeadKept DEF meta
<1>5. CASE FormatDone
  <2>1. /\ pc = "header" /\ job = "format" /\ hdr' = [hdr EXCEPT ![target] = 1]
        /\ cur' = 0 /\ oldest' = 0 /\ slot' = 0 /\ seq' = 1 /\ count' = 0
        /\ prepared' = NoSec /\ job' = "none"
    BY <1>0, <1>5, HeaderValue DEF FormatDone, WriteHeader, Return, JobMatches
  <2>2. ChainAt(0)' /\ HdrValid(0)' /\ \A s \in Sec : HdrValid(s)' => s = 0
    BY <2>1, FirstHeader
  <2>3. target = 0 /\ hdr'[0] = 1
    BY <1>0, <2>1 DEF JobMatches, TypeOK
  <2>4. Top' = 0
    BY <2>1 DEF Top
  <2>5. Chain'
    BY <2>1, <2>2, <2>3, <2>4, Zero DEF Chain, ChainAt, HdrValid
  <2>6. Dist(0, 0) = 0 /\ \A t \in Sec : Dist(t, 0) \in Nat /\ (Dist(t, 0) = 0 <=> t = 0)
    BY Zero, DistType DEF Sec
  <2>7. 0 = Dist(0, 0) * Slots + 0
    BY <2>6, SlotsProduct
  <2>8. Served'
    BY <2>1, <2>2, <2>6, <2>7, Zero DEF Served, HdrValid
  <2> QED
    BY <2>5, <2>8
<1>6. CASE ServiceDone
  <2>1. /\ pc = "header" /\ job # "format" /\ hdr' = [hdr EXCEPT ![target] = seq + 1]
        /\ DropOldest /\ prepared' = target /\ UNCHANGED <<cur, slot, seq>> /\ job' = "none"
    BY <1>6, HeaderValue DEF ServiceDone, WriteHeader, Return
  <2>2. \A c \in Sec : c = target => ChainAt(c)' /\ HdrValid(c)' /\ hdr'[c] = seq + 1
    BY <2>1, HeaderChain
  <2>3. /\ target \in Sec /\ target = Succ(cur) /\ target # cur /\ HdrValid(cur) /\ hdr[cur] = seq
        /\ target # NoSec
    BY <2>1, Preparing, Zero
  <2>4. Chain'
    <3>1. Top' = target
      BY <2>1, <2>3 DEF Top
    <3>2. ChainAt(Top)' /\ \E c \in Sec : ChainAt(c)'
      <4>1. \E c \in Sec : c = target /\ ChainAt(c)'
        BY <2>2, <2>3
      <4> QED
        BY <3>1, <4>1 DEF ChainAt, HdrValid
    <3>3. HdrValid(cur)' /\ hdr'[cur'] = seq'
      BY <1>0, <2>1, <2>3 DEF HdrValid, TypeOK
    <3> QED
      BY <2>1, <3>2, <3>3 DEF Chain
  <2>5. /\ oldest' \in Sec /\ oldest' # target
        /\ \A s \in Sec : s # target => (HdrValid(s)' <=> Dist(s, cur) <= Dist(oldest', cur))
        /\ count' = Dist(oldest', cur) * Slots + slot
    BY <2>1, Recycled
  <2>6. \A c \in Sec : c = target => HdrValid(c)'
    BY <2>2
  <2>7. Served'
    BY <2>1, <2>5, <2>6 DEF Served
  <2> QED
    BY <2>4, <2>7
<1>7. CASE AdvanceDone
  <2>1. /\ pc = "header" /\ job # "format" /\ hdr' = [hdr EXCEPT ![target] = seq + 1]
        /\ DropOldest /\ Advance(target) /\ job' # "format"
    BY <1>7, HeaderValue DEF AdvanceDone, WriteHeader, args
  <2>2. \A c \in Sec : c = target => ChainAt(c)' /\ HdrValid(c)' /\ hdr'[c] = seq + 1
    BY <2>1, HeaderChain
  <2>3. target \in Sec /\ target = Succ(cur) /\ slot = Slots
    BY <2>1, Preparing
  <2>4. Chain'
    <3>1. Top' = target /\ cur' = target /\ seq' = seq + 1
      BY <2>1 DEF Top, Advance
    <3>2. \E c \in Sec : c = target /\ ChainAt(c)' /\ HdrValid(c)' /\ hdr'[c] = seq + 1
      BY <2>2, <2>3
    <3> QED
      BY <2>1, <3>1, <3>2 DEF Chain, ChainAt, HdrValid
  <2>5. /\ oldest' \in Sec /\ oldest' # target
        /\ \A s \in Sec : s # target => (HdrValid(s)' <=> Dist(s, cur) <= Dist(oldest', cur))
        /\ count' = Dist(oldest', cur) * Slots + slot
    BY <2>1, Recycled
  <2>6. Served'
    <3>1. \A c \in Sec : c = target => Served'
      BY <1>0, <2>1, <2>2, <2>3, <2>5, AdvanceServed
    <3> QED
      BY <2>3, <3>1
  <2> QED
    BY <2>4, <2>6
<1>8. ASSUME NEW d \in BOOLEAN, BeginAppend(d) PROVE Chain' /\ Served'
  <2>1. /\ pc = "idle" /\ Running /\ hdr' = hdr /\ job' = "append" /\ slot \in 0 .. Slots
        /\ Succ(cur) \in Sec
    BY <1>0, <1>8, SuccType DEF BeginAppend, Prepare, JobMatches, Running, flash, TypeOK
  <2>2. CASE slot < Slots \/ prepared # Succ(cur)
    <3>1. UNCHANGED meta
      BY <1>8, <2>2 DEF BeginAppend
    <3> QED
      BY <2>1, <3>1, QuietHead DEF meta
  <2>3. CASE ~ (slot < Slots) /\ prepared = Succ(cur)
    <3>1. Advance(Succ(cur)) /\ UNCHANGED <<oldest, count>> /\ pc' = "payload"
      BY <1>8, <2>3 DEF BeginAppend
    <3>2. prepared # NoSec /\ slot = Slots /\ Top = Succ(cur)
      BY <2>1, <2>3, Zero, SlotsAssumption DEF Top
    <3>3. ChainAt(Succ(cur)) /\ HdrValid(cur) /\ hdr[cur] = seq
      BY <2>1, <3>2 DEF IInv, RingInv, Chain
    <3>4. hdr[Succ(cur)] = seq + 1 /\ HdrValid(Succ(cur))
      <4>1. cur # Succ(cur) /\ Dist(cur, Succ(cur)) = Dist(cur, cur) + 1 /\ Dist(cur, cur) = 0
        BY <1>0, SuccType, DistSucc, DistType
      <4>2. hdr[cur] = hdr[Succ(cur)] - Dist(cur, Succ(cur)) /\ HdrValid(Succ(cur))
        BY <1>0, <3>3 DEF ChainAt
      <4> QED
        BY <1>0, <2>1, <3>3, <4>1, <4>2 DEF TypeOK
    <3>5. Chain'
      <4>1. Top' = Succ(cur) /\ cur' = Succ(cur) /\ seq' = seq + 1
        BY <3>1 DEF Top, Advance
      <4> QED
        BY <2>1, <3>3, <3>4, <4>1 DEF Chain, ChainAt, HdrValid
    <3>6. /\ oldest \in Sec /\ oldest # Succ(cur)
          /\ \A s \in Sec : s # Succ(cur) => (HdrValid(s) <=> Dist(s, cur) <= Dist(oldest, cur))
          /\ count = Dist(oldest, cur) * Slots + slot
      BY <1>0, <2>1, <2>3 DEF IInv, RingInv, Served, TypeOK
    <3>7. \A n \in Sec : n = Succ(cur) => Served'
      <4> SUFFICES ASSUME NEW n \in Sec, n = Succ(cur) PROVE Served'
        OBVIOUS
      <4>1. \A s \in Sec : s # n => (HdrValid(s)' <=> Dist(s, cur) <= Dist(oldest', cur))
        BY <2>1, <3>1, <3>6 DEF HdrValid
      <4>2. HdrValid(n)'
        BY <2>1, <3>4 DEF HdrValid
      <4> QED
        BY <1>0, <3>1, <3>2, <3>6, <4>1, <4>2, AdvanceServed
    <3> QED
      BY <2>1, <3>5, <3>7
  <2> QED
    BY <2>2, <2>3
<1>9. CASE pc = "payload" /\ PayloadOk
  <2>1. hdr' = hdr
    BY <1>9 DEF PayloadOk
  <2>2. CASE dated
    <3>1. UNCHANGED meta /\ Running /\ job' # "format"
      BY <1>0, <1>9, <2>2 DEF PayloadOk, Running, JobMatches, args
    <3> QED
      BY <2>1, <3>1, QuietHead DEF meta
  <2>3. CASE ~ dated
    BY <1>9, <2>1, <2>3, AppendedHead DEF PayloadOk
  <2> QED
    BY <2>2, <2>3
<1>10. CASE pc = "tag" /\ TagOk
  BY <1>10, AppendedHead DEF TagOk
<1>11. CASE (pc = "payload" /\ PayloadFail) \/ (pc = "tag" /\ TagFail)
  <2>1. hdr' = hdr /\ UNCHANGED meta /\ Running /\ job' # "format"
    BY <1>0, <1>11 DEF PayloadFail, TagFail, GiveUp, Return, Running, JobMatches
  <2> QED
    BY <2>1, QuietHead DEF meta
<1>12. CASE ServiceErase \/ Patch
  <2>1. /\ hdr' = hdr /\ UNCHANGED <<cur, oldest, slot, seq, count, prepared>>
        /\ Running /\ job' # "format"
    BY <1>0, <1>12
    DEF ServiceErase, Patch, Prepare, Running, JobMatches, flash, meta
  <2> QED
    BY <2>1, QuietHead
<1>13. CASE PatchSlot \/ PatchDone
  <2>1. /\ hdr' = hdr /\ UNCHANGED meta /\ Running /\ job' # "format"
    BY <1>0, <1>13
    DEF PatchSlot, PatchDone, Return, Running, JobMatches, flash
  <2> QED
    BY <2>1, QuietHead DEF meta
<1>14. CASE PowerCut
  <2>1. pc' = "off" /\ job' = "none" /\ hdr' = hdr
    BY <1>14 DEF PowerCut, LosePower, Return, flash
  <2>2. NoHeader' \/ \E c \in Sec : ChainAt(c)'
    BY <2>1 DEF IInv, RingInv, Chain, NoHeader, ChainAt, HdrValid
  <2> QED
    BY <2>1, <2>2, OffHead
<1>15. CASE PowerCutInWrite
  <2>1. pc' = "off" /\ job' = "none"
    BY <1>15 DEF PowerCutInWrite, LosePower, Return
  <2> QED
    BY <1>15, <2>1, CutHead, OffHead
<1>16. CASE UNCHANGED vars
  <2>1. /\ hdr' = hdr /\ UNCHANGED meta /\ pc' = pc /\ job' = job
    BY <1>16 DEF vars, flash, args
  <2> QED
    BY <2>1, QuietHead DEF meta, Running
<1> QED
  BY <1>1, <1>2, <1>3, <1>4, <1>5, <1>6, <1>7, <1>8, <1>9, <1>10, <1>11, <1>12, <1>13, <1>14,
     <1>15, <1>16 DEF Next, Payload, Tag

-----------------------------------------------------------------------------
(* Every step keeps the records in order, and the frontier exact.          *)

\* Steps that write no record.
LEMMA RecordsKept ==
  ASSUME IInv, NoNewRecord, pc' # "tag", appended' \in Nat, appended <= appended',
         \A s \in Sec, i \in Slot : dat'[s][i] \in {dat[s][i], Torn, Virgin},
         job' = "append" => appended < appended' \/ (job = "append" /\ pc # "tag")
  PROVE  Serials' /\ LogOrder'
<1>1. LogOrder'
  BY OrderKept DEF IInv, RingInv
<1>2. \A s \in Sec, i \in Slot : dat[s][i] \in Torn .. appended
  BY DEF IInv, RingInv, Serials
<1>3. appended \in Nat
  BY DEF IInv, WriteInv, TypeOK
<1>4. \A s \in Sec, i \in Slot : dat'[s][i] \in Torn .. appended'
  BY <1>2, <1>3 DEF Torn, Virgin
<1>5. ASSUME job' = "append" PROVE \A s \in Sec, i \in Slot : dat'[s][i] < appended'
  <2>1. CASE appended < appended'
    BY <1>2, <1>3, <2>1 DEF Torn, Virgin
  <2>2. CASE job = "append" /\ pc # "tag"
    <3>1. \A s \in Sec, i \in Slot : dat[s][i] < appended
      BY <2>2 DEF IInv, RingInv, Serials
    <3>2. appended > 0
      BY <2>2 DEF IInv, WriteInv, JobMatches
    <3> QED
      BY <1>2, <1>3, <3>1, <3>2 DEF Torn, Virgin
  <2> QED
    BY <1>5, <2>1, <2>2
<1> QED
  BY <1>1, <1>4, <1>5 DEF Serials

\* The slot below the frontier stays written when a step leaves it alone.
LEMMA SlotKept ==
  ASSUME IInv, Running' => Running, cur' = cur, slot' = slot,
         \A i \in Slot : i # slot =>
           dat'[cur][i] = dat[cur][i] /\ (tag'[cur][i] = "unknown" => tag[cur][i] = "unknown")
  PROVE  SlotExact'
<1> SUFFICES ASSUME Running', slot > 0 PROVE ~ CellVirgin(cur, slot - 1)'
  BY DEF SlotExact
<1>1. ~ CellVirgin(cur, slot - 1)
  BY DEF IInv, RingInv, SlotExact
<1>2. slot \in 0 .. Slots
  BY DEF IInv, WriteInv, TypeOK
<1>3. slot - 1 \in Slot /\ slot - 1 # slot
  BY <1>2, SlotsAssumption DEF Slot
<1> QED
  BY <1>1, <1>3 DEF CellVirgin

\* A record that has been appended: its slot is the one below the frontier.
LEMMA AppendedSlot ==
  ASSUME IInv, pc \in {"payload", "tag"}, Appended, dat'[cur][slot] # Virgin
  PROVE  SlotExact'
<1>1. cur' = cur /\ slot' = slot + 1 /\ slot \in Int
  <2>1. slot \in 0 .. Slots
    BY DEF IInv, WriteInv, TypeOK
  <2> QED
    BY <2>1, SlotsAssumption DEF Appended
<1>2. slot' - 1 = slot
  BY <1>1
<1> QED
  BY <1>1, <1>2 DEF SlotExact, CellVirgin

\* What payload and timestamp writes leave alone.
LEMMA RecordLocal ==
  ASSUME IInv, NEW v, WritePayload(v)
  PROVE  /\ \A s \in Sec, i \in Slot : s # cur \/ i # slot => dat'[s][i] = dat[s][i]
         /\ slot < Slots => dat'[cur][slot] = v
<1>1. TypeOK /\ cur \in Sec /\ slot \in 0 .. Slots
  BY DEF IInv, WriteInv, TypeOK
<1>2. slot < Slots => slot \in Slot
  BY <1>1, SlotsAssumption DEF Slot
<1> QED
  BY <1>1, <1>2 DEF WritePayload, TypeOK

\* In time the slot at the frontier is virgin, so what is written reads back.
LEMMA PayloadValue ==
  ASSUME IInv, pc = "payload"
  PROVE  /\ slot \in Slot /\ cur \in Sec /\ slot < Slots /\ appended \in Nat /\ appended > 0
         /\ job = "append" /\ Running /\ prepared = NoSec
         /\ Environment => dat[cur][slot] = Virgin /\ Programmed(dat[cur][slot], appended) = appended
         /\ Programmed(dat[cur][slot], appended) # Virgin
<1>1. TypeOK /\ cur \in Sec /\ slot \in 0 .. Slots /\ appended \in Nat
  BY DEF IInv, WriteInv, TypeOK
<1>2. job = "append" /\ slot < Slots /\ Running /\ appended > 0
  BY DEF IInv, WriteInv, JobMatches, Running
<1>3. slot \in Slot
  BY <1>1, <1>2, SlotsAssumption DEF Slot
<1>4. prepared = NoSec
  BY <1>1, <1>2, SlotsAssumption DEF IInv, WriteInv, Recycling
<1>5. Environment => dat[cur][slot] = Virgin
  BY <1>2, <1>3 DEF IInv, WriteInv, Frontier, Environment, CellVirgin
<1>6. Programmed(dat[cur][slot], appended) # Virgin
  BY <1>1, <1>2 DEF Programmed, Torn, Virgin
<1> QED
  BY <1>1, <1>2, <1>3, <1>4, <1>5, <1>6 DEF Programmed

\* A record written, wholly or not, by a step that leaves the rest of the flash
\* alone, and the frontier unless the call is over.
LEMMA PayloadRecords ==
  ASSUME IInv, pc = "payload", hdr' = hdr, appended' = appended,
         NEW v \in {dat[cur][slot], Torn, Programmed(dat[cur][slot], appended)}, WritePayload(v),
         \/ job' = "none" /\ pc' # "tag"
         \/ pc' = "tag" /\ cur' = cur /\ slot' = slot
            /\ v = Programmed(dat[cur][slot], appended)
  PROVE  Serials' /\ LogOrder'
<1>1. LogOrder' /\ \A s \in Sec, i \in Slot : dat'[s][i] \in Torn .. appended
  BY RecordWritten
<1>2. dat'[cur][slot] = v
  BY PayloadValue, RecordLocal
<1>3. pc' = "tag" /\ Environment => dat'[cur'][slot'] = appended'
  BY <1>2, PayloadValue
<1> QED
  BY <1>1, <1>3 DEF Serials

\* A timestamp, once written, does not read as erased.
LEMMA TagsKept ==
  ASSUME TypeOK, NEW s, NEW i, NEW t, WriteTag(s, i, t), t = "unknown" => tag[s][i] = "unknown"
  PROVE  \A r \in Sec, j \in Slot : tag'[r][j] = "unknown" => tag[r][j] = "unknown"
BY DEF TypeOK, WriteTag

\* What is written as a timestamp is never the erased word, unless one was there.
LEMMA TagValues ==
  ASSUME NEW x
  PROVE  /\ \A t \in TagFailed(x) \cup TagCutShort(x) \cup {Filled(x)} :
              t = "unknown" => x = "unknown"
         /\ Tagged(x) # "unknown"
BY DEF TagFailed, TagCutShort, Filled, Tagged

\* Every step keeps the records in order and the frontier exact.
LEMMA RecordStep ==
  ASSUME IInv, [Next]_vars
  PROVE  Serials' /\ LogOrder' /\ SlotExact'
<1>0. /\ TypeOK /\ JobMatches /\ target \in Sec /\ cur \in Sec /\ slot \in 0 .. Slots
      /\ appended \in Nat
  BY DEF IInv, WriteInv, TypeOK
<1>a. ASSUME hdr' = hdr, dat' = dat, pc' # "tag", appended' = appended,
             job' = "append" => job = "append" /\ pc # "tag"
      PROVE  Serials' /\ LogOrder'
  <2>1. NoNewRecord
    BY <1>a, SameRecords
  <2> QED
    BY <1>0, <1>a, <2>1, RecordsKept
<1>1. CASE BeginFresh
  <2>1. /\ hdr' = hdr /\ dat' = dat /\ pc' = "erase" /\ job' = "format" /\ appended' = appended
    BY <1>1 DEF BeginFresh, flash, hist
  <2> QED
    BY <1>a, <2>1 DEF SlotExact, Running
<1>2. CASE Begin
  <2>1. /\ hdr' = hdr /\ dat' = dat /\ tag' = tag /\ pc' = "idle" /\ job' = job /\ pc = "off"
        /\ appended' = appended
    BY <1>2 DEF Begin, flash, hist, args
  <2>2. slot' > 0 => ~ CellVirgin(cur', slot' - 1)
    BY <1>2 DEF Begin, IsFreeSlot
  <2> QED
    BY <1>a, <2>1, <2>2 DEF SlotExact, CellVirgin
<1>3. CASE EraseOk \/ EraseFail
  <2>1. /\ pc = "erase" /\ (EraseAll(target) \/ ErasePartly(target)) /\ UNCHANGED meta
        /\ pc' # "tag" /\ appended' = appended /\ (job' = "append" => job = "append")
        /\ (Running' => Running)
    BY <1>3 DEF EraseOk, EraseFail, GiveUp, Return, Damage, hist, args, Running
  <2>2. /\ NoNewRecord
        /\ \A s \in Sec, i \in Slot : dat'[s][i] \in {dat[s][i], Torn, Virgin}
    BY <1>0, <2>1, EraseRecords
  <2>3. Serials' /\ LogOrder'
    BY <1>0, <2>1, <2>2, RecordsKept
  <2>4. SlotExact'
    <3>1. CASE job = "format"
      <4>1. ~ Running'
        BY <1>3, <3>1 DEF EraseOk, EraseFail, GiveUp, Return, Running, args
      <4> QED
        BY <4>1 DEF SlotExact
    <3>2. CASE job # "format"
      <4>1. target # cur
        BY <2>1, <3>2, Preparing
      <4>2. dat'[cur] = dat[cur] /\ tag'[cur] = tag[cur]
        BY <1>0, <2>1, <4>1, EraseLocal
      <4> QED
        BY <2>1, <4>2, SlotKept DEF meta
    <3> QED
      BY <3>1, <3>2
  <2> QED
    BY <2>3, <2>4
<1>4. CASE HeaderFail \/ FormatDone \/ ServiceDone \/ AdvanceDone
  <2>1. /\ pc = "header" /\ dat' = dat /\ tag' = tag /\ pc' # "tag" /\ appended' = appended
        /\ (job' = "append" => job = "append")
    BY <1>4 DEF HeaderFail, FormatDone, ServiceDone, AdvanceDone, GiveUp, Return, Damage, hist, args
  <2>2. \A s \in Sec : s # target => hdr'[s] = hdr[s]
    BY <1>0, <1>4 DEF TypeOK, HeaderFail, FormatDone, ServiceDone, AdvanceDone, WriteHeader
  <2>3. Serials' /\ LogOrder'
    BY <1>0, <2>1, <2>2, HeaderRecords, RecordsKept
  <2>4. SlotExact'
    <3>1. CASE FormatDone \/ AdvanceDone
      BY <3>1 DEF FormatDone, AdvanceDone, Advance, SlotExact
    <3>2. CASE HeaderFail \/ ServiceDone
      <4>1. cur' = cur /\ slot' = slot
        BY <3>2 DEF HeaderFail, ServiceDone, meta
      <4>2. Running' => Running
        BY <3>2 DEF HeaderFail, ServiceDone, GiveUp, Return, Running
      <4> QED
        BY <2>1, <4>1, <4>2, SlotKept
    <3> QED
      BY <1>4, <3>1, <3>2
  <2> QED
    BY <2>3, <2>4
<1>5. ASSUME NEW d \in BOOLEAN, BeginAppend(d) PROVE Serials' /\ LogOrder' /\ SlotExact'
  <2>1. /\ hdr' = hdr /\ dat' = dat /\ tag' = tag /\ pc' # "tag" /\ appended' = appended + 1
        /\ pc = "idle" /\ Running
    BY <1>0, <1>5 DEF BeginAppend, Prepare, flash, Running, JobMatches
  <2>2. NoNewRecord
    BY <2>1, SameRecords
  <2>3. Serials' /\ LogOrder'
    BY <1>0, <2>1, <2>2, RecordsKept
  <2>4. slot' = 0 \/ (cur' = cur /\ slot' = slot)
    BY <1>5 DEF BeginAppend, Advance, meta
  <2>5. SlotExact'
    <3>1. CASE slot' = 0
      BY <3>1 DEF SlotExact
    <3>2. CASE cur' = cur /\ slot' = slot
      BY <2>1, <3>2, SlotKept
    <3> QED
      BY <2>4, <3>1, <3>2
  <2> QED
    BY <2>3, <2>5
<1>6. CASE pc = "payload" /\ PayloadOk
  <2>1. /\ hdr' = hdr /\ tag' = tag /\ WritePayload(Programmed(dat[cur][slot], appended))
        /\ appended' = appended
    BY <1>6 DEF PayloadOk, Appended, hist
  <2>2. CASE dated
    <3>1. pc' = "tag" /\ cur' = cur /\ slot' = slot
      BY <1>6, <2>2 DEF PayloadOk, meta
    <3>2. Serials' /\ LogOrder'
      BY <1>6, <2>1, <3>1, PayloadRecords
    <3>3. \A i \in Slot : i # slot => dat'[cur][i] = dat[cur][i]
      BY <1>0, <2>1, RecordLocal
    <3>4. Running
      BY <1>6, PayloadValue
    <3> QED
      BY <2>1, <3>1, <3>2, <3>3, <3>4, SlotKept
  <2>3. CASE ~ dated
    <3>1. Appended /\ job' = "none" /\ pc' = "idle"
      BY <1>6, <2>3 DEF PayloadOk, Appended, Return
    <3>2. Serials' /\ LogOrder'
      BY <1>6, <2>1, <3>1, PayloadRecords
    <3>3. dat'[cur][slot] # Virgin
      BY <1>6, <2>1, PayloadValue, RecordLocal
    <3> QED
      BY <1>6, <3>1, <3>2, <3>3, AppendedSlot
  <2> QED
    BY <2>2, <2>3
<1>7. CASE pc = "payload" /\ PayloadFail
  <2>1. PICK v \in Failed(dat[cur][slot]) : WritePayload(v)
    BY <1>7 DEF PayloadFail
  <2>2. /\ hdr' = hdr /\ tag' = tag /\ appended' = appended /\ job' = "none" /\ pc' # "tag"
        /\ cur' = cur /\ slot' = slot
    BY <1>7 DEF PayloadFail, Damage, GiveUp, Return, meta
  <2>3. Serials' /\ LogOrder'
    BY <1>7, <2>1, <2>2, PayloadRecords DEF Failed
  <2>4. \A i \in Slot : i # slot => dat'[cur][i] = dat[cur][i]
    BY <1>0, <2>1, RecordLocal
  <2>5. Running
    BY <1>7, PayloadValue
  <2> QED
    BY <2>2, <2>3, <2>4, <2>5, SlotKept
<1>8. CASE pc = "tag" /\ TagOk
  <2>1. /\ hdr' = hdr /\ dat' = dat /\ Appended
    BY <1>8 DEF TagOk
  <2>2. Serials' /\ LogOrder'
    BY <1>a, <2>1 DEF Appended, Return
  <2>3. dat[cur][slot] # Virgin
    BY <1>8 DEF IInv, WriteInv, Frontier
  <2> QED
    BY <1>8, <2>1, <2>2, <2>3, AppendedSlot
<1>9. CASE pc = "tag" /\ TagFail
  <2>1. /\ hdr' = hdr /\ dat' = dat /\ cur' = cur /\ slot' = slot /\ appended' = appended
        /\ job' = "none" /\ pc' # "tag" /\ Running
    BY <1>0, <1>9 DEF TagFail, Damage, GiveUp, Return, meta, JobMatches, Running
  <2>2. PICK t \in TagFailed(tag[cur][slot]) : WriteTag(cur, slot, t)
    BY <1>9 DEF TagFail
  <2>3. \A r \in Sec, j \in Slot : tag'[r][j] = "unknown" => tag[r][j] = "unknown"
    BY <1>0, <2>2, TagsKept, TagValues
  <2> QED
    BY <1>0, <1>a, <2>1, <2>3, SlotKept
<1>10. CASE ServiceErase \/ Patch \/ PatchDone
  <2>1. /\ hdr' = hdr /\ dat' = dat /\ tag' = tag /\ cur' = cur /\ slot' = slot
        /\ appended' = appended /\ job' # "append" /\ pc' # "tag" /\ Running
    BY <1>0, <1>10
    DEF ServiceErase, Patch, PatchDone, Prepare, Return, flash, meta, hist, JobMatches, Running
  <2> QED
    BY <1>a, <2>1, SlotKept
<1>11. CASE PatchSlot
  <2>1. /\ hdr' = hdr /\ dat' = dat /\ cur' = cur /\ slot' = slot
        /\ appended' = appended /\ job' # "append" /\ pc' # "tag" /\ Running
    BY <1>0, <1>11 DEF PatchSlot, meta, hist, Damage, JobMatches, Running
  <2>2. \E t \in TagFailed(tag[target][at]) \cup {Filled(tag[target][at])} : WriteTag(target, at, t)
    BY <1>11 DEF PatchSlot
  <2>3. \A r \in Sec, j \in Slot : tag'[r][j] = "unknown" => tag[r][j] = "unknown"
    <3>1. PICK t \in TagFailed(tag[target][at]) \cup {Filled(tag[target][at])} :
                WriteTag(target, at, t)
      BY <2>2
    <3>2. t = "unknown" => tag[target][at] = "unknown"
      BY <3>1, TagValues
    <3> QED
      BY <1>0, <3>1, <3>2, TagsKept
  <2> QED
    BY <1>0, <1>a, <2>1, <2>3, SlotKept
<1>12. CASE PowerCut
  <2>1. hdr' = hdr /\ dat' = dat /\ slot' = 0 /\ appended' = appended /\ job' = "none" /\ pc' = "off"
    BY <1>12 DEF PowerCut, LosePower, Return, flash, hist
  <2> QED
    BY <1>a, <2>1 DEF SlotExact
<1>13. CASE PowerCutInWrite
  <2>1. slot' = 0 /\ appended' = appended /\ job' = "none" /\ pc' = "off"
    BY <1>13 DEF PowerCutInWrite, Damage, LosePower, Return
  <2>2. SlotExact'
    BY <2>1 DEF SlotExact
  <2>3. CASE pc = "erase" /\ ErasePartly(target)
    <3>1. /\ NoNewRecord
          /\ \A s \in Sec, i \in Slot : dat'[s][i] \in {dat[s][i], Torn, Virgin}
      BY <1>0, <2>3, EraseRecords
    <3> QED
      BY <1>0, <2>1, <2>2, <3>1, RecordsKept
  <2>4. CASE pc = "header" /\ dat' = dat /\
             \E h \in CutShort(hdr[target], NewSeq) : hdr' = [hdr EXCEPT ![target] = h]
    <3>1. \A s \in Sec : s # target => hdr'[s] = hdr[s]
      BY <1>0, <2>4 DEF TypeOK
    <3> QED
      BY <1>0, <2>1, <2>2, <2>4, <3>1, HeaderRecords, RecordsKept
  <2>5. CASE pc = "payload" /\ hdr' = hdr /\
             \E v \in CutShort(dat[cur][slot], appended) : WritePayload(v)
    <3>1. PICK v \in CutShort(dat[cur][slot], appended) : WritePayload(v)
      BY <2>5
    <3>2. v \in {dat[cur][slot], Torn, Programmed(dat[cur][slot], appended)}
      BY <3>1 DEF CutShort
    <3> QED
      BY <2>1, <2>2, <2>5, <3>1, <3>2, PayloadRecords
  <2>6. CASE hdr' = hdr /\ dat' = dat
    BY <1>a, <2>1, <2>2, <2>6
  <2> QED
    BY <1>13, <2>3, <2>4, <2>5, <2>6 DEF PowerCutInWrite
<1>14. CASE UNCHANGED vars
  <2>1. /\ hdr' = hdr /\ dat' = dat /\ tag' = tag /\ pc' = pc /\ job' = job /\ cur' = cur
        /\ slot' = slot /\ appended' = appended
    BY <1>14 DEF vars, flash, meta, args, hist
  <2> QED
    BY <2>1 DEF IInv, RingInv, Serials, LogOrder, HdrValid, SlotExact, Running, CellVirgin
<1> QED
  BY <1>1, <1>2, <1>3, <1>4, <1>5, <1>6, <1>7, <1>8, <1>9, <1>10, <1>11, <1>12, <1>13, <1>14
  DEF Next, Payload, Tag

-----------------------------------------------------------------------------
(* Between a record and the frontier lie no more slots than appends.       *)

\* What Spaced says of a running store, and of one whose power is off.
SpacedOn == Fits(cur, slot, Done)
SpacedOff ==
  \A c \in Sec, n \in 0 .. Slots : IsNewest(c) /\ IsFreeSlot(n, c) => Fits(c, n, appended)

\* The head of the next state's chain is its newest sector.
LEMMA HeadAfter ==
  ASSUME TypeOK', NEW c \in Sec, ChainAt(c)', NEW d \in Sec, IsNewest(d)'
  PROVE  d = c
<1>1. HdrValid(c)' /\ HdrValid(d)' /\ hdr'[c] <= hdr'[d]
  BY DEF ChainAt, IsNewest
<1>2. hdr'[d] = hdr'[c] - Dist(d, c)
  BY <1>1 DEF ChainAt
<1>3. hdr'[c] \in Int
  BY DEF TypeOK
<1>5. Dist(d, c) \in Nat
  BY DistType DEF Sec
<1>4. Dist(d, c) = 0
  BY <1>1, <1>2, <1>3, <1>5
<1> QED
  BY <1>4, DistType

\* find_slot_ stops at or before slot m if everything from there on is virgin.
LEMMA FreeSlotAfter ==
  ASSUME NEW c \in Sec, NEW m \in Nat, NEW n \in 0 .. Slots, IsFreeSlot(n, c)',
         \A i \in Slot : i >= m => CellVirgin(c, i)'
  PROVE  n <= m
<1> SUFFICES ASSUME n > m PROVE FALSE
  BY SlotsAssumption
<1>1. n - 1 \in Slot /\ n > 0 /\ n - 1 >= m
  BY SlotsAssumption DEF Slot
<1> QED
  BY <1>1 DEF IsFreeSlot

\* A running store stays spaced when the frontier moves by no more than the calls.
LEMMA FrontierKept ==
  ASSUME IInv, SpacedOn, NoNewRecord, cur' = cur, NEW m \in Int, NEW later \in Int,
         slot' = m, Done' = later, m - slot <= later - Done
  PROVE  SpacedOn'
<1>0. TypeOK /\ cur \in Sec /\ slot \in Int /\ Done \in Int
  <2>1. TypeOK /\ cur \in Sec /\ slot \in 0 .. Slots /\ appended \in Nat
    BY DEF IInv, WriteInv, TypeOK
  <2> QED
    BY <2>1, SlotsAssumption DEF Done
<1> SUFFICES ASSUME NEW s \in Sec, NEW i \in Slot, HdrValid(s)', dat'[s][i] > 0
             PROVE  dat'[s][i] + Dist(s, cur) * Slots + m - 1 - i <= later
  BY DEF SpacedOn, Fits
<1>1. dat[s][i] + Dist(s, cur) * Slots + slot - 1 - i <= Done /\ dat'[s][i] = dat[s][i]
  BY DEF SpacedOn, Fits, NoNewRecord
<1>2. dat[s][i] \in Int /\ i \in Int /\ Dist(s, cur) * Slots \in Int
  BY <1>0, CellTypes
<1> QED
  BY <1>0, <1>1, <1>2

\* So it does when the frontier moves to the next sector, which holds no record.
LEMMA FrontierAdvanced ==
  ASSUME IInv, SpacedOn, NoNewRecord, slot = Slots, NEW n \in Sec, n = Succ(cur), cur' = n,
         slot' = 0, NEW later \in Int, Done' = later, Done <= later,
         \A i \in Slot : dat'[n][i] = Virgin
  PROVE  SpacedOn'
<1>0. TypeOK /\ cur \in Sec /\ Done \in Int
  BY DEF IInv, WriteInv, TypeOK, Done
<1>1. Fits(cur, Slots, Done)
  BY DEF SpacedOn, Fits
<1>2. Fits(n, 0, later)'
  BY <1>0, <1>1, FitsAdvanced DEF Virgin
<1> QED
  BY <1>2 DEF SpacedOn, Fits

\* The next state holds no record when no header was valid.
LEMMA NothingFits ==
  ASSUME NoHeader, NoNewRecord
  PROVE  SpacedOn' /\ SpacedOff'
BY DEF NoHeader, NoNewRecord, SpacedOn, SpacedOff, Fits

\* Power fails while sector c is current and slot m the first that is virgin.
LEMMA OffAtFrontier ==
  ASSUME IInv, TypeOK', SpacedOn, NoNewRecord, NEW c \in Sec, c = cur, ChainAt(c)', NEW m \in Nat,
         appended' = appended, m - slot <= appended - Done,
         \A i \in Slot : i >= m => CellVirgin(c, i)'
  PROVE  SpacedOff'
<1>0. TypeOK /\ slot \in Int /\ Done \in Int /\ appended \in Int
  <2>1. TypeOK /\ slot \in 0 .. Slots /\ appended \in Nat
    BY DEF IInv, WriteInv, TypeOK
  <2> QED
    BY <2>1, SlotsAssumption DEF Done
<1> SUFFICES ASSUME NEW d \in Sec, NEW n \in 0 .. Slots, IsNewest(d)', IsFreeSlot(n, d)',
                    NEW s \in Sec, NEW i \in Slot, HdrValid(s)', dat'[s][i] > 0
             PROVE  dat'[s][i] + Dist(s, d) * Slots + n - 1 - i <= appended
  BY DEF SpacedOff, Fits
<1>1. d = c
  BY HeadAfter
<1>2. n <= m /\ n \in Int
  BY <1>1, FreeSlotAfter, SlotsAssumption
<1>3. dat[s][i] + Dist(s, c) * Slots + slot - 1 - i <= Done /\ dat'[s][i] = dat[s][i]
  BY DEF SpacedOn, Fits, NoNewRecord
<1>4. dat[s][i] \in Int /\ i \in Int /\ Dist(s, c) * Slots \in Int
  BY <1>0, CellTypes
<1> QED
  BY <1>0, <1>1, <1>2, <1>3, <1>4

\* Power fails when the next sector already heads the chain: it is virgin.
LEMMA OffAtNext ==
  ASSUME IInv, TypeOK', SpacedOn, NoNewRecord, slot = Slots, NEW c \in Sec, c = Succ(cur),
         ChainAt(c)', appended' = appended, \A i \in Slot : CellVirgin(c, i)'
  PROVE  SpacedOff'
<1>0. TypeOK /\ cur \in Sec /\ Done \in Int /\ appended \in Int /\ Done <= appended
  BY DEF IInv, WriteInv, TypeOK, Done
<1>1. Fits(cur, Slots, Done)
  BY DEF SpacedOn, Fits
<1>2. \A i \in Slot : ~ (dat'[c][i] > 0)
  BY DEF CellVirgin, Virgin
<1>3. \A last, later \in Int :
        Fits(cur, Slots, last) /\ last <= later => Fits(c, 0, later)'
  BY <1>0, <1>2, FitsAdvanced
<1>4. \A later \in Int : later = appended => Fits(c, 0, later)'
  BY <1>0, <1>1, <1>3
<1> SUFFICES ASSUME NEW d \in Sec, NEW n \in 0 .. Slots, IsNewest(d)', IsFreeSlot(n, d)'
             PROVE  Fits(d, n, appended)'
  BY DEF SpacedOff
<1>5. d = c
  BY HeadAfter
<1>6. n = 0
  <2>1. n <= 0
    BY <1>5, FreeSlotAfter
  <2> QED
    BY <2>1, SlotsAssumption
<1>7. \E later \in Int : later = appended /\ Fits(c, 0, later)'
  BY <1>0, <1>4
<1> QED
  BY <1>5, <1>6, <1>7 DEF Fits

\* The record being written fits, too, under a frontier at most one slot further.
LEMMA NewRecordFits ==
  ASSUME IInv, pc = "payload", SpacedOn, hdr' = hdr, NEW c \in Sec, c = cur,
         WritePayload(appended), NEW m \in Int, NEW later \in Int, m - slot <= later - Done
  PROVE  Fits(c, m, later)'
<1>0. /\ TypeOK /\ cur \in Sec /\ slot \in Int /\ appended \in Int /\ Done = appended - 1
      /\ slot < Slots
  BY PayloadValue DEF IInv, WriteInv, Done, Slot
<1>1. /\ dat'[cur][slot] = appended
      /\ \A s \in Sec, i \in Slot : s # cur \/ i # slot => dat'[s][i] = dat[s][i]
  BY <1>0, RecordLocal
<1> SUFFICES ASSUME NEW s \in Sec, NEW i \in Slot, HdrValid(s), dat'[s][i] > 0
             PROVE  dat'[s][i] + Dist(s, c) * Slots + m - 1 - i <= later
  BY DEF Fits, HdrValid
<1>2. dat[s][i] \in Int /\ i \in Int /\ Dist(s, c) * Slots \in Int
  BY <1>0, CellTypes
<1>3. CASE s = cur /\ i = slot
  <2>1. Dist(s, c) = 0
    BY <1>0, <1>3, DistType
  <2>2. Dist(s, c) * Slots = 0
    BY <2>1, SlotsProduct
  <2> QED
    BY <1>0, <1>1, <1>3, <2>2
<1>4. CASE ~ (s = cur /\ i = slot)
  <2>1. dat'[s][i] = dat[s][i]
    BY <1>1, <1>4
  <2>2. dat[s][i] + Dist(s, c) * Slots + slot - 1 - i <= Done
    BY <2>1 DEF SpacedOn, Fits
  <2> QED
    BY <1>0, <1>2, <2>1, <2>2
<1> QED
  BY <1>3, <1>4

\* A payload write, complete or cut short, while the store keeps running or not.
LEMMA PayloadSpaced ==
  ASSUME IInv, pc = "payload", SpacedOn, hdr' = hdr, WritePayload(appended), cur' = cur,
         NEW m \in Int, NEW later \in Int, slot' = m, Done' = later, m - slot <= later - Done
  PROVE  SpacedOn'
<1>1. \E c \in Sec : c = cur
  BY PayloadValue
<1>2. PICK c \in Sec : c = cur
  BY <1>1
<1>3. Fits(c, m, later)'
  BY <1>2, NewRecordFits
<1> QED
  BY <1>2, <1>3 DEF SpacedOn, Fits

\* Power fails in a payload write that has completed all the same.
LEMMA OffAtRecord ==
  ASSUME IInv, TypeOK', pc = "payload", SpacedOn, hdr' = hdr, tag' = tag,
         WritePayload(appended), NEW c \in Sec, c = cur, ChainAt(c)', appended' = appended,
         \A i \in Slot : i > slot => CellVirgin(c, i)
  PROVE  SpacedOff'
<1>0. slot \in Slot /\ slot + 1 \in Nat /\ appended \in Int /\ Done = appended - 1
  BY PayloadValue DEF Slot, Done
<1>1. \A i \in Slot : i # slot => dat'[cur][i] = dat[cur][i]
  BY PayloadValue, RecordLocal
<1>2. \A i \in Slot : i >= slot + 1 => CellVirgin(c, i)'
  BY <1>0, <1>1 DEF CellVirgin, Slot
<1> SUFFICES ASSUME NEW d \in Sec, NEW n \in 0 .. Slots, IsNewest(d)', IsFreeSlot(n, d)'
             PROVE  Fits(d, n, appended)'
  BY DEF SpacedOff
<1>3. d = c
  BY HeadAfter
<1>4. n <= slot + 1 /\ n \in Int
  <2>1. \A m \in Nat : (\A i \in Slot : i >= m => CellVirgin(c, i)') => n <= m
    BY <1>3, FreeSlotAfter
  <2> QED
    BY <1>0, <1>2, <2>1, SlotsAssumption
<1>5. \A later \in Int : later = appended => Fits(c, n, later)'
  <2> SUFFICES ASSUME NEW later \in Int, later = appended PROVE Fits(c, n, later)'
    OBVIOUS
  <2>1. n - slot <= later - Done
    BY <1>0, <1>4 DEF Slot
  <2> QED
    BY <1>4, <2>1, NewRecordFits
<1>6. \E later \in Int : later = appended /\ Fits(c, n, later)'
  BY <1>0, <1>5
<1> QED
  BY <1>3, <1>6 DEF Fits

\* Power fails between writes, or in one that touches no virgin slot.
LEMMA OffQuietly ==
  ASSUME IInv, TypeOK', Environment, Running, SpacedOn, pc \in {"idle", "patch"},
         hdr' = hdr, dat' = dat, appended' = appended,
         \A s \in Sec, i \in Slot : dat[s][i] = Virgin => tag'[s][i] = tag[s][i]
  PROVE  SpacedOff'
<1>0. /\ cur \in Sec /\ prepared \in Sec \cup {NoSec} /\ slot \in Nat /\ appended \in Int
      /\ Done <= appended /\ slot - slot <= appended - Done /\ NoNewRecord /\ SameHeaders
  <2>1. /\ cur \in Sec /\ prepared \in Sec \cup {NoSec} /\ slot \in 0 .. Slots /\ appended \in Nat
    BY DEF IInv, WriteInv, TypeOK
  <2>2. NoNewRecord /\ SameHeaders
    BY SameRecords
  <2> QED
    BY <2>1, <2>2, SlotsAssumption DEF Done
<1>1. \A s \in Sec, i \in Slot : CellVirgin(s, i) => CellVirgin(s, i)'
  BY DEF CellVirgin
<1>2. ChainAt(Top)
  BY DEF IInv, RingInv, Chain
<1>3. CASE prepared = NoSec
  <2>1. PICK c \in Sec : c = cur
    BY <1>0
  <2>2. ChainAt(c)'
    BY <1>0, <1>2, <1>3, <2>1, ChainSame DEF Top
  <2>3. \A i \in Slot : i >= slot => CellVirgin(cur, i)
    <3>1. \A i \in Slot : i \in Int
      BY DEF Slot
    <3> QED
      BY <1>0, <3>1 DEF IInv, WriteInv, Frontier, Environment
  <2> QED
    BY <1>0, <1>1, <2>1, <2>2, <2>3, OffAtFrontier
<1>4. CASE prepared # NoSec
  <2>1. PICK c \in Sec : c = prepared
    BY <1>0, <1>4
  <2>2. ChainAt(c)'
    BY <1>0, <1>2, <1>4, <2>1, ChainSame DEF Top
  <2>3. slot = Slots /\ c = Succ(cur) /\ \A i \in Slot : CellVirgin(c, i)
    BY <1>4, <2>1 DEF IInv, WriteInv, Recycling, Environment
  <2> QED
    BY <1>0, <1>1, <2>1, <2>2, <2>3, OffAtNext
<1> QED
  BY <1>3, <1>4

\* Power fails in a write of the running store.
LEMMA CutSpaced ==
  ASSUME IInv, TypeOK', Environment, Running, SpacedOn, PowerCutInWrite
  PROVE  SpacedOff'
<1>0. /\ TypeOK /\ JobMatches /\ cur \in Sec /\ target \in Sec /\ slot \in Nat /\ slot <= Slots
      /\ appended \in Int /\ appended' = appended /\ Done <= appended /\ job # "format"
  <2>1. /\ TypeOK /\ JobMatches /\ cur \in Sec /\ target \in Sec /\ slot \in 0 .. Slots
        /\ appended \in Nat
    BY DEF IInv, WriteInv, TypeOK
  <2>2. appended' = appended
    BY DEF PowerCutInWrite, Damage
  <2> QED
    BY <2>1, <2>2, SlotsAssumption DEF Done, Running
<1>c. PICK c \in Sec : c = cur
  BY <1>0
<1>1. CASE pc = "erase" /\ ErasePartly(target)
  <2>1. ChainAt(c)'
    BY <1>0, <1>1, <1>c, EraseChain
  <2>2. NoNewRecord /\ slot = Slots
    BY <1>0, <1>1, EraseRecords, Preparing
  <2>3. \A i \in Slot : ~ (i >= slot)
    BY <2>2, SlotsAssumption DEF Slot
  <2>4. slot - slot <= appended - Done /\ slot \in Nat
    BY <1>0 DEF Done
  <2> QED
    BY <1>0, <1>c, <2>1, <2>2, <2>3, <2>4, OffAtFrontier
<1>2. CASE pc = "header" /\ dat' = dat /\ tag' = tag /\
           \E h \in CutShort(hdr[target], NewSeq) : hdr' = [hdr EXCEPT ![target] = h]
  <2>1. PICK h \in CutShort(hdr[target], NewSeq) : hdr' = [hdr EXCEPT ![target] = h]
    BY <1>2
  <2>2. \A s \in Sec : s # target => hdr'[s] = hdr[s]
    BY <1>0, <2>1 DEF TypeOK
  <2>3. NoNewRecord /\ slot = Slots /\ target = Succ(cur) /\ ChainAt(cur)
    BY <1>0, <1>2, <2>2, HeaderRecords, Preparing
  <2>4. CASE h \in Failed(hdr[target])
    <3>1. SameHeaders
      BY <1>2, <2>1, <2>4, HeaderFailed
    <3>2. ChainAt(c)'
      BY <1>c, <2>3, <3>1, ChainSame
    <3>3. \A i \in Slot : ~ (i >= slot)
      BY <2>3, SlotsAssumption DEF Slot
    <3>4. slot - slot <= appended - Done
      BY <1>0 DEF Done
    <3> QED
      BY <1>0, <1>c, <2>3, <3>2, <3>3, <3>4, OffAtFrontier
  <2>5. CASE h = NewSeq
    <3>1. hdr' = [hdr EXCEPT ![target] = seq + 1]
      BY <1>0, <1>2, <2>1, <2>5, HeaderValue
    <3>2. PICK n \in Sec : n = target
      BY <1>0
    <3>3. ChainAt(n)'
      BY <1>0, <1>2, <3>1, <3>2, HeaderChain
    <3>4. \A i \in Slot : CellVirgin(n, i)'
      BY <1>2, <3>2 DEF IInv, WriteInv, Erased, CellVirgin
    <3> QED
      BY <1>0, <2>3, <3>2, <3>3, <3>4, OffAtNext
  <2> QED
    BY <1>2, <2>1, <2>4, <2>5, HeaderValue DEF CutShort, Failed
<1>3. ASSUME pc \in {"payload", "tag"}
      PROVE  /\ ChainAt(c) /\ slot + 1 \in Nat /\ (slot + 1) - slot <= appended - Done
             /\ \A i \in Slot : i > slot => CellVirgin(c, i)
  <2>1. /\ job = "append" /\ slot < Slots
    BY <1>0, <1>3 DEF JobMatches
  <2>2. prepared = NoSec
    BY <1>0, <2>1, SlotsAssumption DEF IInv, WriteInv, Recycling
  <2>3. ChainAt(c)
    BY <1>c, <2>2 DEF IInv, RingInv, Chain, Top
  <2>4. \A i \in Slot : i > slot => CellVirgin(cur, i)
    BY <1>3 DEF IInv, WriteInv, Frontier, Environment
  <2> QED
    BY <1>0, <1>c, <2>1, <2>3, <2>4 DEF Done
<1>4. CASE pc = "payload" /\ hdr' = hdr /\ tag' = tag /\
           \E v \in CutShort(dat[cur][slot], appended) : WritePayload(v)
  <2>0. ChainAt(c)'
    BY <1>3, <1>4 DEF ChainAt, HdrValid
  <2>1. PICK v \in CutShort(dat[cur][slot], appended) : WritePayload(v)
    BY <1>4
  <2>2. CASE v = appended
    BY <1>0, <1>3, <1>4, <1>c, <2>0, <2>1, <2>2, OffAtRecord
  <2>3. CASE v # appended
    <3>1. v \in {Virgin, Torn}
      BY <1>4, <2>1, <2>3, PayloadValue DEF CutShort
    <3>2. /\ \A s \in Sec, i \in Slot : s # cur \/ i # slot => dat'[s][i] = dat[s][i]
          /\ dat'[cur][slot] = v
      BY <1>4, <2>1, RecordLocal, PayloadValue
    <3>3. NoNewRecord
      BY <1>4, <3>1, <3>2 DEF NoNewRecord, Virgin, Torn, HdrValid
    <3>4. \A i \in Slot : i >= slot + 1 => CellVirgin(c, i)'
      BY <1>0, <1>3, <1>4, <1>c, <3>2 DEF CellVirgin, Slot
    <3> QED
      BY <1>0, <1>3, <1>4, <1>c, <2>0, <3>3, <3>4, OffAtFrontier
  <2> QED
    BY <2>2, <2>3
<1>5. CASE pc = "tag" /\ hdr' = hdr /\ dat' = dat /\
           \E t \in TagCutShort(tag[cur][slot]) : WriteTag(cur, slot, t)
  <2>0. ChainAt(c)' /\ NoNewRecord
    BY <1>3, <1>5, SameRecords DEF ChainAt, HdrValid
  <2>1. \A i \in Slot : i # slot => tag'[cur][i] = tag[cur][i]
    BY <1>0, <1>5 DEF WriteTag, TypeOK
  <2>2. \A i \in Slot : i >= slot + 1 => CellVirgin(c, i)'
    BY <1>0, <1>3, <1>5, <1>c, <2>1 DEF CellVirgin, Slot
  <2> QED
    BY <1>0, <1>3, <1>5, <1>c, <2>0, <2>2, OffAtFrontier
<1>6. CASE pc = "patch" /\ left > 0 /\ hdr' = hdr /\ dat' = dat /\ \E t \in Tags : WriteTag(target, at, t)
  <2>1. dat[target][at] # Virgin
    BY <1>6, PatchedSlot DEF IInv, Environment
  <2>2. \A s \in Sec, i \in Slot : s # target \/ i # at => tag'[s][i] = tag[s][i]
    BY <1>0, <1>6 DEF WriteTag, TypeOK
  <2> QED
    BY <1>0, <1>6, <2>1, <2>2, OffQuietly
<1>7. ASSUME pc = "patch", left > 0,
             \E t \in IF tag[target][at] = "unknown" THEN TagCutShort("unknown")
                      ELSE {tag[target][at]} : WriteTag(target, at, t)
      PROVE  \E t \in Tags : WriteTag(target, at, t)
  <2>1. tag[target][at] \in Tags /\ TagCutShort("unknown") \subseteq Tags
    BY <1>0 DEF TypeOK, TagCutShort, Tagged, Tags
  <2> QED
    BY <1>7, <2>1
<1> QED
  BY <1>1, <1>2, <1>4, <1>5, <1>6, <1>7 DEF PowerCutInWrite

\* Every step keeps the log spaced.
LEMMA SpacedStep ==
  ASSUME IInv, [Next]_vars, TypeOK'
  PROVE  Spaced'
<1>0. /\ TypeOK /\ JobMatches /\ cur \in Sec /\ target \in Sec /\ slot \in Int /\ slot <= Slots
      /\ appended \in Int /\ Done \in Int /\ Done <= appended
  <2>1. /\ TypeOK /\ JobMatches /\ cur \in Sec /\ target \in Sec /\ slot \in 0 .. Slots
        /\ appended \in Nat
    BY DEF IInv, WriteInv, TypeOK
  <2> QED
    BY <2>1, SlotsAssumption DEF Done
<1> SUFFICES ASSUME Environment PROVE (Running' => SpacedOn') /\ (~ Running' => SpacedOff')
  BY DEF Spaced, SpacedOn, SpacedOff, Environment
<1>a. (Running => SpacedOn) /\ (~ Running => SpacedOff)
  BY DEF IInv, RingInv, Spaced, SpacedOn, SpacedOff
<1>b. ASSUME Running, Running', NoNewRecord, cur' = cur, slot' = slot, Done' \in Int, Done <= Done'
      PROVE  (Running' => SpacedOn') /\ (~ Running' => SpacedOff')
  <2>1. slot - slot <= Done' - Done
    <3>1. \A a, b \in Int : a <= b => slot - slot <= b - a
      BY <1>0
    <3> QED
      BY <1>0, <1>b, <3>1
  <2>2. \A later \in Int : Done' = later /\ slot - slot <= later - Done => SpacedOn'
    BY <1>0, <1>a, <1>b, FrontierKept
  <2> QED
    BY <1>b, <2>1, <2>2
<1>c. ASSUME NoHeader, NoNewRecord
      PROVE  (Running' => SpacedOn') /\ (~ Running' => SpacedOff')
  BY <1>c, NothingFits
<1>1. CASE BeginFresh
  <2>1. NoHeader /\ NoNewRecord
    BY <1>1, SameRecords DEF BeginFresh, NoHeader, flash
  <2> QED
    BY <1>c, <2>1
<1>2. CASE Begin
  <2>1. PICK c \in Sec, n \in 0 .. Slots :
          IsNewest(c) /\ IsFreeSlot(n, c) /\ cur' = c /\ slot' = n
    BY <1>2 DEF Begin
  <2>2. /\ hdr' = hdr /\ dat' = dat /\ pc' = "idle" /\ job' = "none" /\ appended' = appended
        /\ ~ Running
    BY <1>0, <1>2 DEF Begin, flash, args, hist, JobMatches, Running
  <2>3. Fits(c, n, appended)
    BY <1>a, <2>1, <2>2 DEF SpacedOff
  <2>4. SpacedOn'
    BY <2>1, <2>2, <2>3 DEF SpacedOn, Fits, HdrValid, Done
  <2> QED
    BY <2>2, <2>4 DEF Running
<1>3. CASE EraseOk \/ EraseFail
  <2>1. /\ pc = "erase" /\ (EraseAll(target) \/ ErasePartly(target)) /\ UNCHANGED meta
        /\ appended' = appended
    BY <1>3 DEF EraseOk, EraseFail, Damage, hist
  <2>2. NoNewRecord
    BY <1>0, <2>1, EraseRecords
  <2>3. CASE job = "format"
    BY <1>c, <2>2, <2>3 DEF IInv, RingInv, Chain
  <2>4. CASE job # "format"
    <3>1. Running /\ Running' /\ (job' = "append" => job = "append")
      BY <1>3, <2>1, <2>4 DEF EraseOk, EraseFail, GiveUp, Return, args, Running
    <3>2. Done' \in Int /\ Done <= Done'
      BY <1>0, <2>1, <3>1 DEF Done
    <3> QED
      BY <1>b, <2>1, <2>2, <3>1, <3>2 DEF meta
  <2> QED
    BY <2>3, <2>4
<1>4. CASE HeaderFail \/ FormatDone \/ ServiceDone \/ AdvanceDone
  <2>1. /\ pc = "header" /\ dat' = dat /\ appended' = appended
        /\ \A s \in Sec : s # target => hdr'[s] = hdr[s]
    BY <1>0, <1>4
    DEF TypeOK, HeaderFail, FormatDone, ServiceDone, AdvanceDone, WriteHeader, Damage, hist
  <2>2. NoNewRecord
    BY <2>1, HeaderRecords
  <2>3. CASE job = "format"
    BY <1>c, <2>2, <2>3 DEF IInv, RingInv, Chain
  <2>4. CASE job # "format"
    <3>1. Running /\ (job' = "append" => job = "append")
      BY <1>4, <2>1, <2>4
      DEF HeaderFail, FormatDone, ServiceDone, AdvanceDone, GiveUp, Return, args, Running
    <3>2. Done' \in Int /\ Done <= Done'
      BY <1>0, <2>1, <3>1 DEF Done
    <3>3. CASE HeaderFail \/ ServiceDone
      <4>1. cur' = cur /\ slot' = slot /\ Running'
        BY <2>4, <3>3 DEF HeaderFail, ServiceDone, GiveUp, Return, meta, Running
      <4> QED
        BY <1>b, <2>2, <3>1, <3>2, <4>1
    <3>4. CASE AdvanceDone
      <4>1. cur' = target /\ slot' = 0 /\ Running'
        BY <3>4, <2>4 DEF AdvanceDone, Advance, Running, args
      <4>2. target = Succ(cur) /\ slot = Slots
        BY <2>1, <2>4, Preparing
      <4>3. \A i \in Slot : dat'[target][i] = Virgin
        BY <2>1 DEF IInv, WriteInv, Erased, CellVirgin
      <4>4. \A later \in Int : Done' = later /\ Done <= later => SpacedOn'
        BY <1>0, <1>a, <2>2, <3>1, <4>1, <4>2, <4>3, FrontierAdvanced
      <4> QED
        BY <3>2, <4>1, <4>4
    <3> QED
      BY <1>4, <2>4, <3>3, <3>4 DEF FormatDone
  <2> QED
    BY <2>3, <2>4
<1>5. ASSUME NEW d \in BOOLEAN, BeginAppend(d)
      PROVE  (Running' => SpacedOn') /\ (~ Running' => SpacedOff')
  <2>1. /\ hdr' = hdr /\ dat' = dat /\ appended' = appended + 1 /\ pc = "idle" /\ job = "none"
        /\ job' = "append" /\ Running /\ Running'
    BY <1>0, <1>5 DEF BeginAppend, Prepare, flash, JobMatches, Running
  <2>2. NoNewRecord
    BY <2>1, SameRecords
  <2>3. Done' \in Int /\ Done <= Done'
    BY <1>0, <2>1 DEF Done
  <2>4. CASE slot < Slots \/ prepared # Succ(cur)
    <3>1. cur' = cur /\ slot' = slot
      BY <1>5, <2>4 DEF BeginAppend, meta
    <3> QED
      BY <1>b, <2>1, <2>2, <2>3, <3>1
  <2>5. CASE ~ (slot < Slots) /\ prepared = Succ(cur)
    <3>1. cur' = Succ(cur) /\ slot' = 0 /\ slot = Slots
      BY <1>0, <1>5, <2>5, SlotsAssumption DEF BeginAppend, Advance
    <3>2. Succ(cur) \in Sec /\ prepared # NoSec
      BY <1>0, <2>5, SuccType, Zero
    <3>3. \A i \in Slot : dat'[Succ(cur)][i] = Virgin
      BY <2>1, <2>5, <3>2 DEF IInv, WriteInv, Recycling
    <3>4. \A n \in Sec, later \in Int :
            n = Succ(cur) /\ Done' = later /\ Done <= later => SpacedOn'
      BY <1>0, <1>a, <2>1, <2>2, <3>1, <3>3, FrontierAdvanced
    <3> QED
      BY <2>1, <2>3, <3>2, <3>4
  <2> QED
    BY <2>4, <2>5
<1>6. CASE pc = "payload" /\ PayloadOk
  <2>1. /\ hdr' = hdr /\ WritePayload(appended) /\ cur' = cur
    BY <1>6, PayloadValue DEF PayloadOk, Appended, meta
  <2>2. /\ Running /\ Running' /\ Done = appended - 1 /\ slot' \in Int /\ Done' \in Int
        /\ slot' - slot <= Done' - Done
    <3>1. Running /\ Done = appended - 1 /\ job = "append"
      BY <1>6, PayloadValue DEF Done
    <3>2. CASE dated
      <4>1. Running' /\ slot' = slot /\ appended' = appended /\ job' = "append"
        BY <1>6, <3>1, <3>2 DEF PayloadOk, meta, args, hist, Running
      <4> QED
        BY <1>0, <3>1, <4>1 DEF Done
    <3>3. CASE ~ dated
      <4>1. Running' /\ slot' = slot + 1 /\ appended' = appended /\ job' = "none"
        BY <1>6, <3>3 DEF PayloadOk, Appended, Return, Running
      <4> QED
        BY <1>0, <3>1, <4>1 DEF Done
    <3> QED
      BY <3>2, <3>3
  <2>3. \A m, later \in Int : slot' = m /\ Done' = later /\ m - slot <= later - Done => SpacedOn'
    BY <1>6, <1>a, <2>1, <2>2, PayloadSpaced
  <2> QED
    BY <2>2, <2>3
<1>7. CASE pc = "tag" /\ TagOk
  <2>1. /\ hdr' = hdr /\ dat' = dat /\ cur' = cur /\ slot' = slot + 1 /\ appended' = appended
        /\ job' = "none" /\ job = "append" /\ Running /\ Running'
    BY <1>0, <1>7 DEF TagOk, Appended, Return, JobMatches, Running
  <2>2. NoNewRecord
    BY <2>1, SameRecords
  <2>3. slot' \in Int /\ Done' \in Int /\ slot' - slot <= Done' - Done
    BY <1>0, <2>1 DEF Done
  <2>4. \A m, later \in Int : slot' = m /\ Done' = later /\ m - slot <= later - Done => SpacedOn'
    BY <1>a, <2>1, <2>2, FrontierKept
  <2> QED
    BY <2>1, <2>3, <2>4
<1>8. CASE ServiceErase \/ Patch \/ PatchSlot \/ PatchDone
  <2>1. /\ hdr' = hdr /\ dat' = dat /\ cur' = cur /\ slot' = slot /\ appended' = appended
        /\ job # "append" /\ job' # "append" /\ Running /\ Running'
    BY <1>0, <1>8 DEF ServiceErase, Patch, PatchSlot, PatchDone, Prepare, Return, flash, meta,
                      hist, Damage, JobMatches, Running
  <2>2. NoNewRecord /\ Done' = Done
    BY <2>1, SameRecords DEF Done
  <2> QED
    BY <1>0, <1>b, <2>1, <2>2
<1>9. CASE PowerCut
  <2>1. /\ hdr' = hdr /\ dat' = dat /\ tag' = tag /\ appended' = appended /\ ~ Running'
    BY <1>9 DEF PowerCut, LosePower, Return, flash, hist, Running
  <2>2. CASE Running
    <3>1. pc = "idle"
      BY <1>9, <2>2 DEF PowerCut, Running
    <3> QED
      BY <1>a, <2>1, <2>2, <3>1, OffQuietly
  <2>3. CASE ~ Running
    BY <1>a, <2>1, <2>3 DEF SpacedOff, IsNewest, IsFreeSlot, CellVirgin, Fits, HdrValid
  <2> QED
    BY <2>2, <2>3
<1>10. CASE PowerCutInWrite
  <2>1. ~ Running'
    BY <1>10 DEF PowerCutInWrite, LosePower, Return, Running
  <2>2. CASE Running
    BY <1>10, <1>a, <2>1, <2>2, CutSpaced
  <2>3. CASE ~ Running
    <3>1. job = "format" /\ pc \in {"erase", "header"}
      BY <1>0, <1>10, <2>3 DEF PowerCutInWrite, Running, JobMatches
    <3>2. CASE pc = "erase"
      <4>1. NoNewRecord
        BY <1>0, <1>10, <3>2, EraseRecords DEF PowerCutInWrite
      <4> QED
        BY <1>c, <3>1, <4>1 DEF IInv, RingInv, Chain
    <3>3. CASE pc = "header"
      <4>1. dat' = dat /\ \A s \in Sec : s # target => hdr'[s] = hdr[s]
        BY <1>0, <1>10, <3>3 DEF PowerCutInWrite, TypeOK
      <4>2. NoNewRecord
        BY <3>3, <4>1, HeaderRecords
      <4> QED
        BY <1>c, <3>1, <4>2 DEF IInv, RingInv, Chain
    <3> QED
      BY <3>1, <3>2, <3>3
  <2> QED
    BY <2>2, <2>3
<1>11. CASE UNCHANGED vars
  <2>1. /\ hdr' = hdr /\ dat' = dat /\ tag' = tag /\ appended' = appended /\ pc' = pc
        /\ job' = job /\ cur' = cur /\ slot' = slot
    BY <1>11 DEF vars, flash, meta, args, hist
  <2>2. Done' = Done /\ (Running' <=> Running)
    BY <2>1 DEF Done, Running
  <2>3. Running => SpacedOn'
    BY <1>a, <2>1, <2>2 DEF SpacedOn, Fits, HdrValid
  <2>4. ~ Running => SpacedOff'
    BY <1>a, <2>1 DEF SpacedOff, IsNewest, IsFreeSlot, CellVirgin, Fits, HdrValid
  <2> QED
    BY <2>2, <2>3, <2>4
<1>12. ~ PayloadFail /\ ~ TagFail
  BY DEF PayloadFail, TagFail, Environment
<1> QED
  BY <1>1, <1>2, <1>3, <1>4, <1>5, <1>6, <1>7, <1>8, <1>9, <1>10, <1>11, <1>12
  DEF Next, Payload, Tag

-----------------------------------------------------------------------------
(* The inductive invariant, and what it promises of the store.             *)

\* A fresh flash, erased or foreign, satisfies the invariant.
LEMMA InitRing == Init => RingInv
<1> SUFFICES ASSUME Init PROVE RingInv
  OBVIOUS
<1>1. /\ \A s \in Sec : ~ HdrValid(s)
      /\ \A s \in Sec, i \in Slot : dat[s][i] \in {Virgin, Torn}
      /\ pc = "off" /\ job = "none" /\ appended = 0
  BY DEF Init, HdrValid, Virgin, Torn
<1>2. Chain /\ Served /\ SlotExact
  BY <1>1 DEF Chain, Served, SlotExact, Running, NoHeader
<1>3. Serials
  BY <1>1 DEF Serials, Virgin, Torn
<1>4. LogOrder
  BY <1>1 DEF LogOrder
<1>5. Spaced
  BY <1>1 DEF Spaced, Running, IsNewest
<1> QED
  BY <1>2, <1>3, <1>4, <1>5 DEF RingInv

\* The invariant holds in every environment: whatever fails, and whenever the
\* clock syncs.
THEOREM InductiveInvariant == Spec => []IInv
<1>1. Init => IInv
  BY TypeInit, InitShape, WriteInvParts, InitRing DEF IInv
<1>2. IInv /\ [Next]_vars => IInv'
  <2> SUFFICES ASSUME IInv, [Next]_vars PROVE IInv'
    OBVIOUS
  <2>1. WriteInv'
    BY TypeStep, ShapeStep, WriteInvParts DEF IInv, WriteInv, TypeInv, Shape
  <2>2. TypeOK'
    BY <2>1 DEF WriteInv
  <2>3. Chain' /\ Served'
    BY HeadStep
  <2>4. Serials' /\ LogOrder' /\ SlotExact'
    BY RecordStep
  <2>5. Spaced'
    BY <2>2, SpacedStep
  <2> QED
    BY <2>1, <2>3, <2>4, <2>5 DEF IInv, RingInv
<1> QED
  BY <1>1, <1>2, PTL DEF Spec

\* The count served to the SPA is the number of slots from the oldest sector to
\* the frontier, so the recycle's subtraction never under-counts.
THEOREM CountIsExact == Spec => []CountExact
<1>1. IInv => CountExact
  <2> SUFFICES ASSUME IInv, pc \in {"idle", "payload", "tag", "patch"}
               PROVE  count = Dist(oldest, cur) * Slots + slot
    BY DEF CountExact
  <2>1. Running
    BY DEF IInv, WriteInv, JobMatches, Running
  <2> QED
    BY <2>1 DEF IInv, RingInv, Served
<1> QED
  BY <1>1, InductiveInvariant, PTL

\* Reading from the oldest sector to the newest, and up the slots of each, meets
\* the records in the order they were appended, whatever failed: no reader sorts.
THEOREM RecordsInOrder == Spec => []LogOrder
<1>1. IInv => LogOrder
  BY DEF IInv, RingInv
<1> QED
  BY <1>1, InductiveInvariant, PTL

\* A write that reports failure while powered spoils the slot at the frontier at
\* most, and neither the order of the records nor the count.
THEOREM FaultsAreContained ==
  ClockSyncs => (Spec => [](FaultContained /\ LogOrder /\ CountExact))
<1> SUFFICES ASSUME ClockSyncs PROVE Spec => [](FaultContained /\ LogOrder /\ CountExact)
  OBVIOUS
<1>1. Spec => []FaultContained
  BY FaultsStayAtFrontier
<1> QED
  BY <1>1, RecordsInOrder, CountIsExact, PTL

-----------------------------------------------------------------------------
(* A reboot neither loses nor invents a record.                            *)

\* The backward walk ends at the far end of the valid headers.
LEMMA WalkEnds ==
  ASSUME TypeOK, NEW c \in Sec, ChainAt(c), NEW o \in Sec,
         \A s \in Sec : HdrValid(s) <=> Dist(s, c) <= Dist(o, c)
  PROVE  IsOldest(o, c)
<1>1. IsRun(o, c)
  BY DEF IsRun, ChainAt
<1>2. ASSUME Dist(o, c) # Sectors - 1 PROVE ~ HdrValid(Pred(o))
  <2>1. Pred(o) \in Sec /\ Dist(Pred(o), c) = Dist(o, c) + 1
    BY <1>2, Farthest, Behind
  <2>2. Dist(o, c) \in Int
    BY DistType DEF Sec
  <2> QED
    BY <2>1, <2>2
<1> QED
  BY <1>1, <1>2 DEF IsOldest

\* What an idle store knows of its frontier.
LEMMA IdleFrontier ==
  ASSUME IInv, Environment, pc = "idle"
  PROVE  /\ Running /\ cur \in Sec /\ oldest \in Sec /\ slot \in 0 .. Slots
         /\ IsFreeSlot(slot, cur)
         /\ prepared # NoSec => /\ prepared = Succ(cur) /\ slot = Slots /\ prepared \in Sec
                                /\ \A i \in Slot : CellVirgin(prepared, i)
<1>1. Running
  BY DEF IInv, WriteInv, JobMatches, Running
<1>2. cur \in Sec /\ oldest \in Sec /\ slot \in 0 .. Slots /\ prepared \in Sec \cup {NoSec}
  BY DEF IInv, WriteInv, TypeOK
<1>3. \A i \in Slot : i >= slot => CellVirgin(cur, i)
  <2>1. \A i \in Slot : i \in Int
    BY DEF Slot
  <2>2. slot \in Int
    BY <1>2, SlotsAssumption
  <2> QED
    BY <1>1, <2>1, <2>2 DEF IInv, WriteInv, Frontier, Environment
<1>4. slot > 0 => ~ CellVirgin(cur, slot - 1)
  BY <1>1 DEF IInv, RingInv, SlotExact
<1>5. prepared # NoSec => /\ prepared = Succ(cur) /\ slot = Slots
                          /\ \A i \in Slot : CellVirgin(prepared, i)
  BY <1>1 DEF IInv, WriteInv, Recycling, Environment
<1> QED
  BY <1>1, <1>2, <1>3, <1>4, <1>5 DEF IsFreeSlot

\* The power-on of a store whose next sector is not prepared.
LEMMA RebootHere ==
  ASSUME IInv, Environment, pc = "idle", prepared = NoSec
  PROVE  RebootNeutral
<1>0. /\ Running /\ cur \in Sec /\ oldest \in Sec /\ slot \in 0 .. Slots
      /\ IsFreeSlot(slot, cur) /\ TypeOK
  BY IdleFrontier DEF IInv, WriteInv
<1>1. ChainAt(cur) /\ IsNewest(cur)
  <2>1. ChainAt(cur)
    BY <1>0 DEF IInv, RingInv, Chain, Top
  <2> QED
    BY <1>0, <2>1, HeadIsNewest
<1>2. /\ \A s \in Sec : Dist(s, cur) <= Dist(oldest, cur) =>
           HdrValid(s) \/ (s = oldest /\ s = Succ(cur) /\ slot = Slots)
      /\ \A s \in Sec : HdrValid(s) => Dist(s, cur) <= Dist(oldest, cur)
  BY <1>0, Zero DEF IInv, RingInv, Served
<1>3. CASE HdrValid(oldest)
  <2>1. IsOldest(oldest, cur)
    BY <1>0, <1>1, <1>2, <1>3, WalkEnds
  <2> QED
    BY <1>0, <1>1, <2>1 DEF RebootNeutral
<1>4. CASE ~ HdrValid(oldest)
  <2>0. Dist(oldest, cur) \in Int
    BY <1>0, DistType DEF Sec
  <2>1. oldest = Succ(cur) /\ slot = Slots
    BY <1>0, <1>2, <1>4, <2>0
  <2>2. /\ Succ(oldest) \in Sec /\ oldest # cur
        /\ Dist(Succ(oldest), cur) = Dist(oldest, cur) - 1
    BY <1>0, <2>1, SuccType, Behind
  <2>3. \A s \in Sec : HdrValid(s) <=> Dist(s, cur) <= Dist(Succ(oldest), cur)
    <3> SUFFICES ASSUME NEW s \in Sec
                 PROVE  HdrValid(s) <=> Dist(s, cur) <= Dist(Succ(oldest), cur)
      OBVIOUS
    <3>1. Dist(s, cur) \in Int
      BY <1>0, DistType DEF Sec
    <3>2. CASE s = oldest
      BY <1>4, <2>0, <2>2, <3>2
    <3>3. CASE s # oldest
      <4>1. Dist(s, cur) # Dist(oldest, cur)
        BY <1>0, <3>3, BehindInjective
      <4> QED
        BY <1>2, <2>0, <2>2, <3>1, <3>3, <4>1
    <3> QED
      BY <3>2, <3>3
  <2>4. IsOldest(Succ(oldest), cur)
    BY <1>0, <1>1, <2>2, <2>3, WalkEnds
  <2> QED
    BY <1>0, <1>1, <1>4, <2>1, <2>2, <2>4 DEF RebootNeutral
<1> QED
  BY <1>3, <1>4

\* The power-on of a store that has prepared its next sector: that sector is
\* elected, and is empty.
LEMMA RebootAhead ==
  ASSUME IInv, Environment, pc = "idle", prepared # NoSec
  PROVE  RebootNeutral
<1>0. /\ Running /\ cur \in Sec /\ oldest \in Sec /\ slot = Slots /\ TypeOK
      /\ prepared = Succ(cur) /\ prepared \in Sec /\ \A i \in Slot : CellVirgin(prepared, i)
  BY IdleFrontier DEF IInv, WriteInv
<1>1. ChainAt(prepared) /\ IsNewest(prepared)
  <2>1. ChainAt(prepared)
    BY <1>0 DEF IInv, RingInv, Chain, Top
  <2> QED
    BY <1>0, <2>1, HeadIsNewest
<1>2. oldest # prepared
  BY <1>0 DEF IInv, RingInv, Served
<1>3. \A s \in Sec : s # prepared =>
        /\ HdrValid(s) <=> Dist(s, cur) <= Dist(oldest, cur)
        /\ Dist(s, prepared) = Dist(s, cur) + 1 /\ Dist(s, cur) \in Nat
  <2>1. \A s \in Sec : s # prepared => (HdrValid(s) <=> Dist(s, cur) <= Dist(oldest, cur))
    BY <1>0 DEF IInv, RingInv, Served
  <2>2. \A s \in Sec : s # prepared => Dist(s, prepared) = Dist(s, cur) + 1 /\ Dist(s, cur) \in Nat
    BY <1>0, DistSucc, DistType DEF Sec
  <2> QED
    BY <2>1, <2>2
<1>4. \A s \in Sec :
        Dist(s, prepared) <= Dist(oldest, prepared) <=>
          s = prepared \/ Dist(s, cur) <= Dist(oldest, cur)
  <2> SUFFICES ASSUME NEW s \in Sec
               PROVE  Dist(s, prepared) <= Dist(oldest, prepared) <=>
                        s = prepared \/ Dist(s, cur) <= Dist(oldest, cur)
    OBVIOUS
  <2>1. CASE s = prepared
    <3>1. Dist(s, prepared) = 0
      BY <1>0, <2>1, DistType
    <3> QED
      BY <1>0, <1>2, <1>3, <2>1, <3>1
  <2>2. CASE s # prepared
    BY <1>0, <1>2, <1>3, <2>2
  <2> QED
    BY <2>1, <2>2
<1>5. IsOldest(oldest, prepared)
  <2>1. \A s \in Sec : HdrValid(s) <=> Dist(s, prepared) <= Dist(oldest, prepared)
    <3>1. HdrValid(prepared)
      BY <1>1 DEF ChainAt
    <3> QED
      BY <1>3, <1>4, <3>1
  <2> QED
    BY <1>0, <1>1, <2>1, WalkEnds
<1>6. IsFreeSlot(0, prepared) /\ 0 \in 0 .. Slots
  BY <1>0, Zero DEF IsFreeSlot
<1>7. Readable(oldest, prepared, 0) = Readable(oldest, cur, slot)
  <2>1. \A i \in Slot : dat[prepared][i] = Virgin /\ i >= 0 /\ ~ (i >= slot)
    BY <1>0, SlotsAssumption DEF CellVirgin, Slot
  <2>2. ASSUME NEW v PROVE v \in Readable(oldest, prepared, 0) <=>
                 v \notin {Virgin, Torn} /\
                 \E s \in Sec, i \in Slot : Dist(s, cur) <= Dist(oldest, cur) /\ v = dat[s][i]
    <3>1. v \in Readable(oldest, prepared, 0) <=>
            v \notin {Virgin, Torn} /\
            \E s \in Sec, i \in Slot :
              Dist(s, prepared) <= Dist(oldest, prepared) /\ v = dat[s][i]
      BY <2>1 DEF Readable
    <3> QED
      BY <1>4, <2>1, <3>1
  <2>3. ASSUME NEW v PROVE v \in Readable(oldest, cur, slot) <=>
                 v \notin {Virgin, Torn} /\
                 \E s \in Sec, i \in Slot : Dist(s, cur) <= Dist(oldest, cur) /\ v = dat[s][i]
    BY <2>1 DEF Readable
  <2> QED
    BY <2>2, <2>3
<1> QED
  BY <1>0, <1>1, <1>5, <1>6, <1>7 DEF RebootNeutral

\* Whenever no operation is under way a power-on would find the records the
\* running store serves, and always in the order they were appended.
THEOREM LogIsKept == Environment => (Spec => []LogKept)
<1> SUFFICES ASSUME Environment PROVE Spec => []LogKept
  OBVIOUS
<1>1. IInv => LogKept
  <2> SUFFICES ASSUME IInv PROVE LogKept
    OBVIOUS
  <2>1. RebootNeutral
    <3>1. CASE pc # "idle"
      BY <3>1 DEF RebootNeutral
    <3> QED
      BY <3>1, RebootHere, RebootAhead
  <2> QED
    BY <2>1 DEF LogKept, IInv, RingInv
<1> QED
  BY <1>1, InductiveInvariant, PTL

-----------------------------------------------------------------------------
(* The store implements HistLog.                                           *)

\* The records that stand under a valid header.
Records ==
  {v \in Int : v > 0 /\ \E s \in Sec, i \in Slot : HdrValid(s) /\ dat[s][i] = v}

\* They are the log: the sectors from which the sequence numbers lead to the
\* newest one are the valid ones.
LEMMA LogIsRecords == TypeOK /\ Chain /\ Serials => Log = Records
<1> SUFFICES ASSUME TypeOK, Chain, Serials PROVE Log = Records
  OBVIOUS
<1>1. \A t \in Sec : (\E c \in Sec : IsNewest(c) /\ IsRun(t, c)) <=> HdrValid(t)
  <2>1. CASE NoHeader
    BY <2>1 DEF NoHeader, IsNewest
  <2>2. ASSUME NEW h \in Sec, ChainAt(h)
        PROVE  \A t \in Sec : (\E c \in Sec : IsNewest(c) /\ IsRun(t, c)) <=> HdrValid(t)
    <3>1. \A c \in Sec : IsNewest(c) <=> c = h
      BY <2>2, HeadIsNewest
    <3>2. \A t \in Sec : IsRun(t, h) <=> HdrValid(t)
      <4>1. \A t \in Sec : Dist(t, h) <= Dist(t, h)
        BY DistType DEF Sec
      <4>2. \A t \in Sec : IsRun(t, h) => HdrValid(t)
        BY <4>1 DEF IsRun
      <4> QED
        BY <2>2, <4>2 DEF ChainAt, IsRun
    <3> QED
      BY <2>2, <3>1, <3>2
  <2> QED
    BY <2>1, <2>2 DEF Chain
<1>2. \A s \in Sec, i \in Slot :
        dat[s][i] \in Int /\ (dat[s][i] \notin {Virgin, Torn} <=> dat[s][i] > 0)
  <2>1. \A s \in Sec, i \in Slot : dat[s][i] \in Torn .. appended
    BY DEF Serials
  <2>2. appended \in Int
    BY DEF TypeOK
  <2> QED
    BY <2>1, <2>2 DEF Virgin, Torn
<1>3. \A v : v \in Log <=>
        v \notin {Virgin, Torn} /\ \E s \in Sec, i \in Slot : HdrValid(s) /\ v = dat[s][i]
  BY <1>1 DEF Log
<1>4. \A v : v \in Log <=> v \in Records
  BY <1>2, <1>3 DEF Records
<1> QED
  BY <1>4

\* A sector has no more records than slots.
LEMMA AtMostSlots ==
  ASSUME NEW f \in [Slot -> Int], NEW R, \A v \in R : \E i \in Slot : v = f[i]
  PROVE  Cardinality(R) <= Slots
<1> DEFINE T == {f[i] : i \in Slot}
<1>1. f \in Surjection(Slot, T)
  BY DEF Surjection
<1>2. IsFiniteSet(Slot) /\ Cardinality(Slot) = Slots
  <2>1. 0 \in Int /\ Slots - 1 \in Int /\ ~ (0 > Slots - 1) /\ (Slots - 1) - 0 + 1 = Slots
    BY SlotsAssumption
  <2> QED
    BY <2>1, FS_Interval DEF Slot
<1>3. IsFiniteSet(T) /\ Cardinality(T) <= Slots
  BY <1>1, <1>2, FS_Surjection
<1>4. R \in SUBSET T
  OBVIOUS
<1>5. IsFiniteSet(R) /\ Cardinality(R) <= Cardinality(T)
  BY <1>3, <1>4, FS_Subset
<1>6. Cardinality(R) \in Nat /\ Cardinality(T) \in Nat
  BY <1>3, <1>5, FS_CardinalityType
<1> QED
  BY <1>3, <1>5, <1>6, SlotsAssumption

\* The records do not change when no valid sector gains or loses one.
RecordsStay ==
  /\ NoNewRecord
  /\ \A s \in Sec, i \in Slot :
       HdrValid(s) /\ dat[s][i] > 0 => HdrValid(s)' /\ dat'[s][i] = dat[s][i]

\* The records that stay are the records.
LEMMA RecordsSame == ASSUME RecordsStay PROVE Records' = Records
BY DEF RecordsStay, NoNewRecord, Records

\* A step that leaves headers and records alone, or writes to the header of an
\* erased sector, keeps the records.
LEMMA HeaderStays ==
  ASSUME IInv, dat' = dat,
         hdr' = hdr \/ (pc = "header" /\ \A s \in Sec : s # target => hdr'[s] = hdr[s])
  PROVE  Records' = Records
<1>1. CASE hdr' = hdr
  BY <1>1, SameRecords, RecordsSame DEF RecordsStay, HdrValid
<1>2. CASE pc = "header" /\ \A s \in Sec : s # target => hdr'[s] = hdr[s]
  <2>1. NoNewRecord
    BY <1>2, HeaderRecords
  <2>2. \A i \in Slot : ~ (dat[target][i] > 0)
    BY <1>2 DEF IInv, WriteInv, Erased, CellVirgin, Virgin
  <2>3. \A s \in Sec, i \in Slot :
          HdrValid(s) /\ dat[s][i] > 0 => HdrValid(s)' /\ dat'[s][i] = dat[s][i]
    BY <1>2, <2>2 DEF HdrValid
  <2> QED
    BY <2>1, <2>3, RecordsSame DEF RecordsStay
<1> QED
  BY <1>1, <1>2

\* A record written to the frontier is one more.
LEMMA RecordAdded ==
  ASSUME IInv, Environment, pc = "payload", hdr' = hdr, WritePayload(appended)
  PROVE  Records' = Records \cup {appended}
<1>1. /\ slot \in Slot /\ cur \in Sec /\ slot < Slots /\ appended \in Int /\ appended > 0
      /\ Running /\ dat[cur][slot] = Virgin
  BY PayloadValue
<1>2. HdrValid(cur)
  BY <1>1 DEF IInv, RingInv, Chain
<1>3. /\ dat'[cur][slot] = appended
      /\ \A s \in Sec, i \in Slot : s # cur \/ i # slot => dat'[s][i] = dat[s][i]
  BY <1>1, RecordLocal
<1>4. \A s \in Sec : HdrValid(s)' <=> HdrValid(s)
  BY DEF HdrValid
<1>5. \A v \in Int : v \in Records' <=> v \in Records \/ v = appended
  BY <1>1, <1>2, <1>3, <1>4 DEF Records, Virgin
<1> QED
  BY <1>1, <1>5 DEF Records

\* An erase discards the records of the oldest sector, if any.
LEMMA RecordsRecycled ==
  ASSUME IInv, Environment, pc = "erase", EraseAll(target) \/ ErasePartly(target)
  PROVE  /\ Records' \subseteq Records
         /\ \A k \in Records \ Records' : k <= appended - Window
         /\ Cardinality(Records \ Records') <= Slots
<1>0. /\ TypeOK /\ target \in Sec /\ slot \in 0 .. Slots /\ appended \in Int /\ cur \in Sec
  BY DEF IInv, WriteInv, TypeOK
<1>1. NoNewRecord /\ \A s \in Sec : s # target => dat'[s] = dat[s] /\ hdr'[s] = hdr[s]
  BY <1>0, EraseRecords, EraseHeader
<1>2. Records' \subseteq Records
  BY <1>1 DEF Records, NoNewRecord
<1>3. ASSUME NEW k \in Records \ Records'
      PROVE  \E i \in Slot : k = dat[target][i] /\ HdrValid(target) /\ k > 0 /\ k \in Int
  BY <1>1 DEF Records, HdrValid
<1>4. ASSUME NEW k \in Records \ Records' PROVE k <= appended - Window
  <2>1. PICK i \in Slot : k = dat[target][i] /\ HdrValid(target) /\ k > 0 /\ k \in Int
    BY <1>3, <1>4
  <2>2. job # "format"
    BY <1>0, <2>1 DEF IInv, RingInv, Chain, NoHeader
  <2>3. Running /\ target = Succ(cur) /\ slot = Slots
    BY <2>2, Preparing
  <2>4. Fits(cur, slot, Done) /\ Done \in Int /\ Done <= appended
    BY <1>0, <2>3 DEF IInv, RingInv, Spaced, Done
  <2>5. k + Dist(target, cur) * Slots + slot - 1 - i <= Done
    BY <1>0, <2>1, <2>4 DEF Fits
  <2>6. Dist(target, cur) = Sectors - 1
    BY <1>0, <2>3, Farthest
  <2>7. k + (Sectors - 1) * Slots + Slots - 1 - i <= Done
    BY <2>3, <2>5, <2>6
  <2>8. Sectors - 1 \in Int /\ (Sectors - 1) * Slots \in Int
    BY SectorsAssumption, SlotsProduct
  <2>9. i \in Int /\ i <= Slots - 1 /\ Slots \in Int
    BY SlotsAssumption DEF Slot
  <2>10. Window = (Sectors - 1) * Slots
    BY DEF Window
  <2> DEFINE w == (Sectors - 1) * Slots
  <2>11. w \in Int /\ k + w + Slots - 1 - i <= Done /\ Window = w
    BY <2>7, <2>8, <2>10
  <2> HIDE DEF w
  <2> QED
    BY <1>0, <2>1, <2>4, <2>9, <2>11
<1>5. Cardinality(Records \ Records') <= Slots
  <2>1. dat[target] \in [Slot -> Int]
    BY <1>0 DEF TypeOK
  <2>2. \A v \in Records \ Records' : \E i \in Slot : v = dat[target][i]
    BY <1>3
  <2> QED
    BY <2>1, <2>2, AtMostSlots
<1> QED
  BY <1>2, <1>4, <1>5

\* The steps of HistLog, of the records as RingInv knows them.
LogStep ==
  \/ UNCHANGED <<Records, appended, acked>>
  \/ appended' = appended + 1 /\ UNCHANGED <<Records, acked>>
  \/ appended > 0 /\ Records' = Records \cup {appended} /\ UNCHANGED <<appended, acked>>
  \/ /\ appended > 0 /\ Records' = Records \cup {appended}
     /\ acked' = acked \cup {appended} /\ appended' = appended
  \/ /\ Records' \subseteq Records
     /\ \A k \in Records \ Records' : k <= appended - Window
     /\ Cardinality(Records \ Records') <= Slots
     /\ UNCHANGED <<appended, acked>>

\* Power fails in a write: at most the record under way is added, or the sector
\* being recycled loses some.
LEMMA CutLog ==
  ASSUME IInv, Environment, PowerCutInWrite
  PROVE  LogStep
<1>0. UNCHANGED <<appended, acked>>
  BY DEF PowerCutInWrite, Damage
<1>1. CASE pc = "erase" /\ ErasePartly(target)
  BY <1>0, <1>1, RecordsRecycled DEF LogStep
<1>2. CASE pc = "header" /\ dat' = dat /\
           \E h \in CutShort(hdr[target], NewSeq) : hdr' = [hdr EXCEPT ![target] = h]
  <2>1. \A s \in Sec : s # target => hdr'[s] = hdr[s]
    BY <1>2 DEF IInv, WriteInv, TypeOK
  <2> QED
    BY <1>0, <1>2, <2>1, HeaderStays DEF LogStep
<1>3. CASE pc = "payload" /\ hdr' = hdr /\
           \E v \in CutShort(dat[cur][slot], appended) : WritePayload(v)
  <2>1. PICK v \in CutShort(dat[cur][slot], appended) : WritePayload(v)
    BY <1>3
  <2>2. CASE v = appended
    BY <1>0, <1>3, <2>1, <2>2, RecordAdded, PayloadValue DEF LogStep
  <2>3. CASE v # appended
    <3>1. v \in {Virgin, Torn} /\ dat[cur][slot] = Virgin /\ cur \in Sec /\ slot \in Slot
      BY <1>3, <2>1, <2>3, PayloadValue DEF CutShort
    <3>2. /\ \A s \in Sec, i \in Slot : s # cur \/ i # slot => dat'[s][i] = dat[s][i]
          /\ dat'[cur][slot] = v
      BY <1>3, <2>1, RecordLocal, PayloadValue
    <3>3. \A s \in Sec, i \in Slot :
            (dat'[s][i] > 0 <=> dat[s][i] > 0) /\ (dat[s][i] > 0 => dat'[s][i] = dat[s][i])
      <4> SUFFICES ASSUME NEW s \in Sec, NEW i \in Slot
                   PROVE  (dat'[s][i] > 0 <=> dat[s][i] > 0)
                          /\ (dat[s][i] > 0 => dat'[s][i] = dat[s][i])
        OBVIOUS
      <4>1. CASE s = cur /\ i = slot
        BY <3>1, <3>2, <4>1 DEF Virgin, Torn
      <4>2. CASE ~ (s = cur /\ i = slot)
        BY <3>2, <4>2
      <4> QED
        BY <4>1, <4>2
    <3>4. Records' = Records
      BY <1>3, <3>3, RecordsSame DEF RecordsStay, NoNewRecord, HdrValid
    <3> QED
      BY <1>0, <3>4 DEF LogStep
  <2> QED
    BY <2>2, <2>3
<1>4. CASE hdr' = hdr /\ dat' = dat
  BY <1>0, <1>4, HeaderStays DEF LogStep
<1> QED
  BY <1>1, <1>2, <1>3, <1>4 DEF PowerCutInWrite

\* Every step of the store is a step of HistLog, or leaves its log alone.
LEMMA StepIsLogStep ==
  ASSUME IInv, Environment, [Next]_vars
  PROVE  LogStep
<1>0. TypeOK /\ JobMatches
  BY DEF IInv, WriteInv
<1>1. CASE EraseOk \/ EraseFail
  <2>1. pc = "erase" /\ (EraseAll(target) \/ ErasePartly(target)) /\ UNCHANGED <<appended, acked>>
    BY <1>1 DEF EraseOk, EraseFail, Damage, hist
  <2> QED
    BY <2>1, RecordsRecycled DEF LogStep
<1>2. CASE HeaderFail \/ FormatDone \/ ServiceDone \/ AdvanceDone
  <2>1. /\ pc = "header" /\ dat' = dat /\ UNCHANGED <<appended, acked>>
    BY <1>2 DEF HeaderFail, FormatDone, ServiceDone, AdvanceDone, Damage, hist
  <2>2. \A s \in Sec : s # target => hdr'[s] = hdr[s]
    BY <1>0, <1>2 DEF TypeOK, HeaderFail, FormatDone, ServiceDone, AdvanceDone, WriteHeader
  <2> QED
    BY <2>1, <2>2, HeaderStays DEF LogStep
<1>3. ASSUME NEW d \in BOOLEAN, BeginAppend(d) PROVE LogStep
  <2>1. hdr' = hdr /\ dat' = dat /\ appended' = appended + 1 /\ acked' = acked
    BY <1>3 DEF BeginAppend, flash
  <2> QED
    BY <2>1, HeaderStays DEF LogStep
<1>4. CASE pc = "payload" /\ PayloadOk
  <2>1. hdr' = hdr /\ WritePayload(appended) /\ appended > 0
    BY <1>4, PayloadValue DEF PayloadOk
  <2>2. Records' = Records \cup {appended}
    BY <1>4, <2>1, RecordAdded
  <2>3. appended' = appended /\ (acked' = acked \/ acked' = acked \cup {appended})
    BY <1>4 DEF PayloadOk, Appended, hist
  <2> QED
    BY <2>1, <2>2, <2>3 DEF LogStep
<1>5. CASE pc = "tag" /\ TagOk
  <2>1. /\ hdr' = hdr /\ dat' = dat /\ appended' = appended /\ acked' = acked \cup {appended}
    BY <1>5 DEF TagOk, Appended
  <2>2. Records' = Records
    BY <2>1, HeaderStays
  <2>3. /\ Running /\ cur \in Sec /\ slot \in Slot /\ appended > 0 /\ appended \in Int
    <3>1. job = "append" /\ slot < Slots /\ appended > 0 /\ Running
      BY <1>0, <1>5 DEF JobMatches, Running
    <3>2. cur \in Sec /\ slot \in 0 .. Slots /\ appended \in Nat
      BY <1>0 DEF TypeOK
    <3> QED
      BY <3>1, <3>2, SlotsAssumption DEF Slot
  <2>4. HdrValid(cur) /\ dat[cur][slot] = appended
    BY <1>5, <2>3 DEF IInv, RingInv, Chain, Serials
  <2>5. appended \in Records
    BY <2>3, <2>4 DEF Records
  <2>6. Records' = Records \cup {appended}
    BY <2>2, <2>5
  <2> QED
    BY <2>1, <2>3, <2>6 DEF LogStep
<1>6. CASE PowerCutInWrite
  BY <1>6, CutLog
<1>7. CASE \/ BeginFresh \/ Begin \/ ServiceErase \/ Patch \/ PatchSlot \/ PatchDone
           \/ PowerCut \/ UNCHANGED vars
  <2>1. hdr' = hdr /\ dat' = dat /\ UNCHANGED <<appended, acked>>
    BY <1>7 DEF BeginFresh, Begin, ServiceErase, Patch, PatchSlot, PatchDone, PowerCut, Damage,
                vars, flash, hist
  <2> QED
    BY <2>1, HeaderStays DEF LogStep
<1>8. ~ PayloadFail /\ ~ TagFail
  BY DEF PayloadFail, TagFail, Environment
<1> QED
  BY <1>1, <1>2, <1>3, <1>4, <1>5, <1>6, <1>7, <1>8 DEF Next, Payload, Tag

\* The store implements the bounded log: what a power-on would find is extended
\* at the young end only, and shortened only by what lies outside the window, at
\* most one sector at a time; a record acknowledged is in it from then on.
THEOREM StoreIsLog == Environment => (Spec => ImplementsLog)
<1> SUFFICES ASSUME Environment PROVE Spec => ImplementsLog
  OBVIOUS
<1>1. IInv => Log = Records
  BY LogIsRecords DEF IInv, WriteInv, RingInv
<1>2. Init => Abstract!Init
  <2> SUFFICES ASSUME Init PROVE Abstract!Init
    OBVIOUS
  <2>1. \A s \in Sec : ~ HdrValid(s)
    BY DEF Init, HdrValid, Virgin, Torn
  <2>2. Log = {}
    BY <2>1 DEF Log, IsNewest
  <2> QED
    BY <2>2 DEF Init, Abstract!Init
<1>3. IInv /\ [Next]_vars /\ Log = Records /\ (Log = Records)'
        => [Abstract!Next]_(Abstract!vars)
  <2> SUFFICES ASSUME IInv, [Next]_vars, Log = Records, (Log = Records)'
               PROVE  [Abstract!Next]_(Abstract!vars)
    OBVIOUS
  <2>1. LogStep
    BY StepIsLogStep
  <2>2. \A S : Abstract!Cardinality(S) = Cardinality(S)
    BY DEF Abstract!Cardinality, Cardinality
  <2> QED
    BY <2>1, <2>2 DEF LogStep, Abstract!Next, Abstract!vars, Abstract!Call, Abstract!Store,
                Abstract!Ack, Abstract!Recycle
<1> QED
  BY <1>1, <1>2, <1>3, InductiveInvariant, PTL DEF Spec, ImplementsLog, Abstract!Spec

-----------------------------------------------------------------------------
(* The rows of a sector.                                                   *)

\* The elements of q ascend.
Rising(q) == \A i, j \in DOMAIN q : i < j => q[i] < q[j]

\* The elements of a sequence.
LEMMA InToSet == ASSUME NEW q, NEW v PROVE v \in ToSet(q) <=> \E i \in DOMAIN q : q[i] = v
BY Zenon DEF ToSet

\* q is the positive ones among the first n cells, in their order.
Sifted(q, cells, n) ==
  /\ q \in Seq(Int)
  /\ ToSet(q) = {v \in Int : v > 0 /\ \E i \in 1 .. n : cells[i] = v}
  /\ (\A i, j \in 1 .. n : i < j /\ cells[i] > 0 /\ cells[j] > 0 => cells[i] < cells[j]) => Rising(q)

\* Sifting the next cell.
LEMMA SiftNext ==
  ASSUME NEW cells \in Seq(Int), NEW n \in 1 .. Len(cells), NEW q, Sifted(q, cells, n - 1)
  PROVE  Sifted(IF cells[n] > 0 THEN Append(q, cells[n]) ELSE q, cells, n)
<1>0. q \in Seq(Int) /\ cells[n] \in Int /\ n \in Nat /\ \A i \in 1 .. n : i = n \/ i \in 1 .. n - 1
  BY DEF Sifted
<1>s. ToSet(q) = {v \in Int : v > 0 /\ \E i \in 1 .. n - 1 : cells[i] = v}
  BY DEF Sifted
<1>1. CASE ~ (cells[n] > 0)
  <2>1. {v \in Int : v > 0 /\ \E i \in 1 .. n : cells[i] = v} = ToSet(q)
    BY <1>0, <1>1, <1>s
  <2>2. (\A i, j \in 1 .. n : i < j /\ cells[i] > 0 /\ cells[j] > 0 => cells[i] < cells[j]) => Rising(q)
    BY <1>0 DEF Sifted
  <2> QED
    BY <1>0, <1>1, <2>1, <2>2 DEF Sifted
<1>2. CASE cells[n] > 0
  <2> DEFINE r == Append(q, cells[n])
  <2>1. /\ r \in Seq(Int) /\ Len(q) \in Nat /\ DOMAIN q = 1 .. Len(q) /\ DOMAIN r = 1 .. Len(q) + 1
        /\ \A i \in 1 .. Len(q) : r[i] = q[i]
        /\ r[Len(q) + 1] = cells[n]
        /\ \A i \in 1 .. Len(q) + 1 : i \in 1 .. Len(q) \/ i = Len(q) + 1
    BY <1>0
  <2> HIDE DEF r
  <2>2. ToSet(r) = ToSet(q) \cup {cells[n]}
    <3>1. ASSUME NEW v \in ToSet(q) PROVE v \in ToSet(r)
      <4>1. PICK i \in 1 .. Len(q) : q[i] = v
        BY <2>1, InToSet
      <4>2. i \in DOMAIN r /\ r[i] = v
        BY <2>1, <4>1
      <4> QED
        BY <4>2, InToSet
    <3>2. cells[n] \in ToSet(r)
      <4>1. Len(q) + 1 \in DOMAIN r
        BY <2>1
      <4> QED
        BY <2>1, <4>1, InToSet
    <3>3. ASSUME NEW v \in ToSet(r), v # cells[n] PROVE v \in ToSet(q)
      <4>1. PICK i \in DOMAIN r : r[i] = v
        BY <3>3, InToSet
      <4>2. i \in DOMAIN q /\ q[i] = v
        BY <2>1, <3>3, <4>1
      <4> QED
        BY <4>2, InToSet
    <3> QED
      BY <3>1, <3>2, <3>3
  <2>3. {v \in Int : v > 0 /\ \E i \in 1 .. n : cells[i] = v} = ToSet(q) \cup {cells[n]}
    BY <1>0, <1>2, <1>s
  <2>4. ASSUME \A i, j \in 1 .. n : i < j /\ cells[i] > 0 /\ cells[j] > 0 => cells[i] < cells[j]
        PROVE  Rising(r)
    <3>1. Rising(q)
      BY <1>0, <2>4 DEF Sifted
    <3>2. ASSUME NEW v \in ToSet(q) PROVE v < cells[n]
      <4>1. PICK i \in 1 .. n - 1 : cells[i] = v /\ v > 0
        BY <1>s
      <4>2. i < n /\ i \in 1 .. n /\ n \in 1 .. n
        BY <1>0
      <4> QED
        BY <1>2, <2>4, <4>1, <4>2
    <3>3. \A i \in 1 .. Len(q) : q[i] \in ToSet(q)
      BY <2>1 DEF ToSet
    <3>4. ASSUME NEW i \in DOMAIN r, NEW j \in DOMAIN r, i < j PROVE r[i] < r[j]
      <4>1. i \in 1 .. Len(q)
        BY <2>1, <3>4
      <4>2. CASE j \in 1 .. Len(q)
        BY <2>1, <3>1, <3>4, <4>1, <4>2 DEF Rising
      <4>3. CASE j = Len(q) + 1
        BY <2>1, <3>2, <3>3, <4>1, <4>3
      <4> QED
        BY <2>1, <4>2, <4>3
    <3> QED
      BY <3>4 DEF Rising
  <2>5. Sifted(r, cells, n)
    BY <2>1, <2>2, <2>3, <2>4 DEF Sifted
  <2> QED
    BY <1>2, <2>5 DEF r
<1> QED
  BY <1>1, <1>2

\* Intact sifts all the cells.
LEMMA IntactSifts ==
  ASSUME NEW cells \in Seq(Int)
  PROVE  Sifted(Intact(cells), cells, Len(cells))
<1> DEFINE n == Len(cells)
           st == [p \in Seq(Int) \X Int |-> IF p[2] > 0 THEN Append(p[1], p[2]) ELSE p[1]]
           Step(f) == [t \in SUBSET DOMAIN cells |->
                         IF t = {} THEN <<>>
                         ELSE IF cells[Max(t)] > 0
                              THEN Append(f[t \ {Max(t)}], cells[Max(t)])
                              ELSE f[t \ {Max(t)}]]
           it == CHOOSE f : f = Step(f)
<1>0. n \in Nat /\ DOMAIN cells = 1 .. n
  OBVIOUS
<1>1. Intact(cells) = it[DOMAIN cells]
  BY Zenon DEF Intact, FoldLeft, MapThenFoldSet
<1>2. it = Step(it)
  <2>1. st \in [Seq(Int) \X Int -> Seq(Int)] /\ <<>> \in Seq(Int)
    OBVIOUS
  <2>2. PICK f \in [SUBSET DOMAIN cells -> Seq(Int)] : Folds(f, st, <<>>, cells, n)
    BY <2>1, FoldExists
  <2>3. ASSUME NEW t \in SUBSET DOMAIN cells PROVE f[t] = Step(f)[t]
    <3>1. CASE t = {}
      BY <1>0, <2>2, <3>1 DEF Folds
    <3>2. CASE t # {}
      <4>1. Max(t) \in DOMAIN cells /\ t \ {Max(t)} \in SUBSET DOMAIN cells
        BY <1>0, <3>2, HasMax
      <4>2. cells[Max(t)] \in Int /\ f[t \ {Max(t)}] \in Seq(Int)
        BY <2>2, <4>1
      <4>3. f[t] = st[<<f[t \ {Max(t)}], cells[Max(t)]>>]
        BY <1>0, <2>2, <3>2 DEF Folds
      <4> QED
        BY <3>2, <4>2, <4>3
    <3> QED
      BY <3>1, <3>2
  <2>4. f = Step(f)
    BY <2>2, <2>3
  <2> QED
    BY <2>4
<1> DEFINE P == {i \in 0 .. n : Sifted(it[1 .. i], cells, i)}
<1>3. 0 \in P
  <2>1. 1 .. 0 = {} /\ {} \in SUBSET DOMAIN cells
    OBVIOUS
  <2> HIDE DEF it
  <2>2. it[1 .. 0] = <<>>
    BY <1>2, <2>1
  <2>3. Sifted(<<>>, cells, 0)
    BY DEF Sifted, ToSet, Rising
  <2> QED
    BY <1>0, <2>2, <2>3
<1>4. ASSUME NEW i \in 1 .. n, i - 1 \in P PROVE i \in P
  <2> DEFINE t == 1 .. i
  <2>1. t \in SUBSET DOMAIN cells /\ t # {} /\ Max(t) = i /\ t \ {i} = 1 .. (i - 1)
    BY <1>0, Prefix
  <2> HIDE DEF it, t
  <2>2. it[t] = IF cells[i] > 0 THEN Append(it[1 .. (i - 1)], cells[i]) ELSE it[1 .. (i - 1)]
    BY <1>2, <2>1
  <2>3. Sifted(it[1 .. (i - 1)], cells, i - 1)
    BY <1>4
  <2>4. Sifted(it[t], cells, i)
    BY <1>0, <2>2, <2>3, SiftNext
  <2> QED
    BY <1>0, <2>4 DEF t
<1> HIDE DEF P
<1>5. n \in P
  <2> HIDE DEF n
  <2>1. 0 .. n \subseteq P
    BY <1>0, <1>3, <1>4, UpTo
  <2> QED
    BY <1>0, <2>1
<1> HIDE DEF it
<1> QED
  BY <1>0, <1>1, <1>5 DEF P

\* Two ascending sequences, the one below the other.
LEMMA ConcatRises ==
  ASSUME NEW p \in Seq(Int), NEW q \in Seq(Int), Rising(p), Rising(q),
         \A u \in ToSet(p), v \in ToSet(q) : u < v
  PROVE  p \o q \in Seq(Int) /\ Rising(p \o q) /\ ToSet(p \o q) = ToSet(p) \cup ToSet(q)
<1> DEFINE r == p \o q
<1>1. /\ r \in Seq(Int) /\ Len(p) \in Nat /\ Len(q) \in Nat
      /\ DOMAIN p = 1 .. Len(p) /\ DOMAIN q = 1 .. Len(q) /\ DOMAIN r = 1 .. Len(p) + Len(q)
      /\ \A i \in 1 .. Len(p) : r[i] = p[i]
      /\ \A i \in 1 .. Len(q) : r[Len(p) + i] = q[i]
  OBVIOUS
<1> HIDE DEF r
<1>2. \A i \in DOMAIN r : i \in 1 .. Len(p) \/ (i - Len(p) \in 1 .. Len(q) /\ r[i] = q[i - Len(p)])
  <2> SUFFICES ASSUME NEW i \in DOMAIN r, i \notin 1 .. Len(p)
               PROVE  i - Len(p) \in 1 .. Len(q) /\ r[i] = q[i - Len(p)]
    OBVIOUS
  <2>1. i - Len(p) \in 1 .. Len(q) /\ Len(p) + (i - Len(p)) = i
    BY <1>1
  <2> QED
    BY <1>1, <2>1
<1>3. /\ \A i \in 1 .. Len(p) : p[i] \in ToSet(p) /\ p[i] \in Int
      /\ \A i \in 1 .. Len(q) : q[i] \in ToSet(q) /\ q[i] \in Int
  <2>1. ASSUME NEW i \in DOMAIN p PROVE p[i] \in ToSet(p) /\ p[i] \in Int
    <3>1. p[i] \in ToSet(p)
      BY InToSet
    <3> QED
      BY <3>1
  <2>2. ASSUME NEW i \in DOMAIN q PROVE q[i] \in ToSet(q) /\ q[i] \in Int
    <3>1. q[i] \in ToSet(q)
      BY InToSet
    <3> QED
      BY <3>1
  <2> QED
    BY <1>1, <2>1, <2>2
<1>4. ASSUME NEW i \in DOMAIN r, NEW j \in DOMAIN r, i < j PROVE r[i] < r[j]
  <2>1. CASE j \in 1 .. Len(p)
    <3>1. i \in 1 .. Len(p)
      BY <1>1, <1>4, <2>1
    <3> QED
      BY <1>1, <1>4, <2>1, <3>1 DEF Rising
  <2>2. CASE i \in 1 .. Len(p) /\ j \notin 1 .. Len(p)
    BY <1>1, <1>2, <1>3, <2>2
  <2>3. CASE i \notin 1 .. Len(p) /\ j \notin 1 .. Len(p)
    <3>1. i - Len(p) \in 1 .. Len(q) /\ j - Len(p) \in 1 .. Len(q) /\ i - Len(p) < j - Len(p)
      BY <1>1, <1>2, <1>4, <2>3
    <3> QED
      BY <1>1, <1>2, <2>3, <3>1 DEF Rising
  <2> QED
    BY <2>1, <2>2, <2>3
<1>5. ToSet(r) = ToSet(p) \cup ToSet(q)
  <2>1. \A i \in DOMAIN r : r[i] \in ToSet(p) \cup ToSet(q)
    BY <1>1, <1>2, <1>3
  <2>2. \A i \in 1 .. Len(p) : i \in DOMAIN r
    BY <1>1
  <2>3. \A i \in 1 .. Len(q) : Len(p) + i \in DOMAIN r
    BY <1>1
  <2> QED
    <3>1. ASSUME NEW v \in ToSet(p) PROVE v \in ToSet(r)
      <4>1. PICK i \in DOMAIN p : p[i] = v
        BY <3>1, InToSet
      <4>2. i \in DOMAIN r /\ r[i] = v
        BY <1>1, <2>2, <4>1
      <4> QED
        BY <4>2, InToSet
    <3>2. ASSUME NEW v \in ToSet(q) PROVE v \in ToSet(r)
      <4>1. PICK i \in DOMAIN q : q[i] = v
        BY <3>2, InToSet
      <4>2. Len(p) + i \in DOMAIN r /\ r[Len(p) + i] = v
        BY <1>1, <2>3, <4>1
      <4> QED
        BY <4>2, InToSet
    <3>3. ASSUME NEW v \in ToSet(r) PROVE v \in ToSet(p) \cup ToSet(q)
      BY <2>1, InToSet
    <3> QED
      BY <3>1, <3>2, <3>3
<1> QED
  BY <1>1, <1>4, <1>5 DEF Rising, r

\* The place of the k-th sector of a walk round the ring.
LEMMA WalkPlace ==
  ASSUME NEW a \in Sec, NEW k \in 0 .. Sectors - 1
  PROVE  (a + k) % Sectors \in Sec /\ Dist(a, (a + k) % Sectors) = k
<1>1. \A y \in Nat : y < Sectors => y % Sectors = y /\ (y + Sectors) % Sectors = y
  BY SectorsAssumption
<1>2. CASE a + k < Sectors
  <2>1. (a + k) % Sectors = a + k
    BY <1>1, <1>2 DEF Sec
  <2> QED
    BY <1>2, <2>1, SectorsAssumption DEF Sec, Dist
<1>3. CASE ~ (a + k < Sectors)
  <2> DEFINE y == a + k - Sectors
  <2>1. y \in Nat /\ y < Sectors /\ a + k = y + Sectors
    BY <1>3, SectorsAssumption DEF Sec
  <2>2. (a + k) % Sectors = y
    BY <1>1, <2>1
  <2> QED
    BY <2>1, <2>2, SectorsAssumption DEF Sec, Dist
<1> QED
  BY <1>2, <1>3

\* What Copy finds in a valid sector.
LEMMA CopiedIs ==
  ASSUME TypeOK, LogOrder, NEW s \in Sec, HdrValid(s)
  PROVE  /\ Intact(Cells(s)) \in Seq(Int) /\ Rising(Intact(Cells(s)))
         /\ \A v \in ToSet(Intact(Cells(s))) : v > 0 /\ \E i \in Slot : dat[s][i] = v
         /\ \A i \in Slot : dat[s][i] > 0 /\ (s = cur => i < slot) =>
              dat[s][i] \in ToSet(Intact(Cells(s)))
<1> DEFINE n == IF s = cur THEN slot ELSE Slots
           cells == [i \in 1 .. n |-> dat[s][i - 1]]
<1>1. n \in 0 .. Slots /\ Slots \in Nat /\ dat[s] \in [Slot -> Int]
  BY SlotsAssumption DEF TypeOK
<1> HIDE DEF n
<1>2. \A i \in 1 .. n : i - 1 \in Slot
  BY <1>1 DEF Slot
<1>3. cells \in Seq(Int) /\ Len(cells) = n /\ \A i \in 1 .. n : cells[i] = dat[s][i - 1]
  <2>1. \A i \in 1 .. n : dat[s][i - 1] \in Int
    BY <1>1, <1>2
  <2> QED
    BY <1>1, <2>1
<1>4. Cells(s) = cells
  BY DEF Cells, n
<1> HIDE DEF cells
<1> DEFINE q == Intact(cells)
<1>5. Sifted(q, cells, n)
  BY <1>3, IntactSifts
<1> HIDE DEF q
<1>6. ASSUME NEW i \in 1 .. n, NEW j \in 1 .. n, i < j, cells[i] > 0, cells[j] > 0
      PROVE  cells[i] < cells[j]
  <2>1. i - 1 \in Slot /\ j - 1 \in Slot /\ i - 1 < j - 1
    BY <1>1, <1>2, <1>6
  <2>2. cells[i] = dat[s][i - 1] /\ cells[j] = dat[s][j - 1]
    BY <1>3
  <2> QED
    BY <1>6, <2>1, <2>2 DEF LogOrder
<1>7. q \in Seq(Int) /\ Rising(q)
  BY <1>5, <1>6 DEF Sifted
<1>8. ToSet(q) = {v \in Int : v > 0 /\ \E i \in 1 .. n : cells[i] = v}
  BY <1>5 DEF Sifted
<1>9. ASSUME NEW v \in ToSet(q) PROVE v > 0 /\ \E i \in Slot : dat[s][i] = v
  <2>1. PICK i \in 1 .. n : cells[i] = v /\ v > 0
    BY <1>8
  <2>2. i - 1 \in Slot /\ dat[s][i - 1] = v
    BY <1>2, <1>3, <2>1
  <2> QED
    BY <2>1, <2>2
<1>10. ASSUME NEW i \in Slot, dat[s][i] > 0, s = cur => i < slot PROVE dat[s][i] \in ToSet(q)
  <2>1. i < n
    BY <1>1, <1>10 DEF n, Slot
  <2>2. i + 1 \in 1 .. n /\ (i + 1) - 1 = i
    BY <1>1, <2>1 DEF Slot
  <2>3. cells[i + 1] = dat[s][i]
    BY <1>3, <2>2
  <2>4. dat[s][i] \in Int
    BY <1>1
  <2> QED
    BY <1>8, <1>10, <2>2, <2>3, <2>4
<1> QED
  BY <1>4, <1>7, <1>9, <1>10 DEF q

-----------------------------------------------------------------------------
(* The export beside the running store.                                    *)

\* The request lives and still takes from the store.
Exporting == xpc \in {"copy", "send", "done"}

\* How far sector s is from the first one the export visits.
FromFirst(s) == Dist(xOldest, s)

\* Sector s still is what it was when the snapshot was taken, or part of it.
Exported(s) == HdrValid(s) /\ hdr[s] <= xMax

\* The first sector whose records are in neither rows nor buf.
Coming == IF xpc = "send" THEN xk + 1 ELSE xk

Delivered == ToSet(rows) \cup ToSet(buf)

ExportTypes ==
  /\ xpc \in {"none", "copy", "send", "done", "gone"}
  /\ xOldest \in Sec /\ xCount \in 0 .. Sectors /\ xMax \in Nat /\ xk \in 0 .. xCount
  /\ buf \in Seq(Int) /\ rows \in Seq(Int) /\ before \in SUBSET Int
  /\ xpc \in {"none", "copy", "done"} => buf = <<>>
  /\ xpc = "none" => rows = <<>> /\ xk = 0
  /\ xpc = "send" => xk < xCount
  /\ xpc = "done" => xk = xCount

\* The sectors of the snapshot keep their sequence numbers, so they stand in
\* the order in which the export visits them.
SnapshotInv ==
  Exporting =>
    /\ Running /\ xMax <= seq
    /\ \A s \in Sec : Exported(s) =>
         FromFirst(s) < xCount /\ hdr[s] = xMax - xCount + 1 + FromFirst(s)

\* What is delivered ascends, and all that is still to be copied lies above it.
OrderInv ==
  /\ Rising(rows) /\ Rising(buf)
  /\ \A u \in ToSet(rows), v \in ToSet(buf) : u < v
  /\ Exporting =>
       /\ \A v \in Delivered : v <= Done
       /\ \A s \in Sec, i \in Slot :
            Exported(s) /\ dat[s][i] > 0 /\ FromFirst(s) >= Coming =>
              \A v \in Delivered : v < dat[s][i]

\* A record that was there and still is has been delivered or will be copied.
StillThere ==
  Environment /\ Exporting =>
    /\ \A v \in before : v > 0 /\ v <= Done
    /\ \A s \in Sec, i \in Slot :
         HdrValid(s) /\ dat[s][i] \in before =>
           hdr[s] <= xMax /\ (dat[s][i] \in Delivered \/ FromFirst(s) >= Coming)

ExportInv == ExportTypes /\ SnapshotInv /\ OrderInv /\ StillThere

\* What a step of the running store may do to the flash.
StoreMoves ==
  /\ Running' /\ seq <= seq' /\ Done <= Done'
  /\ \A s \in Sec : HdrValid(s)' => hdr'[s] = hdr[s] \/ (~ HdrValid(s) /\ hdr'[s] > seq)
  /\ \A s \in Sec, i \in Slot : HdrValid(s)' /\ dat'[s][i] > 0 =>
       (HdrValid(s) /\ hdr'[s] = hdr[s] /\ dat'[s][i] = dat[s][i]) \/ dat'[s][i] > Done

\* A step of the running store leaves records alone, discards some, or adds a
\* later one; a sector that gets a header gets a later number.
LEMMA RunningStep ==
  ASSUME IInv, Running, Next, pc' # "off"
  PROVE  StoreMoves
<1>0. /\ TypeOK /\ JobMatches /\ appended \in Nat /\ seq \in Nat /\ target \in Sec
      /\ pc \notin {"off", "disabled"} /\ job # "format"
  BY DEF IInv, WriteInv, TypeOK, Running
<1>d. Done \in Int /\ Done <= appended /\ (job = "append" => Done < appended)
      /\ (job # "append" => Done = appended)
  BY <1>0 DEF Done
<1>r. \A j \in {job, "none", "append"} : j # "format"
  BY <1>0
<1>1. CASE EraseOk \/ EraseFail
  <2>1. /\ pc = "erase" /\ (EraseAll(target) \/ ErasePartly(target)) /\ UNCHANGED meta
        /\ appended' = appended /\ (job' = job \/ job' = "none") /\ pc' \in {"header", "idle"}
    BY <1>0, <1>1 DEF EraseOk, EraseFail, GiveUp, Return, Damage, hist, args
  <2>2. NoNewRecord
    BY <1>0, <2>1, EraseRecords
  <2>3. \A s \in Sec : HdrValid(s)' => hdr'[s] = hdr[s]
    BY <1>0, <2>1 DEF TypeOK, EraseAll, ErasePartly, HdrValid, Virgin, Torn
  <2>4. Running' /\ seq' = seq /\ Done <= Done'
    BY <1>0, <1>d, <2>1 DEF Running, meta, Done
  <2> QED
    BY <1>0, <2>2, <2>3, <2>4 DEF StoreMoves, NoNewRecord
<1>2. CASE HeaderFail \/ ServiceDone \/ AdvanceDone
  <2>1. /\ pc = "header" /\ dat' = dat /\ appended' = appended
        /\ (job' = job \/ job' = "none") /\ pc' \in {"payload", "idle"}
    BY <1>0, <1>2 DEF HeaderFail, ServiceDone, AdvanceDone, GiveUp, Return, Damage, hist, args
  <2>2. \A s \in Sec : s # target => hdr'[s] = hdr[s]
    BY <1>0, <1>2 DEF TypeOK, HeaderFail, ServiceDone, AdvanceDone, WriteHeader
  <2>3. NoNewRecord
    BY <2>1, <2>2, HeaderRecords
  <2>4. hdr[target] = Virgin
    BY <2>1 DEF IInv, WriteInv, Erased
  <2>5. hdr'[target] > 0 => hdr'[target] > seq
    <3>1. CASE HeaderFail
      BY <1>0, <2>4, <3>1 DEF TypeOK, HeaderFail, Failed, Virgin, Torn
    <3>2. CASE ServiceDone \/ AdvanceDone
      <4>1. Programmed(hdr[target], NewSeq) = seq + 1
        BY <1>0, <2>1, HeaderValue
      <4>2. hdr'[target] = seq + 1
        BY <1>0, <3>2, <4>1 DEF TypeOK, ServiceDone, AdvanceDone, WriteHeader
      <4> QED
        BY <1>0, <4>2
    <3> QED
      BY <1>2, <3>1, <3>2
  <2>6. seq <= seq'
    BY <1>0, <1>2 DEF HeaderFail, ServiceDone, AdvanceDone, Advance, meta
  <2>7. Running' /\ Done <= Done'
    BY <1>0, <1>d, <2>1 DEF Running, Done
  <2>8. \A s \in Sec : HdrValid(s)' => hdr'[s] = hdr[s] \/ (~ HdrValid(s) /\ hdr'[s] > seq)
    <3> SUFFICES ASSUME NEW s \in Sec, HdrValid(s)', hdr'[s] # hdr[s]
                 PROVE  ~ HdrValid(s) /\ hdr'[s] > seq
      OBVIOUS
    <3>1. s = target
      BY <2>2
    <3> QED
      BY <2>4, <2>5, <3>1 DEF HdrValid, Virgin
  <2> QED
    BY <2>3, <2>6, <2>7, <2>8 DEF StoreMoves, NoNewRecord
<1>3. ASSUME NEW d \in BOOLEAN, BeginAppend(d) PROVE StoreMoves
  <2>1. /\ hdr' = hdr /\ dat' = dat /\ appended' = appended + 1 /\ pc = "idle"
        /\ job' = "append" /\ pc' \in {"payload", "erase"}
    BY <1>3 DEF BeginAppend, Prepare, flash
  <2>2. job = "none"
    BY <1>0, <2>1 DEF JobMatches
  <2>3. Running' /\ Done <= Done'
    BY <1>0, <1>d, <2>1, <2>2 DEF Running, Done
  <2>4. seq <= seq'
    BY <1>0, <1>3 DEF BeginAppend, Advance, meta
  <2>5. NoNewRecord
    BY <2>1, SameRecords
  <2> QED
    BY <2>1, <2>3, <2>4, <2>5 DEF StoreMoves, NoNewRecord
<1>4. CASE Payload
  <2>1. /\ pc = "payload" /\ hdr' = hdr /\ appended' = appended /\ seq' = seq
        /\ pc' \in {"tag", "idle"} /\ (job' = job \/ job' = "none")
    BY <1>0, <1>4 DEF Payload, PayloadOk, PayloadFail, Appended, GiveUp, Return, Damage, meta, hist, args
  <2>2. PICK v \in {dat[cur][slot], Torn, Programmed(dat[cur][slot], appended)} : WritePayload(v)
    BY <1>4 DEF Payload, PayloadOk, PayloadFail, Failed
  <2>3. job = "append" /\ cur \in Sec /\ slot \in Slot /\ slot < Slots
    BY <2>1, PayloadValue
  <2>4. /\ \A s \in Sec, i \in Slot : s # cur \/ i # slot => dat'[s][i] = dat[s][i]
        /\ dat'[cur][slot] = v
    BY <2>2, <2>3, RecordLocal
  <2>5. v = dat[cur][slot] \/ v = Torn \/ v = appended
    BY <2>2 DEF Programmed
  <2>6. ASSUME NEW s \in Sec, NEW i \in Slot, dat'[s][i] > 0
        PROVE  dat'[s][i] = dat[s][i] \/ dat'[s][i] > Done
    <3>1. CASE s = cur /\ i = slot /\ v # dat[cur][slot]
      <4>1. v = appended
        BY <2>4, <2>5, <2>6, <3>1 DEF Torn
      <4> QED
        BY <1>d, <2>3, <2>4, <3>1, <4>1
    <3> QED
      BY <2>4, <3>1
  <2>7. Running' /\ Done <= Done'
    BY <1>0, <1>d, <2>1 DEF Running, Done
  <2> QED
    BY <1>0, <2>1, <2>6, <2>7 DEF StoreMoves, HdrValid
<1>5. CASE Tag \/ ServiceErase \/ Patch \/ PatchSlot \/ PatchDone
  <2>1. /\ hdr' = hdr /\ dat' = dat /\ appended' = appended /\ seq' = seq
    BY <1>5 DEF Tag, TagOk, TagFail, ServiceErase, Patch, PatchSlot, PatchDone, Appended, Damage,
                flash, meta, hist
  <2>2. /\ pc' \in {"idle", "erase", "patch"} /\ job' \in {job, "none", "service", "patch"}
        /\ (job' = "append" => job = "append")
    BY <1>0, <1>5 DEF Tag, TagOk, TagFail, ServiceErase, Patch, PatchSlot, PatchDone, Appended,
                GiveUp, Return, Prepare
  <2>3. Running' /\ Done <= Done'
    BY <1>0, <1>d, <2>1, <2>2 DEF Running, Done
  <2>4. NoNewRecord
    BY <2>1, SameRecords
  <2> QED
    BY <1>0, <2>1, <2>3, <2>4 DEF StoreMoves, NoNewRecord
<1>6. ~ BeginFresh /\ ~ Begin /\ ~ FormatDone /\ ~ PowerCut /\ ~ PowerCutInWrite
  BY <1>0 DEF BeginFresh, Begin, FormatDone, PowerCut, PowerCutInWrite, LosePower, Return
<1> QED
  BY <1>1, <1>2, <1>3, <1>4, <1>5, <1>6 DEF Next

\* A step of the store beside a request that is under way.
LEMMA StoreBeside ==
  ASSUME IInv, ExportInv, StoreStep
  PROVE  ExportInv'
<1>1. CASE pc' = "off"
  <2>1. /\ xpc' = "none" /\ xOldest' = 0 /\ xCount' = 0 /\ xMax' = 0 /\ xk' = 0
        /\ buf' = <<>> /\ rows' = <<>> /\ before' = {}
    BY <1>1 DEF StoreStep
  <2>2. ExportTypes'
    BY <2>1, Zero, SectorsAssumption DEF ExportTypes
  <2>3. SnapshotInv' /\ StillThere'
    BY <2>1 DEF SnapshotInv, StillThere, Exporting
  <2>4. OrderInv'
    <3>1. Rising(<<>>) /\ ToSet(<<>>) = {}
      BY DEF Rising, ToSet
    <3> QED
      BY <2>1, <3>1 DEF OrderInv, Exporting
  <2> QED
    BY <2>2, <2>3, <2>4 DEF ExportInv
<1>2. CASE pc' # "off"
  <2>1. /\ UNCHANGED xvars /\ Next
    BY <1>2 DEF StoreStep
  <2>2. /\ xpc' = xpc /\ xOldest' = xOldest /\ xCount' = xCount /\ xMax' = xMax /\ xk' = xk
        /\ buf' = buf /\ rows' = rows /\ before' = before
    BY <2>1 DEF xvars
  <2>3. ExportTypes'
    BY <2>2 DEF ExportInv, ExportTypes
  <2>4. /\ Exporting' = Exporting /\ Delivered' = Delivered /\ Coming' = Coming
        /\ \A s : FromFirst(s)' = FromFirst(s)
    BY <2>2 DEF Exporting, Delivered, Coming, FromFirst, Dist
  <2>5. CASE ~ Exporting
    <3>1. SnapshotInv' /\ StillThere'
      BY <2>4, <2>5 DEF SnapshotInv, StillThere
    <3>2. OrderInv'
      BY <2>2, <2>4, <2>5 DEF ExportInv, OrderInv
    <3> QED
      BY <2>3, <3>1, <3>2 DEF ExportInv
  <2>6. CASE Exporting
    <3>1. Running /\ xMax <= seq
      BY <2>6 DEF ExportInv, SnapshotInv
    <3>2. StoreMoves
      BY <1>2, <2>1, <3>1, RunningStep
    <3>3. /\ xMax \in Nat /\ seq \in Nat /\ seq' \in Int /\ Done \in Int /\ Done' \in Int
          /\ \A s \in Sec : hdr[s] \in Int
          /\ \A v \in Delivered \cup before : v \in Int
      <4>1. seq' \in Int /\ appended' \in Int
        <5>1. TypeOK'
          BY <2>1, TypeStep DEF IInv, WriteInv, TypeInv
        <5> QED
          BY <5>1 DEF TypeOK
      <4>2. /\ seq \in Nat /\ appended \in Nat /\ \A s \in Sec : hdr[s] \in Int
        BY DEF IInv, WriteInv, TypeOK
      <4>3. Done \in Int /\ Done' \in Int
        BY <4>1, <4>2 DEF Done
      <4>4. xMax \in Nat /\ rows \in Seq(Int) /\ buf \in Seq(Int) /\ before \in SUBSET Int
        BY DEF ExportInv, ExportTypes
      <4>5. \A v \in Delivered : v \in Int
        <5>1. \A v \in ToSet(rows) : v \in Int
          BY <4>4, InToSet
        <5>2. \A v \in ToSet(buf) : v \in Int
          BY <4>4, InToSet
        <5> QED
          BY <5>1, <5>2 DEF Delivered
      <4> QED
        BY <4>1, <4>2, <4>3, <4>4, <4>5
    <3>4. ASSUME NEW s \in Sec, Exported(s)' PROVE Exported(s) /\ hdr'[s] = hdr[s]
      <4>1. HdrValid(s)' /\ hdr'[s] <= xMax
        BY <2>2, <3>4 DEF Exported
      <4>2. hdr'[s] = hdr[s]
        <5>1. hdr'[s] = hdr[s] \/ hdr'[s] > seq
          BY <3>2, <4>1 DEF StoreMoves
        <5>2. hdr'[s] \in Int
          BY <2>1, TypeStep DEF IInv, WriteInv, TypeInv, TypeOK
        <5> QED
          BY <3>1, <3>3, <4>1, <5>1, <5>2
      <4> QED
        BY <4>1, <4>2 DEF Exported, HdrValid
    <3>5. SnapshotInv'
      <4>1. Running' /\ xMax <= seq'
        BY <3>1, <3>2, <3>3 DEF StoreMoves
      <4>2. ASSUME NEW s \in Sec, Exported(s)'
            PROVE  FromFirst(s) < xCount /\ hdr'[s] = xMax - xCount + 1 + FromFirst(s)
        BY <2>6, <3>4, <4>2 DEF ExportInv, SnapshotInv
      <4> QED
        BY <2>2, <2>4, <4>1, <4>2 DEF SnapshotInv
    <3>6. OrderInv'
      <4>1. \A v \in Delivered : v <= Done'
        <5>1. \A v \in Delivered : v <= Done
          BY <2>6 DEF ExportInv, OrderInv
        <5> QED
          BY <3>2, <3>3, <5>1 DEF StoreMoves
      <4>2. ASSUME NEW s \in Sec, NEW i \in Slot, Exported(s)', dat'[s][i] > 0, FromFirst(s) >= Coming,
                   NEW v \in Delivered
            PROVE  v < dat'[s][i]
        <5>1. Exported(s) /\ HdrValid(s)'
          BY <3>4, <4>2 DEF Exported
        <5>2. CASE dat'[s][i] = dat[s][i]
          <6>1. dat[s][i] > 0
            BY <4>2, <5>2
          <6> QED
            BY <2>6, <4>2, <5>1, <5>2, <6>1 DEF ExportInv, OrderInv
        <5>3. CASE dat'[s][i] > Done
          <6>1. v <= Done /\ v \in Int
            BY <2>6, <3>3 DEF ExportInv, OrderInv
          <6>2. dat'[s][i] \in Int
            BY <2>1, TypeStep DEF IInv, WriteInv, TypeInv, TypeOK
          <6> QED
            BY <3>3, <5>3, <6>1, <6>2
        <5> QED
          BY <3>2, <4>2, <5>1, <5>2, <5>3 DEF StoreMoves
      <4>3. Rising(rows) /\ Rising(buf) /\ \A u \in ToSet(rows), v \in ToSet(buf) : u < v
        BY DEF ExportInv, OrderInv
      <4> QED
        BY <2>2, <2>4, <4>1, <4>2, <4>3 DEF OrderInv
    <3>7. StillThere'
      <4> SUFFICES ASSUME Environment
                   PROVE  /\ \A v \in before : v > 0 /\ v <= Done'
                          /\ \A s \in Sec, i \in Slot :
                               HdrValid(s)' /\ dat'[s][i] \in before =>
                                 hdr'[s] <= xMax /\ (dat'[s][i] \in Delivered \/ FromFirst(s) >= Coming)
        BY <2>2, <2>4 DEF StillThere
      <4>1. \A v \in before : v > 0 /\ v <= Done
        BY <2>6 DEF ExportInv, StillThere
      <4>2. \A v \in before : v <= Done'
        BY <3>2, <3>3, <4>1 DEF StoreMoves
      <4>3. ASSUME NEW s \in Sec, NEW i \in Slot, HdrValid(s)', dat'[s][i] \in before
            PROVE  hdr'[s] <= xMax /\ (dat'[s][i] \in Delivered \/ FromFirst(s) >= Coming)
        <5>1. dat'[s][i] > 0 /\ ~ (dat'[s][i] > Done)
          BY <3>3, <4>1, <4>3
        <5>2. HdrValid(s) /\ hdr'[s] = hdr[s] /\ dat'[s][i] = dat[s][i]
          BY <3>2, <4>3, <5>1 DEF StoreMoves
        <5>3. dat[s][i] \in before
          BY <4>3, <5>2
        <5>4. hdr[s] <= xMax /\ (dat[s][i] \in Delivered \/ FromFirst(s) >= Coming)
          BY <2>6, <5>2, <5>3 DEF ExportInv, StillThere
        <5> QED
          BY <5>2, <5>4
      <4> QED
        BY <4>1, <4>2, <4>3
    <3> QED
      BY <2>3, <3>5, <3>6, <3>7 DEF ExportInv
  <2> QED
    BY <2>5, <2>6
<1> QED
  BY <1>1, <1>2

\* The sectors of an idle store: the one prepared ahead holds nothing, the
\* others are numbered up to the current one.
LEMMA IdleHeads ==
  ASSUME IInv, pc = "idle", NEW s \in Sec, HdrValid(s)
  PROVE  /\ hdr[s] > seq => \A i \in Slot : dat[s][i] = Virgin
         /\ hdr[s] <= seq => Dist(s, cur) <= Dist(oldest, cur) /\ hdr[s] = seq - Dist(s, cur)
<1>0. /\ cur \in Sec /\ seq \in Nat /\ hdr[s] \in Int /\ job = "none" /\ Running
      /\ prepared \in Sec \cup {NoSec}
  BY DEF IInv, WriteInv, TypeOK, JobMatches, Running
<1>1. ChainAt(Top) /\ HdrValid(cur) /\ hdr[cur] = seq
  BY <1>0 DEF IInv, RingInv, Chain
<1>2. s # prepared => Dist(s, cur) <= Dist(oldest, cur)
  BY <1>0 DEF IInv, RingInv, Served
<1>3. Dist(s, cur) \in Sec
  BY <1>0, DistType
<1>4. CASE prepared = NoSec
  <2>1. hdr[s] = seq - Dist(s, cur) /\ s # prepared
    BY <1>0, <1>1, <1>4, Zero DEF ChainAt, Top
  <2> QED
    BY <1>0, <1>2, <1>3, <2>1 DEF Sec
<1>5. CASE prepared # NoSec
  <2>1. prepared = Succ(cur) /\ \A i \in Slot : dat[prepared][i] = Virgin
    BY <1>0, <1>5 DEF IInv, WriteInv, Recycling
  <2>2. /\ hdr[s] = hdr[prepared] - Dist(s, prepared)
        /\ hdr[cur] = hdr[prepared] - Dist(cur, prepared)
    BY <1>0, <1>1, <1>5 DEF ChainAt, Top
  <2>3. Dist(prepared, prepared) = 0 /\ Dist(cur, prepared) = 1
        /\ (s # prepared => Dist(s, prepared) = Dist(s, cur) + 1)
    BY <1>0, <2>1, SectorsAssumption DEF Dist, Succ, Sec
  <2>4. prepared \in Sec /\ hdr[prepared] \in Int
    BY <1>0, <1>5 DEF IInv, WriteInv, TypeOK
  <2>5. CASE s = prepared
    BY <1>0, <1>1, <2>1, <2>2, <2>3, <2>4, <2>5
  <2>6. CASE s # prepared
    <3>1. hdr[s] = seq - Dist(s, cur)
      BY <1>0, <1>1, <1>3, <2>2, <2>3, <2>4, <2>6 DEF Sec
    <3> QED
      BY <1>0, <1>2, <1>3, <2>6, <3>1 DEF Sec
  <2> QED
    BY <2>5, <2>6
<1> QED
  BY <1>4, <1>5

\* A sector between two others, on the way round the ring.
LEMMA Between ==
  ASSUME NEW o \in Sec, NEW s \in Sec, NEW c \in Sec, Dist(s, c) <= Dist(o, c)
  PROVE  Dist(o, s) = Dist(o, c) - Dist(s, c)
BY SectorsAssumption DEF Sec, Dist

\* The snapshot is taken between two operations of the store.
LEMMA SnapshotTaken ==
  ASSUME IInv, ExportInv, Snapshot
  PROVE  ExportInv'
<1>0. /\ xpc = "none" /\ pc = "idle" /\ xpc' = "copy" /\ xOldest' = oldest
      /\ xCount' = Dist(oldest, cur) + 1 /\ xMax' = seq /\ before' = Log
      /\ xk' = xk /\ buf' = buf /\ rows' = rows
      /\ hdr' = hdr /\ dat' = dat /\ pc' = pc /\ job' = job /\ seq' = seq /\ appended' = appended
  BY DEF Snapshot, SectorCount, vars, flash, meta, args, hist
<1>1. /\ oldest \in Sec /\ cur \in Sec /\ seq \in Nat /\ appended \in Nat /\ job = "none" /\ Running
      /\ Done = appended /\ \A s \in Sec : hdr[s] \in Int
  BY <1>0 DEF IInv, WriteInv, TypeOK, JobMatches, Running, Done
<1>2. rows = <<>> /\ buf = <<>> /\ xk = 0
  BY <1>0 DEF ExportInv, ExportTypes
<1>3. Log = Records
  BY LogIsRecords DEF IInv, WriteInv, RingInv
<1>4. Dist(oldest, cur) \in Sec /\ \A s \in Sec : Dist(oldest, s) \in Sec /\ Dist(s, cur) \in Sec
  BY <1>1, DistType
<1>5. ExportTypes'
  <2>1. xCount' \in 0 .. Sectors /\ xk' \in 0 .. xCount'
    <3>1. Dist(oldest, cur) \in 0 .. Sectors - 1 /\ Sectors \in Nat
      BY <1>4, SectorsAssumption DEF Sec
    <3>2. Dist(oldest, cur) + 1 \in 0 .. Sectors /\ 0 \in 0 .. Dist(oldest, cur) + 1
      BY <3>1
    <3> QED
      BY <1>0, <1>2, <3>2
  <2>2. before' \in SUBSET Int
    BY <1>0, <1>3 DEF Records
  <2> QED
    BY <1>0, <1>1, <1>2, <2>1, <2>2 DEF ExportTypes
<1>6. Exporting' /\ Delivered' = {} /\ Coming' = 0 /\ Rising(<<>>) /\ ToSet(<<>>) = {}
  BY <1>0, <1>2 DEF Exporting, Delivered, Coming, ToSet, Rising
<1>7. ASSUME NEW s \in Sec
      PROVE  /\ FromFirst(s)' = Dist(oldest, s) /\ HdrValid(s)' = HdrValid(s)
             /\ Exported(s)' = (HdrValid(s) /\ hdr[s] <= seq)
  BY <1>0 DEF FromFirst, Dist, HdrValid, Exported
<1>8. SnapshotInv'
  <2>1. ASSUME NEW s \in Sec, Exported(s)'
        PROVE  FromFirst(s)' < xCount' /\ hdr'[s] = xMax' - xCount' + 1 + FromFirst(s)'
    <3>1. Dist(s, cur) <= Dist(oldest, cur) /\ hdr[s] = seq - Dist(s, cur)
      BY <1>0, <1>7, <2>1, IdleHeads
    <3>2. Dist(oldest, s) = Dist(oldest, cur) - Dist(s, cur)
      BY <1>1, <3>1, Between
    <3> QED
      BY <1>0, <1>1, <1>4, <1>7, <3>1, <3>2 DEF Sec
  <2>2. Running' /\ xMax' <= seq'
    BY <1>0, <1>1 DEF Running
  <2> QED
    BY <2>1, <2>2 DEF SnapshotInv
<1>9. OrderInv'
  BY <1>0, <1>2, <1>6 DEF OrderInv
<1>10. StillThere'
  <2>1. \A v \in Records : v > 0 /\ v <= Done'
    <3>1. \A s \in Sec, i \in Slot : dat[s][i] <= appended
      BY <1>1 DEF IInv, RingInv, Serials
    <3>2. Done' = appended
      BY <1>0, <1>1 DEF Done
    <3> QED
      BY <3>1, <3>2 DEF Records
  <2>2. ASSUME NEW s \in Sec, NEW i \in Slot, HdrValid(s), dat[s][i] \in Records
        PROVE  hdr[s] <= seq /\ Dist(oldest, s) >= 0
    <3>1. dat[s][i] # Virgin
      BY <2>2 DEF Records, Virgin
    <3> QED
      BY <1>0, <1>1, <1>4, <2>2, <3>1, IdleHeads DEF Sec
  <2> QED
    BY <1>0, <1>3, <1>6, <1>7, <2>1, <2>2 DEF StillThere
<1> QED
  BY <1>5, <1>8, <1>9, <1>10 DEF ExportInv

\* A sector copied, or passed over because it was recycled since.
LEMMA SectorCopied ==
  ASSUME IInv, ExportInv, Copy
  PROVE  ExportInv'
<1> DEFINE s == (xOldest + xk) % Sectors
<1>0. /\ xpc = "copy" /\ pc = "idle" /\ xk < xCount /\ xOldest' = xOldest /\ xCount' = xCount
      /\ xMax' = xMax /\ rows' = rows /\ before' = before
      /\ UNCHANGED vars
      /\ IF IsStale(s) THEN xk' = xk + 1 /\ UNCHANGED <<xpc, buf>>
         ELSE buf' = Intact(Cells(s)) /\ xpc' = "send" /\ UNCHANGED xk
  BY DEF Copy
<1>v. /\ hdr' = hdr /\ dat' = dat /\ pc' = pc /\ job' = job /\ seq' = seq /\ appended' = appended
  BY <1>0 DEF vars, flash, meta, args, hist
<1>t. /\ TypeOK /\ LogOrder /\ job = "none" /\ Running /\ Done = appended /\ Done' = Done
      /\ appended \in Nat /\ xOldest \in Sec /\ xCount \in 0 .. Sectors /\ xMax \in Nat
      /\ xk \in 0 .. xCount /\ Running'
  BY <1>0, <1>v DEF IInv, WriteInv, RingInv, TypeOK, JobMatches, Running, Done, ExportInv, ExportTypes
<1>s. s \in Sec /\ FromFirst(s) = xk
  <2>1. xk \in 0 .. Sectors - 1
    BY <1>0, <1>t, SectorsAssumption
  <2> QED
    BY <1>t, <2>1, WalkPlace DEF FromFirst
<1> HIDE DEF s
<1>f. \A r \in Sec : FromFirst(r) \in Nat /\ (FromFirst(r) = xk => r = s)
  <2> SUFFICES ASSUME NEW r \in Sec PROVE FromFirst(r) \in Nat /\ (FromFirst(r) = xk => r = s)
    OBVIOUS
  <2>1. FromFirst(r) \in Nat
    BY <1>t, DistType DEF FromFirst, Sec
  <2>2. FromFirst(r) = xk => r = s
    BY <1>s, <1>t, DistInjective DEF FromFirst
  <2> QED
    BY <2>1, <2>2
<1>c. Coming = xk /\ Exporting /\ Exporting' /\ buf = <<>> /\ Delivered = ToSet(rows)
      /\ rows \in Seq(Int) /\ before \in SUBSET Int
  <2>1. buf = <<>> /\ rows \in Seq(Int) /\ before \in SUBSET Int
    BY <1>0 DEF ExportInv, ExportTypes
  <2>2. ToSet(<<>>) = {}
    BY DEF ToSet
  <2>3. Exporting'
    BY <1>0 DEF Exporting
  <2> QED
    BY <1>0, <2>1, <2>2, <2>3 DEF Coming, Exporting, Delivered
<1>e. /\ \A r : FromFirst(r)' = FromFirst(r) /\ HdrValid(r)' = HdrValid(r)
      /\ \A r : Exported(r)' = Exported(r)
  BY <1>0, <1>v DEF FromFirst, Dist, HdrValid, Exported
<1>1. SnapshotInv'
  BY <1>0, <1>v, <1>t, <1>c, <1>e DEF ExportInv, SnapshotInv
<1>o. /\ Rising(rows)
      /\ \A v \in ToSet(rows) : v <= Done
      /\ \A r \in Sec, i \in Slot :
           Exported(r) /\ dat[r][i] > 0 /\ FromFirst(r) >= xk => \A v \in ToSet(rows) : v < dat[r][i]
  BY <1>c DEF ExportInv, OrderInv
<1>b. ASSUME Environment
      PROVE  /\ \A v \in before : v > 0 /\ v <= Done
             /\ \A r \in Sec, i \in Slot :
                  HdrValid(r) /\ dat[r][i] \in before =>
                    hdr[r] <= xMax /\ (dat[r][i] \in ToSet(rows) \/ FromFirst(r) >= xk)
  BY <1>b, <1>c DEF ExportInv, StillThere
<1>2. CASE IsStale(s)
  <2>1. xk' = xk + 1 /\ xpc' = xpc /\ buf' = buf
    BY <1>0, <1>2
  <2>2. ExportTypes'
    BY <1>0, <1>t, <1>c, <2>1 DEF ExportTypes
  <2>3. Coming' = xk + 1 /\ Delivered' = ToSet(rows)
    BY <1>0, <1>c, <2>1 DEF Coming, Delivered
  <2>4. OrderInv'
    <3>1. Rising(buf') /\ Rising(rows') /\ \A u \in ToSet(rows'), v \in ToSet(buf') : u < v
      BY <1>0, <2>1 DEF ExportInv, OrderInv
    <3>2. ASSUME NEW r \in Sec, NEW i \in Slot, Exported(r), dat[r][i] > 0, FromFirst(r) >= xk + 1,
                 NEW v \in ToSet(rows)
          PROVE  v < dat[r][i]
      BY <1>f, <1>o, <1>t, <3>2
    <3> QED
      BY <1>o, <1>v, <1>t, <1>e, <2>3, <3>1, <3>2 DEF OrderInv
  <2>5. StillThere'
    <3> SUFFICES ASSUME Environment, NEW r \in Sec, NEW i \in Slot, HdrValid(r), dat[r][i] \in before
                 PROVE  hdr[r] <= xMax /\ (dat[r][i] \in ToSet(rows) \/ FromFirst(r) >= xk + 1)
      BY <1>0, <1>v, <1>t, <1>b, <1>e, <2>3 DEF StillThere
    <3>1. hdr[r] <= xMax /\ (dat[r][i] \in ToSet(rows) \/ FromFirst(r) >= xk)
      BY <1>b
    <3>2. r # s
      <4>1. hdr[r] \in Int
        BY <1>t DEF TypeOK
      <4> QED
        BY <1>2, <1>t, <3>1, <4>1 DEF IsStale
    <3> QED
      BY <1>f, <1>t, <3>1, <3>2
  <2> QED
    BY <1>1, <2>2, <2>4, <2>5 DEF ExportInv
<1>3. CASE ~ IsStale(s)
  <2>1. buf' = Intact(Cells(s)) /\ xpc' = "send" /\ xk' = xk
    BY <1>0, <1>3
  <2>2. HdrValid(s) /\ hdr[s] <= xMax /\ Exported(s)
    BY <1>3, <1>s, <1>t DEF IsStale, HdrValid, Exported, TypeOK
  <2>3. /\ buf' \in Seq(Int) /\ Rising(buf')
        /\ \A v \in ToSet(buf') : v > 0 /\ \E i \in Slot : dat[s][i] = v
        /\ \A i \in Slot : dat[s][i] > 0 /\ (s = cur => i < slot) => dat[s][i] \in ToSet(buf')
    BY <1>s, <1>t, <2>1, <2>2, CopiedIs
  <2>4. ExportTypes'
    BY <1>0, <1>t, <1>c, <2>1, <2>3 DEF ExportTypes
  <2>5. Coming' = xk + 1 /\ Delivered' = ToSet(rows) \cup ToSet(buf')
    BY <1>0, <2>1 DEF Coming, Delivered
  <2>6. OrderInv'
    <3>1. ASSUME NEW u \in ToSet(rows), NEW v \in ToSet(buf') PROVE u < v
      <4>1. PICK i \in Slot : dat[s][i] = v /\ v > 0
        BY <2>3
      <4>2. FromFirst(s) >= xk
        BY <1>s, <1>t
      <4> QED
        BY <1>o, <1>s, <2>2, <4>1, <4>2
    <3>2. ASSUME NEW v \in ToSet(buf') PROVE v <= Done
      <4>1. PICK i \in Slot : dat[s][i] = v
        BY <2>3
      <4>2. dat[s][i] <= appended
        BY <1>s, <1>t DEF IInv, RingInv, Serials
      <4> QED
        BY <1>t, <4>1, <4>2
    <3>3. ASSUME NEW r \in Sec, NEW i \in Slot, Exported(r), dat[r][i] > 0, FromFirst(r) >= xk + 1
          PROVE  /\ \A v \in ToSet(rows) : v < dat[r][i]
                 /\ \A v \in ToSet(buf') : v < dat[r][i]
      <4>1. FromFirst(r) >= xk
        BY <1>f, <1>t, <3>3
      <4>2. hdr[s] < hdr[r]
        <5>1. /\ hdr[s] = xMax - xCount + 1 + FromFirst(s)
              /\ hdr[r] = xMax - xCount + 1 + FromFirst(r)
          BY <1>c, <1>s, <2>2, <3>3 DEF ExportInv, SnapshotInv
        <5>2. FromFirst(r) \in Nat
          BY <1>f
        <5> QED
          BY <1>s, <1>t, <3>3, <5>1, <5>2
      <4>3. ASSUME NEW v \in ToSet(buf') PROVE v < dat[r][i]
        <5>1. PICK j \in Slot : dat[s][j] = v /\ v > 0
          BY <2>3
        <5> QED
          BY <1>s, <1>t, <2>2, <3>3, <4>2, <5>1 DEF LogOrder, Exported
      <4> QED
        BY <1>o, <3>3, <4>1, <4>3
    <3>4. Rising(rows') /\ Rising(buf')
      BY <1>0, <1>o, <2>3
    <3>5. \A v \in Delivered' : v <= Done'
      BY <1>o, <1>t, <2>5, <3>2
    <3>6. \A r \in Sec, i \in Slot :
            Exported(r)' /\ dat'[r][i] > 0 /\ FromFirst(r)' >= Coming' =>
              \A v \in Delivered' : v < dat'[r][i]
      BY <1>v, <1>e, <2>5, <3>3
    <3> QED
      BY <1>0, <3>1, <3>4, <3>5, <3>6 DEF OrderInv
  <2>7. StillThere'
    <3> SUFFICES ASSUME Environment, NEW r \in Sec, NEW i \in Slot, HdrValid(r), dat[r][i] \in before
                 PROVE  hdr[r] <= xMax /\ (dat[r][i] \in Delivered' \/ FromFirst(r) >= xk + 1)
      BY <1>0, <1>v, <1>t, <1>b, <1>e, <2>5 DEF StillThere
    <3>1. hdr[r] <= xMax /\ (dat[r][i] \in ToSet(rows) \/ FromFirst(r) >= xk) /\ dat[r][i] > 0
      BY <1>b
    <3>2. CASE r = s
      <4>1. s = cur => i < slot
        <5> SUFFICES ASSUME s = cur, ~ (i < slot) PROVE FALSE
          OBVIOUS
        <5>1. slot \in 0 .. Slots /\ i \in Int /\ pc # "tag"
          BY <1>0, <1>t DEF TypeOK, Slot
        <5>2. i > slot \/ i = slot
          BY <5>1, SlotsAssumption
        <5>3. CellVirgin(cur, i)
          BY <1>t, <5>1, <5>2 DEF IInv, WriteInv, Frontier, Environment
        <5> QED
          BY <3>1, <3>2, <5>3 DEF CellVirgin, Virgin
      <4> QED
        BY <2>3, <2>5, <3>1, <3>2, <4>1
    <3>3. CASE r # s
      BY <1>f, <1>t, <2>5, <3>1, <3>3
    <3> QED
      BY <3>2, <3>3
  <2> QED
    BY <1>1, <2>4, <2>6, <2>7 DEF ExportInv
<1> QED
  BY <1>2, <1>3

\* A sector's rows sent.
LEMMA SectorSent ==
  ASSUME ExportInv, Send
  PROVE  ExportInv'
<1>0. /\ xpc = "send" /\ rows' = rows \o buf /\ buf' = <<>> /\ xk' = xk + 1 /\ xpc' = "copy"
      /\ xOldest' = xOldest /\ xCount' = xCount /\ xMax' = xMax /\ before' = before
      /\ UNCHANGED vars
  BY DEF Send
<1>v. /\ hdr' = hdr /\ dat' = dat /\ pc' = pc /\ job' = job /\ seq' = seq /\ appended' = appended
  BY <1>0 DEF vars, flash, meta, args, hist
<1>1. /\ xOldest \in Sec /\ xCount \in 0 .. Sectors /\ xMax \in Nat /\ xk \in 0 .. xCount
      /\ xk < xCount /\ rows \in Seq(Int) /\ buf \in Seq(Int) /\ before \in SUBSET Int
  BY <1>0 DEF ExportInv, ExportTypes
<1>2. Rising(rows) /\ Rising(buf) /\ \A u \in ToSet(rows), v \in ToSet(buf) : u < v
  BY DEF ExportInv, OrderInv
<1>3. rows' \in Seq(Int) /\ Rising(rows') /\ ToSet(rows') = ToSet(rows) \cup ToSet(buf)
  BY <1>0, <1>1, <1>2, ConcatRises
<1>4. Rising(<<>>) /\ ToSet(<<>>) = {}
  BY DEF Rising, ToSet
<1>5. /\ Exporting /\ Exporting' /\ Coming' = Coming /\ Delivered' = Delivered
      /\ Done' = Done /\ Running' = Running
  BY <1>0, <1>v, <1>3, <1>4 DEF Exporting, Coming, Delivered, Done, Running
<1>e. /\ \A r : FromFirst(r)' = FromFirst(r) /\ HdrValid(r)' = HdrValid(r)
      /\ \A r : Exported(r)' = Exported(r)
  BY <1>0, <1>v DEF FromFirst, Dist, HdrValid, Exported
<1>6. ExportTypes'
  <2>1. xk' \in 0 .. xCount' /\ <<>> \in Seq(Int)
    BY <1>0, <1>1
  <2> QED
    BY <1>0, <1>1, <1>3, <2>1 DEF ExportTypes
<1>7. SnapshotInv'
  BY <1>0, <1>v, <1>5, <1>e DEF ExportInv, SnapshotInv
<1>8. OrderInv'
  BY <1>0, <1>v, <1>3, <1>4, <1>5, <1>e DEF ExportInv, OrderInv
<1>9. StillThere'
  BY <1>0, <1>v, <1>5, <1>e DEF ExportInv, StillThere
<1> QED
  BY <1>6, <1>7, <1>8, <1>9 DEF ExportInv

\* The request ends, one way or the other, or nothing happens.
LEMMA RequestEnds ==
  ASSUME ExportInv, ClientGone \/ Finish \/ UNCHANGED <<vars, xvars>>
  PROVE  ExportInv'
<1>0. /\ xOldest' = xOldest /\ xCount' = xCount /\ xMax' = xMax /\ before' = before
      /\ rows' = rows /\ buf' = buf /\ xk' = xk
      /\ UNCHANGED vars
      /\ xpc' = xpc \/ xpc' = "gone" \/ (xpc = "copy" /\ xpc' = "done" /\ xk = xCount)
  BY DEF ClientGone, Finish, xvars
<1>v. /\ hdr' = hdr /\ dat' = dat /\ pc' = pc /\ job' = job /\ seq' = seq /\ appended' = appended
  BY <1>0 DEF vars, flash, meta, args, hist
<1>1. /\ Exporting' => Exporting /\ Coming' = Coming
      /\ Delivered' = Delivered /\ Done' = Done /\ Running' = Running
  BY <1>0, <1>v DEF Exporting, Coming, Delivered, Done, Running
<1>e. /\ \A r : FromFirst(r)' = FromFirst(r) /\ HdrValid(r)' = HdrValid(r)
      /\ \A r : Exported(r)' = Exported(r)
  BY <1>0, <1>v DEF FromFirst, Dist, HdrValid, Exported
<1>2. ExportTypes'
  BY <1>0 DEF ExportInv, ExportTypes
<1>3. SnapshotInv'
  BY <1>0, <1>v, <1>1, <1>e DEF ExportInv, SnapshotInv
<1>4. OrderInv'
  BY <1>0, <1>v, <1>1, <1>e DEF ExportInv, OrderInv
<1>5. StillThere'
  BY <1>0, <1>v, <1>1, <1>e DEF ExportInv, StillThere
<1> QED
  BY <1>2, <1>3, <1>4, <1>5 DEF ExportInv

\* Before the first request nothing is delivered.
LEMMA NoRequest == NoExport => ExportInv
<1> SUFFICES ASSUME NoExport PROVE ExportInv
  OBVIOUS
<1>1. Rising(<<>>) /\ ToSet(<<>>) = {} /\ <<>> \in Seq(Int)
  BY DEF Rising, ToSet
<1> QED
  BY <1>1, Zero, SectorsAssumption
     DEF NoExport, ExportInv, ExportTypes, SnapshotInv, OrderInv, StillThere, Exporting

\* The invariant holds whatever fails.
THEOREM ExportInvariant == ExportSpec => []ExportInv
<1>1. ExportInit => Init /\ ExportInv
  BY NoRequest DEF ExportInit
<1>2. IInv /\ ExportInv /\ [ExportNext]_<<vars, xvars>> => ExportInv'
  BY StoreBeside, SnapshotTaken, SectorCopied, SectorSent, RequestEnds DEF ExportNext
<1>3. [ExportNext]_<<vars, xvars>> => [Next]_vars
  BY DEF ExportNext, StoreStep, Snapshot, Copy, Send, ClientGone, Finish
<1>4. ExportSpec => Spec
  BY <1>1, <1>3, PTL DEF ExportSpec, Spec
<1>5. ExportSpec => []IInv
  BY <1>4, InductiveInvariant
<1> QED
  BY <1>1, <1>2, <1>5, PTL DEF ExportSpec

\* Rows come in the order the records were appended and no record twice, even
\* when sectors are recycled and refilled between two copies, whatever fails.
THEOREM RowsAreInOrder == ExportSpec => []RowsInOrder
<1>1. ExportInv => RowsInOrder
  BY DEF ExportInv, OrderInv, Rising, RowsInOrder
<1> QED
  BY <1>1, ExportInvariant, PTL

\* handle_history_csv_: the rows come in the order of the records and without
\* repetition, and a finished export has every record that was there throughout.
THEOREM ExportIsFaithful == Environment => (ExportSpec => []ExportFaithful)
<1> SUFFICES ASSUME Environment PROVE ExportSpec => []ExportFaithful
  OBVIOUS
<1>1. IInv /\ ExportInv => ExportFaithful
  <2> SUFFICES ASSUME IInv, ExportInv PROVE ExportFaithful
    OBVIOUS
  <2>1. RowsInOrder
    BY DEF ExportInv, OrderInv, Rising, RowsInOrder
  <2>2. ASSUME xpc = "done", NEW v \in before \cap Log PROVE v \in ToSet(rows)
    <3>1. Log = Records
      BY LogIsRecords DEF IInv, WriteInv, RingInv
    <3>2. PICK s \in Sec, i \in Slot : HdrValid(s) /\ dat[s][i] = v
      BY <2>2, <3>1 DEF Records
    <3>3. Exporting /\ Coming = xk /\ xk = xCount /\ buf = <<>> /\ xCount \in Int
      BY <2>2 DEF Exporting, Coming, ExportInv, ExportTypes
    <3>4. hdr[s] <= xMax /\ (v \in Delivered \/ FromFirst(s) >= xCount)
      BY <2>2, <3>2, <3>3 DEF ExportInv, StillThere
    <3>5. FromFirst(s) < xCount
      BY <3>2, <3>3, <3>4 DEF ExportInv, SnapshotInv, Exported
    <3>6. FromFirst(s) \in Int
      BY <3>2, DistType DEF ExportInv, ExportTypes, FromFirst, Sec
    <3>7. v \in Delivered
      BY <3>3, <3>4, <3>5, <3>6
    <3>8. ToSet(<<>>) = {}
      BY DEF ToSet
    <3> QED
      BY <3>3, <3>7, <3>8 DEF Delivered
  <2> QED
    BY <2>1, <2>2 DEF ExportFaithful, Complete
<1>2. ExportInit => Init
  BY DEF ExportInit
<1>3. [ExportNext]_<<vars, xvars>> => [Next]_vars
  BY DEF ExportNext, StoreStep, Snapshot, Copy, Send, ClientGone, Finish
<1>4. ExportSpec => Spec
  BY <1>2, <1>3, PTL DEF ExportSpec, Spec
<1> QED
  BY <1>1, <1>4, InductiveInvariant, ExportInvariant, PTL

=============================================================================

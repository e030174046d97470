----------------------------- MODULE HistStore -----------------------------
(***************************************************************************)
(* The quarter-hour history store of the gPlug firmware: an append-only    *)
(* log of fixed-size records over a raw NOR flash partition, organised as  *)
(* a ring of sectors (class HistoryStore, history_store.h), together with  *)
(* the flash it writes (class PartitionFlash) and the caller's bookkeeping *)
(* of records whose time is not yet known (unk_first_addr_, unk_count_ of  *)
(* GplugSmi).                                                              *)
(*                                                                         *)
(* Every flash operation is a step of its own, so that power can fail in   *)
(* the middle of any of them.  Between the first and the last step of an   *)
(* operation pc is not "idle": the caller holds hist_mutex_, and no other  *)
(* operation on the store can start.                                       *)
(*                                                                         *)
(* A record is abstracted to the serial number of the append() that wrote  *)
(* it, a timestamp word to whether it is erased, written or torn, a sector *)
(* header to its sequence number.                                          *)
(***************************************************************************)
EXTENDS Integers, FiniteSets

CONSTANTS
  Sectors,       \* sectors of the partition (176 on the device)
  Slots,         \* records per sector (HIST_SLOTS, 204 on the device)
  MaxAppends,    \* bound: calls of append() in one behaviour
  MaxDamage,     \* bound: writes and erases that fail or are cut short
  RecordFaults,  \* may a record or timestamp write report failure while the
                 \* device stays powered?
  ClockSyncs     \* does the clock sync before the ring, still in the same
                 \* boot, comes round to the first record without timestamp?

ASSUME SectorsAssumption == Sectors \in Nat /\ Sectors >= 2
ASSUME SlotsAssumption == Slots \in Nat /\ Slots >= 1
ASSUME BoundsAssumption == {MaxAppends, MaxDamage} \subseteq Nat
ASSUME FaultsAssumption == RecordFaults \in BOOLEAN /\ ClockSyncs \in BOOLEAN

Sec == 0 .. Sectors - 1
Slot == 0 .. Slots - 1
NoSec == Sectors      \* the code's NO_SEC, a sector number no sector has

Virgin == 0           \* erased bytes (all ones)
Torn == -1            \* programmed bytes that carry no valid content

Succ(s) == IF s = Sectors - 1 THEN 0 ELSE s + 1
Pred(s) == IF s = 0 THEN Sectors - 1 ELSE s - 1

\* Steps forward round the ring from sector a to sector b.
Dist(a, b) == IF b >= a THEN b - a ELSE b + Sectors - a

VARIABLES
  \* flash
  hdr,           \* [Sec -> header: its sequence number, Virgin or Torn]
  dat,           \* [Sec -> [Slot -> payload: a serial number, Virgin or Torn]]
  tag,           \* [Sec -> [Slot -> timestamp word]]
  \* RAM: HistoryStore::Meta, pending_erase_, prepared_sec_
  cur, oldest, slot, seq, count, pending, prepared,
  \* RAM: GplugSmi::unk_first_addr_ (as sector and slot) and unk_count_
  unkSec, unkSlot, unkCount,
  \* the operation in progress and its arguments
  pc, job, target, at, left, dated,
  \* history: calls of append() so far, the serials append() returned true for,
  \* and the flash operations that did not complete
  appended, acked, damage

flash == <<hdr, dat, tag>>
meta == <<cur, oldest, slot, seq, count, pending, prepared>>
unk == <<unkSec, unkSlot, unkCount>>
args == <<job, target, at, left, dated>>
hist == <<appended, acked, damage>>
vars == <<flash, meta, unk, pc, args, hist>>

PCs == {"off", "disabled", "idle", "erase", "header", "payload", "tag", "patch"}
Jobs == {"none", "format", "append", "service", "patch"}
Tags == {"unknown", "dated", "torn"}

TypeOK ==
  /\ hdr \in [Sec -> Int]
  /\ dat \in [Sec -> [Slot -> Int]]
  /\ tag \in [Sec -> [Slot -> Tags]]
  /\ cur \in Sec /\ oldest \in Sec
  /\ slot \in 0 .. Slots
  /\ seq \in Nat /\ count \in Nat
  /\ pending \in Sec \cup {NoSec} /\ prepared \in Sec \cup {NoSec}
  /\ unkSec \in Sec /\ unkSlot \in Slot /\ unkCount \in Nat
  /\ pc \in PCs /\ job \in Jobs
  /\ target \in Sec /\ at \in Slot /\ left \in Nat /\ dated \in BOOLEAN
  /\ appended \in Nat /\ acked \in SUBSET Nat /\ damage \in Nat

-----------------------------------------------------------------------------
(* What begin() reads from flash.                                          *)

HdrValid(s) == hdr[s] > 0
CellVirgin(s, i) == dat[s][i] = Virgin /\ tag[s][i] = "unknown"

\* Mutant: the election compares the wrong way round.
IsNewest_Lowest(c) == HdrValid(c) /\ \A s \in Sec : HdrValid(s) => hdr[s] >= hdr[c]

\* The newest sector: the highest sequence number of a valid header.
IsNewest(c) == HdrValid(c) /\ \A s \in Sec : HdrValid(s) => hdr[s] <= hdr[c]

\* Sectors o .. c carry consecutive sequence numbers.
IsRun(o, c) ==
  \A s \in Sec : Dist(s, c) <= Dist(o, c) => HdrValid(s) /\ hdr[s] = hdr[c] - Dist(s, c)

\* The far end of the longest run that ends in c.
IsOldest(o, c) ==
  /\ IsRun(o, c)
  /\ \/ Dist(o, c) = Sectors - 1
     \/ ~ HdrValid(Pred(o))
     \/ hdr[Pred(o)] # hdr[o] - 1

\* Mutant: the frontier follows the last intact record, not the last byte.
IsFreeSlot_LastValid(n, c) ==
  /\ \A i \in Slot : i >= n => dat[c][i] <= 0
  /\ n > 0 => dat[c][n - 1] > 0

\* find_slot_: one past the last slot of sector c that is not fully erased.
IsFreeSlot(n, c) ==
  /\ \A i \in Slot : i >= n => CellVirgin(c, i)
  /\ n > 0 => ~ CellVirgin(c, n - 1)

-----------------------------------------------------------------------------
(* Flash primitives.  Programming only clears bits: over bytes that are    *)
(* not erased it leaves garbage, without an error.                         *)

Programmed(old, new) == IF old = Virgin THEN new ELSE Torn
Tagged(old) == IF old = "unknown" THEN "dated" ELSE "torn"

\* What a write can leave behind when power fails in it.
CutShort(old, new) == {old, Torn, Programmed(old, new)}
TagCutShort(old) == {old, "torn", Tagged(old)}

\* What a write leaves behind that reports failure: it did not complete.
Failed(old) == {old, Torn}
TagFailed(old) == {old, "torn"}

WritePayload(v) ==
  dat' = [dat EXCEPT ![cur][slot] = v]

WriteTag(s, i, t) ==
  tag' = [tag EXCEPT ![s][i] = t]

EraseAll(s) ==
  /\ hdr' = [hdr EXCEPT ![s] = Virgin]
  /\ dat' = [dat EXCEPT ![s] = [i \in Slot |-> Virgin]]
  /\ tag' = [tag EXCEPT ![s] = [i \in Slot |-> "unknown"]]

\* An erase that stopped half way: any part of the sector may be as before,
\* destroyed, or erased.
ErasePartly(s) ==
  \E h \in {hdr[s], Torn, Virgin} :
  \E kept, lost \in SUBSET Slot :
    /\ kept \cap lost = {}
    /\ hdr' = [hdr EXCEPT ![s] = h]
    /\ dat' = [dat EXCEPT ![s] =
                [i \in Slot |-> IF i \in kept THEN dat[s][i]
                                ELSE IF i \in lost THEN Torn ELSE Virgin]]
    /\ tag' = [tag EXCEPT ![s] =
                [i \in Slot |-> IF i \in kept THEN tag[s][i]
                                ELSE IF i \in lost THEN "torn" ELSE "unknown"]]

-----------------------------------------------------------------------------
(* Start-up: begin().                                                      *)

Init ==
  /\ \E d \in {Virgin, Torn} :      \* a fresh partition, erased or left over
       /\ hdr = [s \in Sec |-> d]
       /\ dat = [s \in Sec |-> [i \in Slot |-> d]]
       /\ tag = [s \in Sec |-> [i \in Slot |-> IF d = Torn THEN "torn" ELSE "unknown"]]
  /\ cur = 0 /\ oldest = 0 /\ slot = 0 /\ seq = 0 /\ count = 0
  /\ pending = NoSec /\ prepared = NoSec
  /\ unkSec = 0 /\ unkSlot = 0 /\ unkCount = 0
  /\ pc = "off" /\ job = "none" /\ target = 0 /\ at = 0 /\ left = 0 /\ dated = FALSE
  /\ appended = 0 /\ acked = {} /\ damage = 0

\* No valid header anywhere: format_fresh_ prepares sector 0 with seq 1.
BeginFresh ==
  /\ pc = "off"
  /\ \A s \in Sec : ~ HdrValid(s)
  /\ pc' = "erase" /\ job' = "format" /\ target' = 0
  /\ UNCHANGED <<flash, meta, unk, at, left, dated, hist>>

Begin ==
  /\ pc = "off"
  /\ \E c, o \in Sec, n \in 0 .. Slots :
       /\ IsNewest(c) /\ IsOldest(o, c) /\ IsFreeSlot(n, c)
       /\ cur' = c /\ oldest' = o /\ slot' = n
       /\ seq' = hdr[c]
       /\ count' = Dist(o, c) * Slots + n
  /\ pc' = "idle"
  /\ UNCHANGED <<flash, pending, prepared, unk, args, hist>>

-----------------------------------------------------------------------------
(* prepare_sector_: erase, then write the header.                          *)

Prepare(n, j) == pc' = "erase" /\ job' = j /\ target' = n

EraseOk ==
  /\ pc = "erase"
  /\ EraseAll(target)
  /\ pc' = "header"
  /\ UNCHANGED <<meta, unk, args, hist>>

Damage ==
  /\ damage < MaxDamage
  /\ damage' = damage + 1
  /\ UNCHANGED <<appended, acked>>

NewSeq == IF job = "format" THEN 1 ELSE seq + 1

\* The operation returns: its arguments and locals are gone.
Return(to) ==
  /\ pc' = to
  /\ job' = "none" /\ target' = 0 /\ at' = 0 /\ left' = 0 /\ dated' = FALSE

\* An operation that failed while powered: append() and service_erase()
\* return false, a failed format leaves the history disabled.
GiveUp == Return(IF job = "format" THEN "disabled" ELSE "idle")

EraseFail ==
  /\ pc = "erase"
  /\ ErasePartly(target)
  /\ Damage
  /\ GiveUp
  /\ UNCHANGED <<meta, unk>>

HeaderFail ==
  /\ pc = "header"
  /\ \E h \in Failed(hdr[target]) : hdr' = [hdr EXCEPT ![target] = h]
  /\ Damage
  /\ GiveUp
  /\ UNCHANGED <<dat, tag, meta, unk>>

\* Mutant: the recycled sector's records stay in the count.
DropOldest_KeepCount ==
  IF target = oldest /\ count > 0
  THEN oldest' = Succ(target) /\ UNCHANGED count
  ELSE UNCHANGED <<oldest, count>>

\* The tail of prepare_sector_: the oldest sector moves on when it is the
\* one that was recycled.
DropOldest ==
  IF target = oldest /\ count > 0
  THEN /\ oldest' = Succ(target)
       /\ count' = IF count >= Slots THEN count - Slots ELSE count
  ELSE UNCHANGED <<oldest, count>>

WriteHeader == hdr' = [hdr EXCEPT ![target] = Programmed(@, NewSeq)]

FormatDone ==
  /\ pc = "header" /\ job = "format"
  /\ WriteHeader
  /\ cur' = 0 /\ oldest' = 0 /\ slot' = 0 /\ seq' = 1 /\ count' = 0
  /\ Return("idle")
  /\ UNCHANGED <<dat, tag, pending, prepared, unk, hist>>

ServiceDone ==
  /\ pc = "header" /\ job = "service"
  /\ WriteHeader
  /\ DropOldest
  /\ prepared' = target
  /\ Return("idle")
  /\ UNCHANGED <<dat, tag, cur, slot, seq, pending, unk, hist>>

\* Mutant: the sector stays marked as prepared.
Advance_StillPrepared(n) ==
  /\ cur' = n /\ slot' = 0 /\ seq' = seq + 1
  /\ pending' = NoSec /\ UNCHANGED prepared

\* The tail of advance_sector_.
Advance(n) ==
  /\ cur' = n /\ slot' = 0 /\ seq' = seq + 1
  /\ pending' = NoSec /\ prepared' = NoSec

AdvanceDone ==
  /\ pc = "header" /\ job = "append"
  /\ WriteHeader
  /\ DropOldest
  /\ Advance(target)
  /\ pc' = "payload"
  /\ UNCHANGED <<dat, tag, unk, args, hist>>

-----------------------------------------------------------------------------
(* append().                                                               *)

\* The environment: with ClockSyncs, sector n is not recycled while it holds
\* the start of a run of records still to be dated.
ClockInTime(n) == ClockSyncs /\ unkCount > 0 => n # unkSec

\* The call: the record carries a timestamp (d) or QH_UNKNOWN.
BeginAppend(d) ==
  /\ pc = "idle"
  /\ appended < MaxAppends
  /\ slot = Slots => ClockInTime(Succ(cur))
  /\ appended' = appended + 1
  /\ dated' = d
  /\ IF slot < Slots
     THEN pc' = "payload" /\ job' = "append" /\ UNCHANGED <<meta, target>>
     ELSE IF prepared = Succ(cur)
          THEN /\ Advance(Succ(cur))
               /\ pc' = "payload" /\ job' = "append"
               /\ UNCHANGED <<oldest, count, target>>
          ELSE Prepare(Succ(cur), "append") /\ UNCHANGED meta
  /\ UNCHANGED <<flash, unk, at, left, acked, damage>>

\* Mutant: the recycle is armed one sector too far.
PreArmed_TooFar == IF slot + 1 >= Slots THEN Succ(Succ(cur)) ELSE pending

\* The recycle is armed by the record that fills the sector.
PreArmed == IF slot + 1 >= Slots THEN Succ(cur) ELSE pending

\* The tail of append(), and of hist_close_interval_ that called it.
Appended ==
  /\ slot' = slot + 1
  /\ count' = count + 1
  /\ pending' = PreArmed
  /\ IF dated THEN UNCHANGED unk
     ELSE /\ unkCount' = unkCount + 1
          /\ IF unkCount = 0
             THEN unkSec' = cur /\ unkSlot' = slot
             ELSE UNCHANGED <<unkSec, unkSlot>>
  /\ acked' = acked \cup {appended}
  /\ Return("idle")
  /\ UNCHANGED <<cur, oldest, seq, prepared, appended, damage>>

PayloadOk ==
  /\ WritePayload(Programmed(dat[cur][slot], appended))
  /\ UNCHANGED <<hdr, tag>>
  /\ IF dated
     THEN pc' = "tag" /\ UNCHANGED <<meta, unk, args, hist>>
     ELSE Appended

PayloadFail ==
  /\ RecordFaults
  /\ \E v \in Failed(dat[cur][slot]) : WritePayload(v)
  /\ Damage
  /\ GiveUp
  /\ UNCHANGED <<hdr, tag, meta, unk>>

Payload == pc = "payload" /\ (PayloadOk \/ PayloadFail)

TagOk ==
  /\ WriteTag(cur, slot, Tagged(tag[cur][slot]))
  /\ UNCHANGED <<hdr, dat>>
  /\ Appended

TagFail ==
  /\ RecordFaults
  /\ \E t \in TagFailed(tag[cur][slot]) : WriteTag(cur, slot, t)
  /\ Damage
  /\ GiveUp
  /\ UNCHANGED <<hdr, dat, meta, unk>>

Tag == pc = "tag" /\ (TagOk \/ TagFail)

-----------------------------------------------------------------------------
(* service_erase(), and patch_qh_seq() as hist_backpatch_ calls it.        *)

ServiceErase ==
  /\ pc = "idle"
  /\ pending # NoSec /\ ClockInTime(pending)
  /\ pending' = NoSec
  /\ Prepare(pending, "service")
  /\ UNCHANGED <<flash, cur, oldest, slot, seq, count, prepared, unk, at, left, dated, hist>>

\* Mutant: one slot too many.
Patch_OneMore ==
  /\ pc = "idle"
  /\ unkCount > 0
  /\ pc' = "patch" /\ job' = "patch"
  /\ target' = unkSec /\ at' = unkSlot /\ left' = unkCount + 1
  /\ UNCHANGED <<flash, meta, unk, dated, hist>>

Patch ==
  /\ pc = "idle"
  /\ unkCount > 0
  /\ pc' = "patch" /\ job' = "patch"
  /\ target' = unkSec /\ at' = unkSlot /\ left' = unkCount
  /\ UNCHANGED <<flash, meta, unk, dated, hist>>

\* Mutant: the timestamp is written without looking whether one is there.
Filled_Blindly(t) == Tagged(t)
Filled(t) == IF t = "unknown" THEN "dated" ELSE t

\* One slot of the loop: a timestamp that is still erased is filled in, any
\* other is left alone; a failed write is passed over.
PatchSlot ==
  /\ pc = "patch" /\ left > 0
  /\ \/ WriteTag(target, at, Filled(tag[target][at])) /\ UNCHANGED hist
     \/ /\ RecordFaults
        /\ tag[target][at] = "unknown"
        /\ \E t \in TagFailed(tag[target][at]) : WriteTag(target, at, t)
        /\ Damage
  /\ IF at + 1 < Slots
     THEN at' = at + 1 /\ UNCHANGED target
     ELSE at' = 0 /\ target' = Succ(target)
  /\ left' = left - 1
  /\ UNCHANGED <<hdr, dat, meta, unk, pc, job, dated>>

PatchDone ==
  /\ pc = "patch" /\ left = 0
  /\ unkCount' = 0
  /\ Return("idle")
  /\ UNCHANGED <<flash, meta, unkSec, unkSlot, hist>>

-----------------------------------------------------------------------------
(* Power loss, at any moment: RAM is gone, the flash operation in progress *)
(* may have happened not at all, in part, or in full.                      *)

LosePower ==
  /\ cur' = 0 /\ oldest' = 0 /\ slot' = 0 /\ seq' = 0 /\ count' = 0
  /\ pending' = NoSec /\ prepared' = NoSec
  /\ unkSec' = 0 /\ unkSlot' = 0 /\ unkCount' = 0
  /\ Return("off")

PowerCut ==
  /\ pc \in {"idle", "disabled"}
  /\ LosePower
  /\ UNCHANGED <<flash, hist>>

PowerCutInWrite ==
  /\ \/ pc = "erase" /\ ErasePartly(target)
     \/ /\ pc = "header"
        /\ \E h \in CutShort(hdr[target], NewSeq) : hdr' = [hdr EXCEPT ![target] = h]
        /\ UNCHANGED <<dat, tag>>
     \/ /\ pc = "payload"
        /\ \E v \in CutShort(dat[cur][slot], appended) : WritePayload(v)
        /\ UNCHANGED <<hdr, tag>>
     \/ /\ pc = "tag"
        /\ \E t \in TagCutShort(tag[cur][slot]) : WriteTag(cur, slot, t)
        /\ UNCHANGED <<hdr, dat>>
     \/ /\ pc = "patch" /\ left > 0
        /\ \E t \in IF tag[target][at] = "unknown" THEN TagCutShort("unknown")
                    ELSE {tag[target][at]} : WriteTag(target, at, t)
        /\ UNCHANGED <<hdr, dat>>
  /\ Damage
  /\ LosePower

Next ==
  \/ BeginFresh \/ Begin
  \/ EraseOk \/ EraseFail
  \/ HeaderFail \/ FormatDone \/ ServiceDone \/ AdvanceDone
  \/ \E d \in BOOLEAN : BeginAppend(d)
  \/ Payload \/ Tag
  \/ ServiceErase \/ Patch \/ PatchSlot \/ PatchDone
  \/ PowerCut \/ PowerCutInWrite

Spec == Init /\ [][Next]_vars

-----------------------------------------------------------------------------
(* Properties.                                                             *)

\* No record write fails while the device is powered, and the clock syncs before
\* the ring comes round: what the properties of single records rest on.
Environment == RecordFaults = FALSE /\ ClockSyncs = TRUE

\* What for_each() and the CSV export deliver: the intact records of sectors
\* o .. c, in sector c only up to slot n.
Readable(o, c, n) ==
  {dat[s][i] : s \in {t \in Sec : Dist(t, c) <= Dist(o, c)}, i \in Slot}
    \ ({Virgin, Torn} \cup {dat[c][i] : i \in {j \in Slot : j >= n}})

\* The log as a power-on would find it, a function of flash alone: the records
\* of the sectors from which consecutive sequence numbers lead to the newest.
Log ==
  {dat[s][i] : s \in {t \in Sec : \E c \in Sec : IsNewest(c) /\ IsRun(t, c)}, i \in Slot}
    \ {Virgin, Torn}

\* How many of the latest append() calls the partition has room for while one
\* sector is being recycled.
Window == (Sectors - 1) * Slots

\* Every write targets virgin bytes: a header goes to a sector that is erased
\* throughout, a record to an erased slot, a timestamp to an erased word (the
\* promise in partition_flash.h; esp_partition_write does not report a breach).
VirginWrites ==
  /\ pc = "header" => hdr[target] = Virgin /\ \A i \in Slot : CellVirgin(target, i)
  /\ pc = "payload" => CellVirgin(cur, slot)
  /\ pc = "tag" => tag[cur][slot] = "unknown"

\* Back-patching only ever dates slots that a record was written to: the run
\* it walks, counted from the first undated record of this boot, ends at or
\* before the frontier however the ring turned meanwhile.
DatesRecords == pc = "patch" /\ left > 0 => dat[target][at] # Virgin

\* A write that fails while powered spoils at most the slot at the frontier:
\* everything above it in the current sector stays virgin.
FaultContained ==
  pc \in {"idle", "payload", "tag", "patch"} =>
    \A i \in Slot : i > slot => CellVirgin(cur, i)

\* Whenever no operation is under way, a power-on would find the records the
\* running store serves, whatever failed before: begin()'s election, its
\* backward walk and find_slot_ agree with the state in RAM.  The one exception
\* is a sector whose recycle failed half way: its remains may still be served,
\* and a power-on drops them once the header is gone.
RebootNeutral ==
  pc = "idle" =>
    \E c, o \in Sec, n \in 0 .. Slots :
      /\ IsNewest(c) /\ IsOldest(o, c) /\ IsFreeSlot(n, c)
      /\ \/ Readable(o, c, n) = Readable(oldest, cur, slot)
         \/ /\ slot = Slots /\ oldest = Succ(cur) /\ ~ HdrValid(oldest)
            /\ Readable(o, c, n) = Readable(Succ(oldest), cur, slot)

\* Reading from the oldest sector to the newest, and up the slots of each,
\* meets the records in the order they were appended, across wrap-around,
\* failed recycles and power cuts: a reader never has to sort.
LogOrder ==
  \A s, t \in Sec, i, j \in Slot :
    /\ dat[s][i] > 0 /\ dat[t][j] > 0
    /\ HdrValid(s) /\ HdrValid(t)
    /\ hdr[s] < hdr[t] \/ (s = t /\ i < j)
    => dat[s][i] < dat[t][j]

\* The records a power-on finds are those the store serves, in the order in
\* which they were appended.
LogKept == RebootNeutral /\ LogOrder

\* The record count served to the SPA is the number of slots from the oldest
\* sector to the frontier, so the recycle's subtraction never under-counts.
CountExact ==
  pc \in {"idle", "payload", "tag", "patch"} =>
    count = Dist(oldest, cur) * Slots + slot

\* A timestamp, once written, stays until its sector is erased: back-patching
\* "cannot corrupt an already-dated record" (history_store.h).
DatedStays ==
  [][\A s \in Sec, i \in Slot :
       tag[s][i] = "dated" /\ tag'[s][i] # "dated" => pc = "erase" /\ s = target]_vars

\* The store implements the bounded log of HistLog: the records a power-on
\* would find are only ever extended at the young end, and shortened only by
\* what lies outside the window, at most one sector at a time.
Abstract == INSTANCE HistLog WITH log <- Log, last <- appended, acked <- acked,
                                  Window <- Window, Chunk <- Slots
ImplementsLog == Abstract!Spec

=============================================================================

---------------------------- MODULE HistStoreInv ----------------------------
(***************************************************************************)
(* The inductive invariant of HistStore.  None of its properties is        *)
(* inductive.  That the next slot is virgin rests on where the frontier    *)
(* is, on which sector was prepared and what happened to it since, and,    *)
(* for back-patching, on how far the undated run reaches (WriteInv).  That *)
(* a power-on finds the records the running store serves rests on the      *)
(* sequence numbers of all sectors and on what lies in each (RingInv).     *)
(***************************************************************************)
EXTENDS HistStore

\* begin() has succeeded and RAM describes the log.
Running == pc \notin {"off", "disabled"} /\ job # "format"

\* Which job drives which step, and what a cold start finds in RAM.
JobMatches ==
  /\ pc \in {"off", "disabled", "idle"} => job = "none"
  /\ pc \in {"erase", "header"} => job \in {"format", "append", "service"}
  /\ pc \in {"payload", "tag"} => job = "append" /\ slot < Slots
  /\ job = "append" => appended > 0
  /\ pc = "patch" => job = "patch" /\ unkCount > 0
  /\ job = "format" => target = 0
  /\ pc \in {"off", "disabled"} \/ job = "format" =>
       pending = NoSec /\ prepared = NoSec /\ unkCount = 0

-----------------------------------------------------------------------------
(* Where the next write goes.                                              *)

\* Everything above the frontier is virgin (its timestamps, as long as back-
\* patching does not outrun the ring), and, as long as no write fails while
\* powered, so is the slot at the frontier until its record is written.
Frontier ==
  /\ Running =>
       \A i \in Slot :
         /\ i > slot => dat[cur][i] = Virgin
         /\ ClockSyncs /\ (i > slot \/ (i = slot /\ pc # "tag" /\ ~ RecordFaults)) =>
              CellVirgin(cur, i)
  /\ pc = "tag" => dat[cur][slot] # Virgin
  /\ pc = "tag" /\ ClockSyncs /\ ~ RecordFaults => tag[cur][slot] = "unknown"

\* A sector is armed, being prepared or prepared only while the current one is
\* full, and it is the next one.
Recycling ==
  Running =>
    /\ pending # NoSec => pending = Succ(cur) /\ slot = Slots /\ prepared = NoSec
    /\ prepared # NoSec => /\ prepared = Succ(cur) /\ slot = Slots
                           /\ \A i \in Slot : dat[prepared][i] = Virgin
                           /\ ClockSyncs => /\ unkCount > 0 => prepared # unkSec
                                            /\ \A i \in Slot : CellVirgin(prepared, i)
    /\ pc \in {"erase", "header"} => /\ target = Succ(cur) /\ slot = Slots
                                     /\ prepared = NoSec
                                     /\ job = "service" => pending = NoSec
                                     /\ ClockSyncs /\ unkCount > 0 => target # unkSec

Erased ==
  pc = "header" => hdr[target] = Virgin /\ \A i \in Slot : CellVirgin(target, i)

\* Slot i of sector s lies in the run from the first undated record of this
\* boot up to the frontier.
InRun(s, i) ==
  /\ Dist(unkSec, s) <= Dist(unkSec, cur)
  /\ s = cur => i < slot
  /\ s = unkSec => i >= unkSlot

UndatedRun ==
  ClockSyncs /\ Running /\ unkCount > 0 =>
    /\ \A s \in Sec, i \in Slot : InRun(s, i) => dat[s][i] # Virgin
    /\ cur = unkSec => unkSlot < slot
    /\ unkCount <= Dist(unkSec, cur) * Slots + slot - unkSlot

\* What patch_qh_seq has still to visit ends at or before the frontier.
PatchRange ==
  ClockSyncs /\ pc = "patch" /\ left > 0 =>
    /\ Dist(unkSec, target) <= Dist(unkSec, cur)
    /\ target = unkSec => at >= unkSlot
    /\ left <= (Dist(unkSec, cur) - Dist(unkSec, target)) * Slots + slot - at

WriteInv ==
  /\ TypeOK /\ JobMatches /\ Frontier /\ Recycling /\ Erased
  /\ UndatedRun /\ PatchRange

-----------------------------------------------------------------------------
(* What the flash holds.                                                   *)

\* The valid headers are those of c and of the sectors up to some distance
\* behind it, numbered down from c's.
ChainAt(c) ==
  /\ HdrValid(c)
  /\ \A s \in Sec : HdrValid(s) =>
       /\ hdr[s] = hdr[c] - Dist(s, c)
       /\ \A t \in Sec : Dist(t, c) <= Dist(s, c) => HdrValid(t)

\* The newest sector: the one prepared ahead of time, or else the current one.
Top == IF prepared # NoSec THEN prepared ELSE cur

NoHeader == \A s \in Sec : ~ HdrValid(s)

Chain ==
  /\ NoHeader \/ \E c \in Sec : ChainAt(c)
  /\ job = "format" => NoHeader
  /\ Running => ChainAt(Top) /\ HdrValid(cur) /\ hdr[cur] = seq

\* The sectors from the oldest to the current one, and no others, are valid,
\* except for an oldest one whose recycle has destroyed the header; the count
\* is theirs.
Served ==
  Running =>
    /\ \A s \in Sec : Dist(s, cur) <= Dist(oldest, cur) =>
         HdrValid(s) \/ (s = oldest /\ s = Succ(cur) /\ slot = Slots)
    /\ \A s \in Sec : HdrValid(s) /\ s # prepared => Dist(s, cur) <= Dist(oldest, cur)
    /\ oldest # prepared
    /\ count = Dist(oldest, cur) * Slots + slot

\* Records are serial numbers of append() calls; the latest call's is in flash
\* only once its payload is written.
Serials ==
  /\ \A s \in Sec, i \in Slot : dat[s][i] \in Torn .. appended
  /\ job = "append" /\ pc # "tag" => \A s \in Sec, i \in Slot : dat[s][i] < appended
  /\ pc = "tag" /\ Environment => dat[cur][slot] = appended

\* The last slot below the frontier was written to, which find_slot_ rests on.
SlotExact == Running /\ slot > 0 => ~ CellVirgin(cur, slot - 1)

\* Between a record and the frontier (c, n) lie no more slots than there were
\* append() calls after its own, up to call number last.
Fits(c, n, last) ==
  \A s \in Sec, i \in Slot :
    HdrValid(s) /\ dat[s][i] > 0 => dat[s][i] + Dist(s, c) * Slots + n - 1 - i <= last

\* The calls of append() that have returned, or whose slot is spent.
Done == IF job = "append" THEN appended - 1 ELSE appended

Spaced ==
  Environment =>
    IF Running THEN Fits(cur, slot, Done)
    ELSE \A c \in Sec, n \in 0 .. Slots :
           IsNewest(c) /\ IsFreeSlot(n, c) => Fits(c, n, appended)

RingInv == Chain /\ Served /\ Serials /\ LogOrder /\ SlotExact /\ Spaced

IInv == WriteInv /\ RingInv

=============================================================================

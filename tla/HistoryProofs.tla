--------------------------- MODULE HistoryProofs ----------------------------
(***************************************************************************)
(* Proofs about the way from quarter hours to the screen.                  *)
(*                                                                         *)
(* HistService, for any length of the interval and any number of restarts, *)
(* clock steps, profiles, readers and failing appends: the types, that the *)
(* undated records to be dated are exactly those of this boot, and that no *)
(* sample is in two records.  As long as appends succeed, that a restart   *)
(* and a new profile are marked at the next record; and, on a right clock  *)
(* and with a free lock, that dates are exact, estimates at most a quarter *)
(* hour off and no interval is missing.                                    *)
(*                                                                         *)
(* HistTab, for any set of ranges and any number of records: the tab shows *)
(* the range it names, is never blank without a reason and, as long as     *)
(* every record is dated, is as new as the live screen.                    *)
(*                                                                         *)
(* HourChart, for a ring of any length: the newest slot holds the minutes  *)
(* that came in, and the line is drawn through slots that hold a value,    *)
(* each at its own place, with no gap skipped.  drawHour folds the slots   *)
(* into runs one at a time; the proof says what the runs of the first n    *)
(* slots are (FoldLemmas).                                                 *)
(*                                                                         *)
(* HistChart, for any interval, outage limit and range: a bar is           *)
(* interrupted where records are missing, the bars add up to what the      *)
(* counters say and, unless a mark was lost with its record, no bar shows  *)
(* energy that was not paid for.  The history the meter keeps is described *)
(* first (dates go up, the last reading is in the last record or repeated  *)
(* after it); then the fold into points, bucket by bucket; then the bars,  *)
(* as sums over prefixes of these folds.                                   *)
(*                                                                         *)
(* The last section carries both over to the instances of MCHistory.       *)
(***************************************************************************)
EXTENDS MCHistory, FoldLemmas, SequenceTheorems, TLAPS

-----------------------------------------------------------------------------
(* HistService.                                                            *)

\* The records are in the past, and so is the one about to be appended.
BootsInv ==
  /\ \A i \in DOMAIN log : log[i].boot <= boots
  /\ pc = "closing" => draft.boot = boots

\* A time that is used is after 1970; the record being closed has no date while the
\* clock has not been taken over.
ClockInv ==
  /\ skew + steps >= 0
  /\ accTimeValid => synced
  /\ accQh >= 0
  /\ pc = "closing" => draft.qh = Unknown \/ draft.qh >= 0
  /\ pc = "closing" => (draft.qh = Unknown <=> ~ accTimeValid)

\* The undated run is a stretch of the log, at its end until the clock has been taken over.
RunInv ==
  /\ unkCount > 0 => unkFirst >= 1 /\ unkFirst + unkCount - 1 <= Len(log)
  /\ unkCount > 0 /\ ~ accTimeValid => unkFirst + unkCount - 1 = Len(log)
  /\ UndatedTracked

\* The samples of the interval come after those of every record.
SamplesInv ==
  /\ \A i \in DOMAIN log : log[i].last <= now
  /\ ticks = 0 => first = 0 /\ last = 0
  /\ ticks > 0 => 1 <= first /\ first <= last /\ last <= now
  /\ first # 0 => \A i \in DOMAIN log : log[i].last < first
  /\ pc = "closing" => draft.first = first /\ draft.last = last
  /\ SamplesOnce

\* The inductive invariant.
HsIInv == TypeOK /\ BootsInv /\ ClockInv /\ RunInv /\ SamplesInv

-----------------------------------------------------------------------------
\* The bounds, one by one.
LEMMA Bounds ==
  /\ Quarter \in Nat /\ Quarter >= 1 /\ FirstQh \in Nat /\ MaxSteps <= FirstQh
  /\ MaxTime \in Nat /\ MaxBoots \in Nat /\ MaxPosts \in Nat /\ MaxSteps \in Nat
BY QuarterAssumption, FirstQhAssumption, BoundsAssumption

\* time() is a quarter hour after 1970.
LEMMA ClockType ==
  ASSUME now \in Nat, skew \in Int, steps \in 0 .. MaxSteps, skew + steps >= 0
  PROVE  Clock \in Nat
<1>1. now \div Quarter \in Nat
  BY Bounds
<1> QED
  BY <1>1, Bounds DEF Clock

\* What append() does to the log.
LEMMA LogAppend ==
  ASSUME NEW s \in Seq(Record), NEW r \in Record
  PROVE  /\ Append(s, r) \in Seq(Record)
         /\ Len(s) \in Nat /\ Len(Append(s, r)) = Len(s) + 1
         /\ DOMAIN s = 1 .. Len(s) /\ DOMAIN Append(s, r) = 1 .. Len(s) + 1
         /\ \A i \in 1 .. Len(s) : Append(s, r)[i] = s[i]
         /\ Append(s, r)[Len(s) + 1] = r
BY AppendProperties, LenProperties

\* A record that gets a date keeps the rest.
LEMMA WithDate ==
  ASSUME NEW r \in Record, NEW q \in Int
  PROVE  [r EXCEPT !.qh = q] \in Record /\ [r EXCEPT !.qh = q].qh = q
         /\ [r EXCEPT !.qh = q].boot = r.boot
         /\ [r EXCEPT !.qh = q].first = r.first /\ [r EXCEPT !.qh = q].last = r.last
         /\ [r EXCEPT !.qh = q].flags = r.flags /\ [r EXCEPT !.qh = q].config = r.config
BY DEF Record

LEMMA Estimated ==
  ASSUME NEW r \in Record
  PROVE  [r EXCEPT !.est = TRUE] \in Record /\ [r EXCEPT !.est = TRUE].qh = r.qh
         /\ [r EXCEPT !.est = TRUE].boot = r.boot
         /\ [r EXCEPT !.est = TRUE].first = r.first /\ [r EXCEPT !.est = TRUE].last = r.last
         /\ [r EXCEPT !.est = TRUE].flags = r.flags /\ [r EXCEPT !.est = TRUE].config = r.config
         /\ [r EXCEPT !.est = TRUE].est
BY DEF Record

\* What back-dating does to the log.
LEMMA LogDated ==
  ASSUME TypeOK, Backpatch
  PROVE  /\ log' \in Seq(Record) /\ Len(log') = Len(log) /\ DOMAIN log = 1 .. Len(log)
         /\ DOMAIN log' = 1 .. Len(log) /\ Len(log) \in Nat
         /\ \A i \in 1 .. Len(log) :
              /\ log'[i].boot = log[i].boot
              /\ log'[i].first = log[i].first /\ log'[i].last = log[i].last
              /\ log'[i].flags = log[i].flags /\ log'[i].config = log[i].config
              /\ IF i \in unkFirst .. unkFirst + unkCount - 1 /\ log[i].qh = Unknown
                 THEN log'[i].qh = FirstDate + i - unkFirst /\ log'[i].est
                 ELSE log'[i] = log[i]
<1> DEFINE Hit(i) == i \in unkFirst .. unkFirst + unkCount - 1 /\ log[i].qh = Unknown
           New(i) == [log[i] EXCEPT !.qh = FirstDate + i - unkFirst, !.est = TRUE]
<1>1. /\ Len(log) \in Nat /\ DOMAIN log = 1 .. Len(log)
      /\ \A i \in 1 .. Len(log) : log[i] \in Record
  BY LenProperties, ElementOfSeq DEF TypeOK
<1>2. log' = [i \in 1 .. Len(log) |-> IF Hit(i) THEN New(i) ELSE log[i]]
  BY DEF Backpatch
<1>3. FirstDate \in Int /\ unkFirst \in Int
  BY <1>1 DEF TypeOK, FirstDate
<1>4. ASSUME NEW i \in 1 .. Len(log)
      PROVE  /\ New(i) \in Record /\ New(i).qh = FirstDate + i - unkFirst
             /\ New(i).boot = log[i].boot
             /\ New(i).first = log[i].first /\ New(i).last = log[i].last
             /\ New(i).flags = log[i].flags /\ New(i).config = log[i].config /\ New(i).est
  <2> DEFINE q == FirstDate + i - unkFirst
             d == [log[i] EXCEPT !.qh = q]
  <2>1. log[i] \in Record /\ q \in Int
    BY <1>1, <1>3
  <2>2. /\ d \in Record /\ d.qh = q /\ d.boot = log[i].boot
        /\ d.first = log[i].first /\ d.last = log[i].last
        /\ d.flags = log[i].flags /\ d.config = log[i].config
    <3> HIDE DEF q
    <3> QED
      BY <2>1, WithDate
  <2>3. New(i) = [d EXCEPT !.est = TRUE]
    OBVIOUS
  <2> HIDE DEF d
  <2>4. LET n == [d EXCEPT !.est = TRUE]
        IN /\ n \in Record /\ n.qh = d.qh /\ n.boot = d.boot
           /\ n.first = d.first /\ n.last = d.last
           /\ n.flags = d.flags /\ n.config = d.config /\ n.est
    BY <2>2, Estimated
  <2> QED
    BY <2>2, <2>3, <2>4
<1>5. log' \in [1 .. Len(log) -> Record]
  BY <1>1, <1>2, <1>4
<1>6. log' \in Seq(Record) /\ Len(log') = Len(log)
  BY <1>1, <1>5, SeqDef
<1>7. ASSUME NEW i \in 1 .. Len(log)
      PROVE  log'[i] = IF Hit(i) THEN New(i) ELSE log[i]
  BY <1>2
<1> QED
  BY <1>1, <1>4, <1>5, <1>6, <1>7

-----------------------------------------------------------------------------
(* The steps that write a record, and the others. *)

\* append() of the record of an interval.
LEMMA AppendStep ==
  ASSUME HsIInv, CloseEnd, log' = Append(log, draft), CountUndated
  PROVE  HsIInv'
<1> USE DEF TypeOK
<1>1. pc = "closing" /\ draft \in Record
  BY DEF CloseEnd, HsIInv
<1>2. /\ log' \in Seq(Record) /\ Len(log) \in Nat /\ Len(log') = Len(log) + 1
      /\ DOMAIN log = 1 .. Len(log) /\ DOMAIN log' = 1 .. Len(log) + 1
      /\ \A i \in 1 .. Len(log) : log'[i] = log[i]
      /\ log'[Len(log) + 1] = draft
  BY <1>1, LogAppend DEF HsIInv
<1>3. Clock \in Nat
  BY Bounds, ClockType DEF HsIInv, ClockInv
<1>4. /\ UNCHANGED <<world, served, boots, config, steps, raced>>
      /\ ticks' = 0 /\ first' = 0 /\ last' = 0 /\ pc' = "patch" /\ draft' = NoDraft
      /\ accTimeValid' = synced /\ accQh' = (IF synced THEN Clock ELSE accQh) /\ pending' = {}
  BY DEF CloseEnd, ResetAcc, Resume
<1>5. /\ draft.qh = Unknown => /\ unkCount' = unkCount + 1
                               /\ unkFirst' = IF unkCount = 0 THEN Len(log) + 1 ELSE unkFirst
      /\ draft.qh # Unknown => UNCHANGED <<unkFirst, unkCount>>
  BY <1>2 DEF CountUndated
<1>6. TypeOK'
  <2>1. unkFirst' \in 0 .. Len(log') /\ unkCount' \in 0 .. Len(log')
    BY <1>2, <1>5 DEF HsIInv
  <2>2. draft' \in Record
    BY <1>4 DEF Record, NoDraft, Unknown
  <2>3. accTimeValid' \in BOOLEAN /\ accQh' \in Int
    BY <1>3, <1>4 DEF HsIInv
  <2> QED
    BY <1>2, <1>4, <2>1, <2>2, <2>3 DEF HsIInv, world
<1>7. BootsInv'
  BY <1>1, <1>2, <1>4 DEF HsIInv, BootsInv
<1>8. ClockInv'
  BY <1>3, <1>4 DEF HsIInv, ClockInv, world
<1>9. RunInv'
  <2>1. CASE draft.qh = Unknown
    <3>1. ~ accTimeValid /\ draft.boot = boots
      BY <1>1, <2>1 DEF HsIInv, ClockInv, BootsInv
    <3>2. unkFirst' >= 1 /\ unkFirst' + unkCount' - 1 = Len(log')
      <4>1. unkCount \in Nat /\ (unkCount > 0 => unkFirst >= 1 /\ unkFirst + unkCount - 1 = Len(log))
        BY <1>2, <3>1 DEF HsIInv, RunInv
      <4>2. CASE unkCount = 0
        BY <1>2, <1>5, <2>1, <4>2
      <4>3. CASE unkCount > 0
        <5>1. unkFirst \in Nat
          BY <1>2 DEF HsIInv
        <5> QED
          BY <1>2, <1>5, <2>1, <4>1, <4>3, <5>1
      <4> QED
        BY <4>1, <4>2, <4>3
    <3>3. UndatedTracked'
      BY <1>2, <1>4, <1>5, <2>1, <3>1, <3>2 DEF HsIInv, RunInv, UndatedTracked
    <3> QED
      BY <1>2, <3>2, <3>3 DEF RunInv
  <2>2. CASE draft.qh # Unknown
    <3>1. UndatedTracked'
      BY <1>2, <1>4, <1>5, <2>2 DEF HsIInv, RunInv, UndatedTracked
    <3>2. synced => accTimeValid'
      BY <1>4
    <3>3. synced
      BY <1>1, <2>2 DEF HsIInv, ClockInv
    <3> QED
      BY <1>2, <1>5, <2>2, <3>1, <3>2, <3>3 DEF HsIInv, RunInv
  <2> QED
    BY <2>1, <2>2
<1>10. SamplesInv'
  BY <1>1, <1>2, <1>4 DEF HsIInv, SamplesInv, SamplesOnce, world
<1> QED
  BY <1>6, <1>7, <1>8, <1>9, <1>10 DEF HsIInv

\* A restart; the record that was being appended may be there.
LEMMA RestartStep ==
  ASSUME HsIInv, Restart
  PROVE  HsIInv'
<1>1. /\ boots' = boots + 1 /\ boots < MaxBoots /\ UNCHANGED <<now, skew, config, steps, raced>>
      /\ accTimeValid' = FALSE /\ accQh' = 0 /\ pending' = {"boot", "partial"}
      /\ unkFirst' = 0 /\ unkCount' = 0 /\ ticks' = 0 /\ first' = 0 /\ last' = 0
      /\ pc' = "loop" /\ draft' = NoDraft /\ served' = TRUE /\ reader' = FALSE
      /\ synced' \in BOOLEAN
  BY DEF Restart, Booted
<1>2. /\ log' \in Seq(Record) /\ Len(log') \in Nat /\ Len(log) \in Nat
      /\ DOMAIN log = 1 .. Len(log) /\ DOMAIN log' = 1 .. Len(log')
      /\ \A i \in 1 .. Len(log') :
           \/ i \in 1 .. Len(log) /\ log'[i] = log[i]
           \/ pc = "closing" /\ i = Len(log) + 1 /\ log'[i] = draft
  <2>1. log \in Seq(Record) /\ draft \in Record
    BY DEF HsIInv, TypeOK
  <2>2. CASE UNCHANGED log
    BY <2>1, <2>2, LenProperties
  <2>3. CASE pc = "closing" /\ log' = Append(log, draft)
    BY <2>1, <2>3, LogAppend
  <2> QED
    BY <2>2, <2>3 DEF Restart
<1>3. TypeOK'
  <2>1. draft' \in Record
    BY <1>1 DEF Record, NoDraft, Unknown
  <2>2. pending' \subseteq Flags
    BY <1>1 DEF Flags
  <2>3. boots' \in 0 .. MaxBoots
    BY <1>1, Bounds DEF HsIInv, TypeOK
  <2>4. unkFirst' \in 0 .. Len(log') /\ unkCount' \in 0 .. Len(log')
    <3>1. Len(log') \in Nat
      BY <1>2
    <3>2. unkFirst' = 0 /\ unkCount' = 0
      BY <1>1
    <3> QED
      BY <3>1, <3>2
  <2>5. log' \in Seq(Record)
    BY <1>2
  <2>6. /\ synced' \in BOOLEAN /\ reader' \in BOOLEAN /\ accTimeValid' \in BOOLEAN
        /\ served' \in BOOLEAN
    BY <1>1
  <2>7. /\ now' \in 0 .. MaxTime /\ skew' \in Int /\ config' \in 0 .. MaxPosts
        /\ steps' \in 0 .. MaxSteps /\ raced' \subseteq 1 .. MaxPosts
    BY <1>1 DEF HsIInv, TypeOK
  <2>8. /\ accQh' \in Int /\ ticks' \in Nat /\ first' \in Nat /\ last' \in Nat
        /\ pc' \in {"loop", "closing", "patch"}
    BY <1>1
  <2> QED
    BY <2>1, <2>2, <2>3, <2>4, <2>5, <2>6, <2>7, <2>8 DEF TypeOK
<1>4. ASSUME NEW i \in DOMAIN log' PROVE log'[i].boot \in Nat /\ log'[i].boot <= boots
  <2>1. log'[i] \in Record
    BY <1>2, ElementOfSeq
  <2>2. CASE i \in DOMAIN log /\ log'[i] = log[i]
    BY <2>1, <2>2 DEF HsIInv, BootsInv, Record
  <2>3. CASE pc = "closing" /\ log'[i] = draft
    BY <2>1, <2>3 DEF HsIInv, BootsInv, TypeOK, Record
  <2> QED
    BY <1>2, <2>2, <2>3
<1>5. boots \in Nat
  BY Bounds DEF HsIInv, TypeOK
<1>6. BootsInv' /\ ClockInv'
  BY <1>1, <1>4, <1>5 DEF HsIInv, BootsInv, ClockInv
<1>7. RunInv'
  <2>1. UndatedTracked'
    BY <1>1, <1>4, <1>5 DEF UndatedTracked
  <2> QED
    BY <1>1, <2>1 DEF RunInv
<1>8. SamplesInv'
  <2>1. SamplesInv /\ TypeOK
    BY DEF HsIInv
  <2>2. ASSUME NEW i \in DOMAIN log' PROVE log'[i].last <= now
    BY <1>2, <2>1 DEF SamplesInv, TypeOK
  <2>3. ASSUME NEW i \in DOMAIN log', NEW j \in DOMAIN log', i < j, log'[j].first # 0
        PROVE  log'[i].last < log'[j].first
    <3>1. i \in DOMAIN log /\ log'[i] = log[i]
      BY <1>2, <2>3
    <3>2. CASE j \in DOMAIN log /\ log'[j] = log[j]
      BY <2>1, <2>3, <3>1, <3>2 DEF SamplesInv, SamplesOnce
    <3>3. CASE pc = "closing" /\ log'[j] = draft
      BY <2>1, <2>3, <3>1, <3>3 DEF SamplesInv
    <3> QED
      BY <1>2, <3>2, <3>3
  <2> QED
    BY <1>1, <2>2, <2>3 DEF SamplesInv, SamplesOnce
<1> QED
  BY <1>3, <1>6, <1>7, <1>8 DEF HsIInv

\* Back-dating: what had no date has one, and nothing else changes.
LEMMA BackpatchStep ==
  ASSUME HsIInv, Backpatch
  PROVE  HsIInv'
<1>1. /\ pc = "patch" /\ synced /\ unkCount > 0 /\ unkCount' = 0
      /\ pc' = "loop" /\ served' = TRUE
      /\ UNCHANGED <<world, accTimeValid, accQh, pending, unkFirst, acc, draft,
                     boots, config, steps, raced>>
  BY DEF Backpatch
<1>2. TypeOK /\ RunInv /\ ClockInv /\ BootsInv /\ SamplesInv
  BY DEF HsIInv
<1>3. /\ log' \in Seq(Record) /\ Len(log') = Len(log) /\ DOMAIN log = 1 .. Len(log)
      /\ DOMAIN log' = 1 .. Len(log) /\ Len(log) \in Nat
      /\ \A i \in 1 .. Len(log) :
           /\ log'[i].boot = log[i].boot
           /\ log'[i].first = log[i].first /\ log'[i].last = log[i].last
           /\ IF i \in unkFirst .. unkFirst + unkCount - 1 /\ log[i].qh = Unknown
              THEN log'[i].qh = FirstDate + i - unkFirst ELSE log'[i] = log[i]
  BY <1>2, LogDated
<1>4. TypeOK'
  BY <1>1, <1>2, <1>3 DEF TypeOK, world, acc
<1>5. BootsInv' /\ ClockInv'
  BY <1>1, <1>2, <1>3 DEF BootsInv, ClockInv, world
<1>6. RunInv'
  <2>1. FirstDate \in Nat /\ unkFirst \in Nat
    BY <1>2, <1>3 DEF FirstDate, TypeOK, ClockInv
  <2>2. ASSUME NEW i \in 1 .. Len(log), log[i].boot = boots
        PROVE  log'[i].qh # Unknown
    BY <1>2, <1>3, <2>1, <2>2 DEF RunInv, UndatedTracked, Unknown
  <2>3. UndatedTracked'
    BY <1>1, <1>3, <2>1, <2>2 DEF UndatedTracked
  <2> QED
    BY <1>1, <2>3 DEF RunInv
<1>7. SamplesInv'
  BY <1>1, <1>2, <1>3 DEF SamplesInv, SamplesOnce, world, acc
<1> QED
  BY <1>4, <1>5, <1>6, <1>7 DEF HsIInv

\* The log and the run stay, and the clock is not given back.
LEMMA RunKept ==
  ASSUME RunInv, UNCHANGED <<log, boots, unkFirst, unkCount>>, ~ accTimeValid' => ~ accTimeValid
  PROVE  RunInv'
BY DEF RunInv, UndatedTracked

\* The log and the accumulator stay.
LEMMA SamplesKept ==
  ASSUME SamplesInv, UNCHANGED <<log, now, ticks, first, last>>,
         pc' = "closing" => draft'.first = first /\ draft'.last = last
  PROVE  SamplesInv'
BY DEF SamplesInv, SamplesOnce

\* Every step keeps the invariant.
LEMMA StepKeeps ==
  ASSUME HsIInv, [Next]_vars
  PROVE  HsIInv'
<1>0. TypeOK /\ BootsInv /\ ClockInv /\ RunInv /\ SamplesInv
  BY DEF HsIInv
<1> USE DEF TypeOK, world, ram, acc
<1>a. Clock \in Nat
  BY <1>0, Bounds, ClockType DEF ClockInv
<1>1. CASE Sample
  <2>a. /\ now' = now + 1 /\ now < MaxTime /\ ticks' = ticks + 1 /\ last' = now + 1
        /\ first' = (IF ticks = 0 THEN now + 1 ELSE first) /\ served' = FALSE
        /\ pc = "loop" /\ UNCHANGED <<skew, synced, reader, ram, pc, draft, log, boots, config, steps, raced>>
    BY <1>1 DEF Sample
  <2>1. TypeOK'
    <3>1. now' \in 0 .. MaxTime /\ ticks' \in Nat /\ first' \in Nat /\ last' \in Nat
      BY <1>0, <2>a, Bounds
    <3> QED
      BY <1>0, <2>a, <3>1
  <2>2. BootsInv' /\ ClockInv' /\ RunInv'
    BY <1>0, <1>1, RunKept DEF Sample, BootsInv, ClockInv
  <2>3. SamplesInv'
    <3>1. \A i \in DOMAIN log : log[i].last \in Nat
      <4>1. ASSUME NEW i \in DOMAIN log PROVE log[i] \in Record
        BY <1>0, LenProperties, ElementOfSeq
      <4> QED
        BY <4>1 DEF Record
    <3>2. now \in Nat /\ ticks \in Nat /\ first \in Nat /\ last \in Nat
      BY <1>0
    <3>3. \A i \in DOMAIN log' : log'[i].last <= now'
      BY <1>0, <2>a, <3>1, <3>2 DEF SamplesInv
    <3>4. ticks' > 0 /\ 1 <= first' /\ first' <= last' /\ last' <= now'
      <4>1. ticks > 0 => 1 <= first /\ first <= last /\ last <= now
        BY <1>0 DEF SamplesInv
      <4>2. /\ now' = now + 1 /\ ticks' = ticks + 1 /\ last' = now + 1
            /\ first' = (IF ticks = 0 THEN now + 1 ELSE first)
        BY <2>a
      <4> QED
        BY <3>2, <4>1, <4>2
    <3>5. \A i \in DOMAIN log' : log'[i].last < first'
      BY <1>0, <2>a, <3>1, <3>2 DEF SamplesInv
    <3>6. SamplesOnce'
      BY <1>0, <2>a DEF SamplesInv, SamplesOnce
    <3> QED
      BY <2>a, <3>3, <3>4, <3>5, <3>6 DEF SamplesInv
  <2> QED
    BY <2>1, <2>2, <2>3 DEF HsIInv
<1>2. CASE Sync
  <2>1. TypeOK' /\ BootsInv' /\ ClockInv' /\ RunInv' /\ SamplesInv'
    BY <1>0, <1>2, RunKept, SamplesKept DEF Sync, BootsInv, ClockInv
  <2> QED
    BY <2>1 DEF HsIInv
<1>3. CASE StepClock
  <2>1. TypeOK' /\ BootsInv' /\ ClockInv'
    BY <1>0, <1>3, Bounds DEF StepClock, BootsInv, ClockInv
  <2>2. RunInv' /\ SamplesInv'
    BY <1>0, <1>3, RunKept, SamplesKept DEF StepClock
  <2> QED
    BY <2>1, <2>2 DEF HsIInv
<1>4. CASE ReaderLocks \/ ReaderUnlocks
  <2>1. /\ reader' \in BOOLEAN
        /\ UNCHANGED <<now, skew, synced, ram, acc, pc, draft, served, log, boots, config, steps, raced>>
    BY <1>4 DEF ReaderLocks, ReaderUnlocks
  <2>2. TypeOK' /\ BootsInv' /\ ClockInv'
    BY <1>0, <2>1 DEF BootsInv, ClockInv
  <2>3. RunInv' /\ SamplesInv'
    BY <1>0, <2>1, RunKept, SamplesKept DEF SamplesInv
  <2> QED
    BY <2>2, <2>3 DEF HsIInv
<1>5. CASE PostMeter
  <2>1. pending' \subseteq Flags /\ config' \in 1 .. MaxPosts /\ raced' \subseteq 1 .. MaxPosts
    BY <1>0, <1>5, Bounds DEF PostMeter, ProfileFlags, Flags
  <2>2. TypeOK' /\ BootsInv' /\ ClockInv'
    BY <1>0, <1>5, <2>1 DEF PostMeter, BootsInv, ClockInv
  <2>3. RunInv' /\ SamplesInv'
    BY <1>0, <1>5, RunKept, SamplesKept DEF PostMeter, SamplesInv
  <2> QED
    BY <2>2, <2>3 DEF HsIInv
<1>6. CASE CloseStart
  <2>1. /\ pc' = "closing" /\ draft'.qh = CloseTag /\ draft'.boot = boots
        /\ draft'.first = first /\ draft'.last = last
        /\ UNCHANGED <<world, ram, acc, served, log, boots, config, steps, raced>>
    BY <1>6 DEF CloseStart
  <2>2. /\ CloseTag = Unknown <=> ~ accTimeValid
        /\ CloseTag \in Int /\ (CloseTag = Unknown \/ CloseTag >= 0)
    <3>1. accTimeValid => ClockClose
      BY <1>0, <1>6 DEF CloseStart, MustClose, FirstClose, CadenceClose, ClockInv
    <3>2. ClockClose => accTimeValid
      BY DEF ClockClose
    <3> QED
      BY <1>0, <3>1, <3>2 DEF CloseTag, ClockInv, Unknown
  <2>3. draft' \in Record
    <3>1. Carried \cup (IF CloseFull THEN {} ELSE {"partial"}) \in SUBSET Flags
      BY <1>0 DEF Carried, Flags
    <3>2. boots \in Nat /\ config \in Nat
      BY <1>0, Bounds
    <3> QED
      BY <1>0, <1>6, <2>2, <3>1, <3>2 DEF CloseStart, Record
  <2>4. TypeOK'
    BY <1>0, <2>1, <2>3
  <2>5. BootsInv' /\ ClockInv'
    BY <1>0, <2>1, <2>2 DEF BootsInv, ClockInv
  <2>6. RunInv' /\ SamplesInv'
    BY <1>0, <2>1, RunKept, SamplesKept
  <2> QED
    BY <2>4, <2>5, <2>6 DEF HsIInv
<1>7. CASE CloseEnd
  <2>1. CASE log' = Append(log, draft) /\ CountUndated
    BY <1>7, <2>1, AppendStep
  <2>2. CASE UNCHANGED <<log, unkFirst, unkCount>>
    <3>1. /\ UNCHANGED <<world, served, boots, config, steps, raced>>
          /\ ticks' = 0 /\ first' = 0 /\ last' = 0 /\ pc' = "patch" /\ draft' = NoDraft
          /\ accTimeValid' = synced /\ accQh' = (IF synced THEN Clock ELSE accQh) /\ pending' = {}
      BY <1>7 DEF CloseEnd, ResetAcc, Resume
    <3>2. TypeOK'
      <4>1. draft' \in Record
        BY <3>1 DEF Record, NoDraft, Unknown
      <4>2. accTimeValid' \in BOOLEAN /\ accQh' \in Int
        BY <1>0, <1>a, <3>1
      <4> QED
        BY <1>0, <2>2, <3>1, <4>1, <4>2
    <3>3. BootsInv' /\ ClockInv'
      BY <1>0, <1>a, <2>2, <3>1 DEF BootsInv, ClockInv
    <3>4. RunInv'
      BY <1>0, <2>2, <3>1, RunKept DEF ClockInv
    <3>5. SamplesInv'
      BY <1>0, <2>2, <3>1 DEF SamplesInv, SamplesOnce
    <3> QED
      BY <3>2, <3>3, <3>4, <3>5 DEF HsIInv
  <2> QED
    BY <1>7, <2>1, <2>2 DEF CloseEnd
<1>8. CASE PassOver
  <2>1. /\ pc = "loop" /\ pc' = "patch" /\ pending' \subseteq Flags
        /\ accTimeValid' = synced /\ accQh' = (IF synced THEN Clock ELSE accQh)
        /\ UNCHANGED <<world, unkFirst, unkCount, acc, draft, served, log, boots, config, steps, raced>>
    BY <1>0, <1>8 DEF PassOver, Resume, Flags
  <2>2. TypeOK'
    <3>1. accTimeValid' \in BOOLEAN /\ accQh' \in Int
      BY <1>0, <1>a, <2>1
    <3> QED
      BY <1>0, <2>1, <3>1
  <2>3. BootsInv' /\ ClockInv'
    BY <1>0, <1>a, <2>1 DEF BootsInv, ClockInv
  <2>4. RunInv' /\ SamplesInv'
    BY <1>0, <2>1, RunKept, SamplesKept DEF ClockInv
  <2> QED
    BY <2>2, <2>3, <2>4 DEF HsIInv
<1>9. CASE NoBackpatch
  <2>1. /\ pc' = "loop" /\ served' \in BOOLEAN
        /\ UNCHANGED <<world, ram, acc, draft, log, boots, config, steps, raced>>
    BY <1>0, <1>9 DEF NoBackpatch
  <2>2. TypeOK' /\ BootsInv' /\ ClockInv'
    BY <1>0, <2>1 DEF BootsInv, ClockInv
  <2>3. RunInv' /\ SamplesInv'
    BY <1>0, <2>1, RunKept, SamplesKept
  <2> QED
    BY <2>2, <2>3 DEF HsIInv
<1>10. CASE UNCHANGED vars
  <2>1. TypeOK' /\ BootsInv' /\ ClockInv'
    BY <1>0, <1>10 DEF vars, BootsInv, ClockInv
  <2>2. RunInv' /\ SamplesInv'
    BY <1>0, <1>10, RunKept, SamplesKept DEF vars, SamplesInv
  <2> QED
    BY <2>1, <2>2 DEF HsIInv
<1> QED
  BY <1>1, <1>2, <1>3, <1>4, <1>5, <1>6, <1>7, <1>8, <1>9, <1>10, RestartStep, BackpatchStep
  DEF Next

-----------------------------------------------------------------------------
(* The theorems. *)

\* A device that has just been put into service.
LEMMA InitKeeps == Init => HsIInv
<1> SUFFICES ASSUME Init PROVE HsIInv
  OBVIOUS
<1>1. /\ log = <<>> /\ log \in Seq(Record) /\ Len(log) = 0 /\ DOMAIN log = {}
      /\ draft \in Record
  BY DEF Init, Record, NoDraft, Unknown
<1>2. TypeOK
  <2>1. /\ now \in 0 .. MaxTime /\ boots \in 0 .. MaxBoots /\ config \in 0 .. MaxPosts
        /\ steps \in 0 .. MaxSteps /\ raced \subseteq 1 .. MaxPosts
    BY Bounds DEF Init
  <2>2. /\ synced \in BOOLEAN /\ reader \in BOOLEAN /\ accTimeValid \in BOOLEAN
        /\ served \in BOOLEAN
    BY DEF Init
  <2>3. /\ skew \in Int /\ accQh \in Int /\ ticks \in Nat /\ first \in Nat /\ last \in Nat
        /\ pc \in {"loop", "closing", "patch"} /\ pending \subseteq Flags
    BY DEF Init, Flags
  <2>4. unkFirst \in 0 .. Len(log) /\ unkCount \in 0 .. Len(log)
    BY <1>1 DEF Init
  <2> QED
    BY <1>1, <2>1, <2>2, <2>3, <2>4 DEF TypeOK
<1>3. BootsInv /\ ClockInv /\ RunInv
  BY <1>1 DEF Init, BootsInv, ClockInv, RunInv, UndatedTracked
<1>4. SamplesInv
  BY <1>1 DEF Init, SamplesInv, SamplesOnce
<1> QED
  BY <1>2, <1>3, <1>4 DEF HsIInv

\* hist_service_: the accumulator, the run and the records keep their types, whatever
\* the length of the interval and the number of restarts, steps and failures.
THEOREM HsTypeCorrect == Spec => []TypeOK
<1>1. HsIInv => TypeOK
  BY DEF HsIInv
<1> QED
  BY <1>1, InitKeeps, StepKeeps, PTL DEF Spec

\* hist_close_interval_, hist_backpatch_: the run that will be dated is exactly the set of
\* this boot's undated records, whatever failed, was stepped or held the lock.
THEOREM UndatedRunIsTracked == Spec => []UndatedTracked
<1>1. HsIInv => UndatedTracked
  BY DEF HsIInv, RunInv
<1> QED
  BY <1>1, InitKeeps, StepKeeps, PTL DEF Spec

\* hist_close_interval_: no sample is in two records, and the records are in the order of
\* their samples, restarts included.
THEOREM NoSampleTwice == Spec => []SamplesOnce
<1>1. HsIInv => SamplesOnce
  BY DEF HsIInv, SamplesInv
<1> QED
  BY <1>1, InitKeeps, StepKeeps, PTL DEF Spec

-----------------------------------------------------------------------------
(* HistService on a steady clock that no one is in the way of: the dates.  *)

\* The clock is right, and the loop finds hist_mutex_ free.
Calm == ~ Contention /\ MaxSteps = 0

Exact(i) == log[i].qh # Unknown /\ ~ log[i].est

\* The accumulator holds the latest samples, those of the quarter hour acc_qh_ once
\* the clock is taken over; a pass follows every sample.
AccInv ==
  /\ skew = 0 /\ ~ reader
  /\ ticks > 0 => last = now /\ ticks = now - first + 1
  /\ ~ accTimeValid => ticks <= Quarter
  /\ ~ accTimeValid /\ (pc = "patch" \/ (pc = "loop" /\ served)) => ticks < Quarter
  /\ pc = "closing" \/ (pc = "loop" /\ ~ served) => ticks > 0
  /\ pc = "patch" /\ synced => accTimeValid
  /\ accTimeValid /\ (pc = "patch" \/ (pc = "loop" /\ served)) => accQh = QhOf(now + 1)
  /\ accTimeValid /\ pc = "loop" /\ ~ served => accQh = QhOf(now)
  /\ accTimeValid /\ ticks > 0 => QhOf(first) = accQh

\* A record that is appended with a date is of a quarter hour that is over.
DraftInv ==
  pc = "closing" =>
    /\ ~ draft.est
    /\ draft.qh # Unknown => /\ draft.qh = accQh /\ draft.qh < QhOf(now + 1)
                             /\ QhOf(first) = draft.qh /\ QhOf(now) = draft.qh

DatesInv ==
  /\ \A i \in DOMAIN log : 1 <= log[i].first /\ log[i].first <= log[i].last
  /\ ExactDate /\ ExactDatesIncrease
  /\ \A i \in DOMAIN log : Exact(i) =>
       log[i].qh < QhOf(now + 1) /\ (accTimeValid => log[i].qh < accQh)

\* Whole intervals of samples are whole quarter hours.
LEMMA QhFacts ==
  /\ \A t \in Nat : QhOf(t) \in Int
  /\ \A s, t \in Nat : s <= t => QhOf(s) <= QhOf(t)
  /\ \A t \in Nat : QhOf(t + Quarter) = QhOf(t) + 1
  /\ \A t \in Nat : t >= 1 => QhOf(t) >= FirstQh
<1> DEFINE d(t) == (t - 1) \div Quarter
           m(t) == (t - 1) % Quarter
<1>1. ASSUME NEW t \in Nat
      PROVE  /\ d(t) \in Int /\ m(t) \in 0 .. Quarter - 1 /\ t - 1 = Quarter * d(t) + m(t)
             /\ QhOf(t) = FirstQh + d(t)
  BY Bounds DEF QhOf
<1>2. ASSUME NEW t \in Nat PROVE d(t + Quarter) = d(t) + 1
  BY Bounds
<1>3. ASSUME NEW t \in Nat, t >= 1 PROVE d(t) >= 0
  BY <1>3, Bounds
<1> HIDE DEF d, m
<1>4. ASSUME NEW s \in Nat, NEW t \in Nat, s <= t PROVE d(s) <= d(t)
  <2>1. /\ d(s) \in Int /\ m(s) \in 0 .. Quarter - 1 /\ s - 1 = Quarter * d(s) + m(s)
        /\ d(t) \in Int /\ m(t) \in 0 .. Quarter - 1 /\ t - 1 = Quarter * d(t) + m(t)
    BY <1>1
  <2>2. ASSUME d(t) < d(s) PROVE FALSE
    <3>1. d(s) - d(t) \in Nat /\ d(s) - d(t) >= 1
      BY <2>1, <2>2
    <3>2. Quarter * (d(s) - d(t)) >= Quarter
      BY <3>1, Bounds
    <3>3. Quarter * (d(s) - d(t)) = Quarter * d(s) - Quarter * d(t)
      BY <2>1, Bounds
    <3>4. Quarter * d(s) \in Int /\ Quarter * d(t) \in Int
      BY <2>1, Bounds
    <3> QED
      BY <1>4, <2>1, <3>2, <3>3, <3>4, Bounds
  <2> QED
    BY <2>1, <2>2
<1>5. \A t \in Nat : QhOf(t) \in Int /\ QhOf(t) = FirstQh + d(t)
  BY <1>1, Bounds
<1>6. \A s, t \in Nat : s <= t => QhOf(s) <= QhOf(t)
  BY <1>1, <1>4, <1>5, Bounds
<1>7. ASSUME NEW t \in Nat PROVE QhOf(t + Quarter) = QhOf(t) + 1
  <2>1. t + Quarter \in Nat
    BY Bounds
  <2> QED
    BY <1>1, <1>2, <1>5, <2>1, Bounds
<1>8. \A t \in Nat : t >= 1 => QhOf(t) >= FirstQh
  BY <1>1, <1>3, <1>5, Bounds
<1> QED
  BY <1>5, <1>6, <1>7, <1>8

LEMMA ClockIs == ASSUME now \in Nat, skew = 0 PROVE Clock = QhOf(now + 1)
BY Bounds DEF Clock, QhOf

\* Types, one by one.
LEMMA HsTypes ==
  ASSUME HsIInv
  PROVE  /\ now \in Nat /\ ticks \in Nat /\ first \in Nat /\ last \in Nat /\ accQh \in Int
         /\ accQh >= 0 /\ boots \in Nat /\ config \in Nat /\ unkFirst \in Nat /\ unkCount \in Nat
         /\ draft \in Record /\ log \in Seq(Record) /\ Len(log) \in Nat /\ DOMAIN log = 1 .. Len(log)
         /\ draft.qh \in Int /\ draft.first \in Nat /\ draft.last \in Nat /\ draft.config \in Nat
         /\ \A i \in DOMAIN log : /\ log[i].qh \in Int /\ log[i].first \in Nat /\ log[i].last \in Nat
                                  /\ log[i].boot \in Nat /\ log[i].config \in Nat
         /\ steps \in 0 .. MaxSteps /\ pc \in {"loop", "closing", "patch"}
<1>1. /\ draft \in Record /\ log \in Seq(Record) /\ Len(log) \in Nat /\ DOMAIN log = 1 .. Len(log)
      /\ \A i \in DOMAIN log : log[i] \in Record
  BY LenProperties, ElementOfSeq DEF HsIInv, TypeOK
<1>2. \A r \in Record : r.qh \in Int /\ r.first \in Nat /\ r.last \in Nat /\ r.boot \in Nat /\ r.config \in Nat
  BY DEF Record
<1>3. /\ now \in Nat /\ ticks \in Nat /\ first \in Nat /\ last \in Nat /\ accQh \in Int
      /\ boots \in Nat /\ config \in Nat /\ steps \in 0 .. MaxSteps
      /\ pc \in {"loop", "closing", "patch"}
  BY Bounds DEF HsIInv, TypeOK
<1>4. unkFirst \in Nat /\ unkCount \in Nat
  BY <1>1 DEF HsIInv, TypeOK
<1>5. accQh >= 0
  BY DEF HsIInv, ClockInv
<1> QED
  BY <1>1, <1>2, <1>3, <1>4, <1>5

TimeInv == AccInv /\ DraftInv /\ DatesInv

\* The quarter hour now, and the next sample's.
LEMMA QhNow ==
  ASSUME HsIInv
  PROVE  /\ QhOf(now) \in Int /\ QhOf(now + 1) \in Int /\ QhOf(first) \in Int
         /\ QhOf(now) <= QhOf(now + 1) /\ QhOf(now + 1) <= QhOf(now + 1 + 1)
         /\ QhOf(now + 1 + 1) \in Int
         /\ first <= now => QhOf(first) <= QhOf(now)
<1>0. now \in Nat /\ first \in Nat
  BY HsTypes
<1>1. now + 1 \in Nat /\ now + 1 + 1 \in Nat /\ now <= now + 1 /\ now + 1 <= now + 1 + 1
  BY <1>0
<1> QED
  BY <1>0, <1>1, QhFacts

\* A record that is appended keeps the dates in order.
LEMMA DatesAppended ==
  ASSUME HsIInv, TimeInv, pc = "closing", log' = Append(log, draft)
  PROVE  /\ \A i \in DOMAIN log' : 1 <= log'[i].first /\ log'[i].first <= log'[i].last
         /\ ExactDate' /\ ExactDatesIncrease'
         /\ \A i \in DOMAIN log' : Exact(i)' => log'[i].qh < QhOf(now + 1)
<1>1. /\ Len(log) \in Nat /\ Len(log') = Len(log) + 1
      /\ DOMAIN log = 1 .. Len(log) /\ DOMAIN log' = 1 .. Len(log) + 1
      /\ \A i \in 1 .. Len(log) : log'[i] = log[i]
      /\ log'[Len(log) + 1] = draft
  BY HsTypes, LogAppend
<1>2. draft.first = first /\ draft.last = now /\ 1 <= first /\ first <= now /\ ticks > 0
  BY HsTypes DEF HsIInv, SamplesInv, TimeInv, AccInv
<1>3. \A i \in DOMAIN log' : 1 <= log'[i].first /\ log'[i].first <= log'[i].last
  BY <1>1, <1>2 DEF TimeInv, DatesInv
<1>4. ExactDate'
  BY <1>1, <1>2 DEF ExactDate, TimeInv, DatesInv, DraftInv
<1>5. \A i \in DOMAIN log' : Exact(i)' => log'[i].qh < QhOf(now + 1)
  BY <1>1, <1>2 DEF Exact, TimeInv, DatesInv, DraftInv
<1>6. ASSUME NEW i \in 1 .. Len(log), log[i].qh # Unknown, ~ log[i].est, draft.qh # Unknown
      PROVE  log[i].qh < draft.qh
  BY <1>1, <1>6 DEF Exact, TimeInv, DatesInv, DraftInv, HsIInv, ClockInv
<1>7. ExactDatesIncrease'
  <2> SUFFICES ASSUME NEW i \in 1 .. Len(log) + 1, NEW j \in 1 .. Len(log) + 1, i < j,
                      log'[i].qh # Unknown, log'[j].qh # Unknown, ~ log'[i].est, ~ log'[j].est
               PROVE  log'[i].qh < log'[j].qh
    BY <1>1 DEF ExactDatesIncrease
  <2>1. i \in 1 .. Len(log) /\ log'[i] = log[i]
    BY <1>1
  <2>2. CASE j = Len(log) + 1
    BY <1>1, <1>6, <2>1, <2>2
  <2>3. CASE j \in 1 .. Len(log)
    BY <1>1, <2>1, <2>3 DEF TimeInv, DatesInv, ExactDatesIncrease
  <2> QED
    BY <1>1, <2>2, <2>3
<1> QED
  BY <1>3, <1>4, <1>5, <1>7

\* Dates stay while the log stays and time goes on.
LEMMA DatesKept ==
  ASSUME HsIInv, TimeInv, log' = log, QhOf(now + 1) <= QhOf(now' + 1), QhOf(now' + 1) \in Int,
         accTimeValid' => (accTimeValid /\ accQh' = accQh) \/ accQh' = QhOf(now' + 1)
  PROVE  DatesInv'
<1>1. \A i \in DOMAIN log : Exact(i) => log[i].qh < QhOf(now' + 1) /\ (accTimeValid' => log[i].qh < accQh')
  <2> SUFFICES ASSUME NEW i \in DOMAIN log, Exact(i)
               PROVE  log[i].qh < QhOf(now' + 1) /\ (accTimeValid' => log[i].qh < accQh')
    OBVIOUS
  <2>1. log[i].qh < QhOf(now + 1) /\ (accTimeValid => log[i].qh < accQh)
    BY DEF TimeInv, DatesInv
  <2>2. log[i].qh \in Int /\ QhOf(now + 1) \in Int
    BY HsTypes, QhNow
  <2>3. log[i].qh < QhOf(now' + 1)
    BY <2>1, <2>2
  <2> QED
    BY <2>1, <2>3
<1>2. \A i : Exact(i)' <=> Exact(i)
  BY DEF Exact
<1>3. ExactDate' /\ ExactDatesIncrease'
      /\ \A i \in DOMAIN log' : 1 <= log'[i].first /\ log'[i].first <= log'[i].last
  BY DEF TimeInv, DatesInv, ExactDate, ExactDatesIncrease
<1> QED
  BY <1>1, <1>2, <1>3 DEF DatesInv

LEMMA TimeStep ==
  ASSUME HsIInv, TimeInv, Calm, [Next]_vars
  PROVE  TimeInv'
<1>0. AccInv /\ DraftInv /\ DatesInv /\ ClockInv /\ Clock = QhOf(now + 1)
  BY HsTypes, ClockIs DEF TimeInv, HsIInv, AccInv
<1>a. QhOf(now) \in Int /\ QhOf(now + 1) \in Int /\ QhOf(now) <= QhOf(now + 1)
  BY QhNow
<1>1. CASE Sample
  <2>1. /\ pc = "loop" /\ served /\ now' = now + 1 /\ ticks' = ticks + 1 /\ last' = now + 1
        /\ first' = (IF ticks = 0 THEN now + 1 ELSE first) /\ served' = FALSE
        /\ skew' = skew /\ synced' = synced /\ reader' = reader /\ pc' = pc /\ draft' = draft
        /\ log' = log /\ accTimeValid' = accTimeValid /\ accQh' = accQh
    BY <1>1 DEF Sample, ram
  <2>2. AccInv'
    <3>1. ticks' > 0 => last' = now' /\ ticks' = now' - first' + 1
      <4>1. ticks > 0 => last = now /\ ticks = now - first + 1
        BY <1>0 DEF AccInv
      <4>2. now \in Nat /\ first \in Nat /\ ticks \in Nat
        BY HsTypes
      <4>3. /\ now' = now + 1 /\ ticks' = ticks + 1 /\ last' = now + 1
            /\ first' = IF ticks = 0 THEN now + 1 ELSE first
        BY <2>1
      <4> QED
        BY <4>1, <4>2, <4>3
    <3>2. ~ accTimeValid' => ticks' <= Quarter
      BY <1>0, <2>1, HsTypes, Bounds DEF AccInv
    <3>3. accTimeValid' => accQh' = QhOf(now') /\ QhOf(first') = accQh'
      <4>1. accTimeValid => accQh = QhOf(now + 1) /\ (ticks > 0 => QhOf(first) = accQh)
        BY <1>0, <2>1 DEF AccInv
      <4>2. ticks = 0 \/ ticks > 0
        BY HsTypes
      <4> QED
        BY <2>1, <4>1, <4>2
    <3>4. ticks' > 0
      BY <2>1, HsTypes
    <3> QED
      BY <1>0, <2>1, <3>1, <3>2, <3>3, <3>4 DEF AccInv
  <2>3. DraftInv'
    BY <2>1 DEF DraftInv
  <2>4. DatesInv'
    BY <2>1, QhNow, DatesKept
  <2> QED
    BY <2>2, <2>3, <2>4 DEF TimeInv
<1>2. CASE Sync
  <2>1. /\ pc = "loop" /\ now' = now /\ ticks' = ticks /\ last' = last /\ first' = first
        /\ served' = served /\ skew' = skew /\ reader' = reader /\ pc' = pc /\ draft' = draft
        /\ log' = log /\ accTimeValid' = accTimeValid /\ accQh' = accQh
    BY <1>2 DEF Sync, ram, acc
  <2>2. AccInv' /\ DraftInv'
    BY <1>0, <2>1 DEF AccInv, DraftInv
  <2> QED
    BY <1>a, <2>1, <2>2, DatesKept DEF TimeInv
<1>3. ~ StepClock /\ ~ ReaderLocks /\ ~ ReaderUnlocks
  BY <1>0, HsTypes DEF Calm, StepClock, ReaderLocks, ReaderUnlocks, AccInv
<1>4. CASE PostMeter \/ UNCHANGED vars
  <2>1. /\ now' = now /\ ticks' = ticks /\ last' = last /\ first' = first /\ synced' = synced
        /\ served' = served /\ skew' = skew /\ reader' = reader /\ pc' = pc /\ draft' = draft
        /\ log' = log /\ accTimeValid' = accTimeValid /\ accQh' = accQh
    BY <1>4 DEF PostMeter, world, acc, vars, ram
  <2>2. AccInv' /\ DraftInv'
    BY <1>0, <2>1 DEF AccInv, DraftInv
  <2> QED
    BY <1>a, <2>1, <2>2, DatesKept DEF TimeInv
<1>5. CASE Restart
  <2>1. /\ now' = now /\ ticks' = 0 /\ last' = 0 /\ first' = 0
        /\ served' = TRUE /\ skew' = skew /\ reader' = FALSE /\ pc' = "loop"
        /\ accTimeValid' = FALSE
    BY <1>5 DEF Restart, Booted
  <2>2. AccInv' /\ DraftInv'
    BY <1>0, <2>1, Bounds DEF AccInv, DraftInv
  <2>3. CASE log' = log
    BY <1>a, <2>1, <2>2, <2>3, DatesKept DEF TimeInv
  <2>4. CASE pc = "closing" /\ log' = Append(log, draft)
    BY <2>1, <2>2, <2>4, DatesAppended DEF TimeInv, DatesInv
  <2> QED
    BY <1>5, <2>3, <2>4 DEF Restart
<1>6. CASE CloseStart
  <2>1. /\ pc = "loop" /\ MustClose /\ pc' = "closing"
        /\ draft'.qh = CloseTag /\ draft'.est = FALSE
        /\ now' = now /\ ticks' = ticks /\ last' = last /\ first' = first /\ synced' = synced
        /\ served' = served /\ skew' = skew /\ reader' = reader
        /\ log' = log /\ accTimeValid' = accTimeValid /\ accQh' = accQh
    BY <1>6 DEF CloseStart, world, ram, acc
  <2>2. ticks > 0
    BY <1>0, <2>1, HsTypes, Bounds DEF MustClose, FirstClose, ClockClose, CadenceClose, AccInv
  <2>3. AccInv'
    BY <1>0, <2>1, <2>2 DEF AccInv
  <2>4. ASSUME CloseTag # Unknown
        PROVE  CloseTag = accQh /\ accQh < QhOf(now + 1) /\ QhOf(first) = accQh /\ QhOf(now) = accQh
    <3>1. ClockClose /\ CloseTag = accQh
      BY <2>4 DEF CloseTag
    <3>2. accTimeValid /\ accQh < QhOf(now + 1)
      BY <1>0, <1>a, <3>1, HsTypes DEF ClockClose
    <3> QED
      BY <1>0, <1>a, <2>1, <2>2, <3>1, <3>2, HsTypes DEF AccInv
  <2>5. DraftInv'
    BY <2>1, <2>4 DEF DraftInv
  <2> QED
    BY <1>a, <2>1, <2>3, <2>5, DatesKept DEF TimeInv
<1>7. CASE CloseEnd
  <2>1. /\ pc = "closing" /\ pc' = "patch" /\ ticks' = 0
        /\ now' = now /\ synced' = synced /\ skew' = skew /\ reader' = reader
        /\ accTimeValid' = synced /\ accQh' = IF synced THEN QhOf(now + 1) ELSE accQh
    BY <1>0, <1>7 DEF CloseEnd, ResetAcc, Resume, world
  <2>2. AccInv' /\ DraftInv'
    BY <1>0, <2>1, Bounds DEF AccInv, DraftInv
  <2>3. CASE log' = log
    BY <1>a, <2>1, <2>2, <2>3, DatesKept DEF TimeInv
  <2>4. CASE log' = Append(log, draft)
    BY <2>1, <2>2, <2>4, DatesAppended DEF TimeInv, DatesInv
  <2> QED
    BY <1>7, <2>3, <2>4 DEF CloseEnd
<1>8. CASE PassOver
  <2>1. /\ pc = "loop" /\ pc' = "patch" /\ ~ MustClose
        /\ now' = now /\ ticks' = ticks /\ last' = last /\ first' = first /\ synced' = synced
        /\ served' = served /\ skew' = skew /\ reader' = reader /\ log' = log
        /\ accTimeValid' = synced /\ accQh' = IF synced THEN QhOf(now + 1) ELSE accQh
    BY <1>0, <1>8 DEF PassOver, Resume, world, acc, AccInv
  <2>2. ASSUME synced, ticks > 0 PROVE QhOf(first) = QhOf(now + 1)
    <3>1. accTimeValid /\ ~ (QhOf(now + 1) > accQh)
      BY <1>0, <2>1, <2>2 DEF MustClose, FirstClose, ClockClose
    <3> QED
      BY <1>0, <1>a, <2>1, <2>2, <3>1, HsTypes DEF AccInv
  <2>3. ASSUME ~ synced PROVE ticks < Quarter
    BY <2>1, <2>3, HsTypes, Bounds DEF MustClose, CadenceClose
  <2>4. AccInv'
    BY <1>0, <2>1, <2>2, <2>3, HsTypes, Bounds DEF AccInv
  <2>5. DraftInv'
    BY <2>1 DEF DraftInv
  <2> QED
    BY <1>a, <2>1, <2>4, <2>5, DatesKept DEF TimeInv, ClockInv
<1>9. CASE NoBackpatch
  <2>1. /\ pc = "patch" /\ pc' = "loop" /\ served' = TRUE
        /\ now' = now /\ ticks' = ticks /\ last' = last /\ first' = first /\ synced' = synced
        /\ skew' = skew /\ reader' = reader /\ log' = log
        /\ accTimeValid' = accTimeValid /\ accQh' = accQh
    BY <1>0, <1>9 DEF NoBackpatch, world, acc, ram, AccInv
  <2>2. AccInv' /\ DraftInv'
    BY <1>0, <2>1 DEF AccInv, DraftInv
  <2> QED
    BY <1>a, <2>1, <2>2, DatesKept DEF TimeInv
<1>10. CASE Backpatch
  <2>1. /\ pc = "patch" /\ pc' = "loop" /\ served' = TRUE
        /\ now' = now /\ ticks' = ticks /\ last' = last /\ first' = first /\ synced' = synced
        /\ skew' = skew /\ reader' = reader
        /\ accTimeValid' = accTimeValid /\ accQh' = accQh
    BY <1>10 DEF Backpatch, world, acc
  <2>2. AccInv' /\ DraftInv'
    BY <1>0, <2>1 DEF AccInv, DraftInv
  <2>3. /\ DOMAIN log' = DOMAIN log
        /\ \A i \in DOMAIN log : /\ log'[i].first = log[i].first /\ log'[i].last = log[i].last
                                 /\ ~ log'[i].est => log'[i] = log[i]
    BY <1>10, LogDated DEF HsIInv
  <2>4. \A i \in DOMAIN log : Exact(i)' => Exact(i) /\ log'[i] = log[i]
    BY <2>3 DEF Exact
  <2>5. ExactDate'
    BY <1>0, <2>3 DEF DatesInv, ExactDate
  <2>6. ExactDatesIncrease'
    BY <1>0, <2>3 DEF DatesInv, ExactDatesIncrease
  <2>7. DatesInv'
    BY <1>0, <2>1, <2>3, <2>4, <2>5, <2>6 DEF DatesInv
  <2> QED
    BY <2>2, <2>7 DEF TimeInv
<1> QED
  BY <1>1, <1>2, <1>3, <1>4, <1>5, <1>6, <1>7, <1>8, <1>9, <1>10 DEF Next

-----------------------------------------------------------------------------
(* No sample is left out, if no append fails.                              *)

GapInv ==
  /\ \A i \in Pairs : log[i].boot = log[i + 1].boot => log[i + 1].first = log[i].last + 1
  /\ Len(log) > 0 /\ log[Len(log)].boot = boots =>
       log[Len(log)].last + 1 = IF ticks > 0 THEN first ELSE now + 1

\* A pair of records is a pair of positions.
LEMMA PairsAre ==
  ASSUME NEW s \in Seq(Record)
  PROVE  {i \in DOMAIN s : i + 1 \in DOMAIN s} = {i \in 1 .. Len(s) : i + 1 <= Len(s)}
BY LenProperties

\* The records stay the same but for their dates.
LEMMA GapsKept ==
  ASSUME GapInv, log \in Seq(Record), log' \in Seq(Record), Len(log') = Len(log),
         \A i \in 1 .. Len(log) : /\ log'[i].boot = log[i].boot
                                  /\ log'[i].first = log[i].first /\ log'[i].last = log[i].last,
         boots' = boots,
         (IF ticks' > 0 THEN first' ELSE now' + 1) = (IF ticks > 0 THEN first ELSE now + 1)
  PROVE  GapInv'
<1>0. Len(log) \in Nat
  BY LenProperties
<1>1. Pairs = {i \in 1 .. Len(log) : i + 1 <= Len(log)} /\ Pairs' = Pairs
  BY PairsAre DEF Pairs
<1>2. \A i \in Pairs : i \in 1 .. Len(log) /\ i + 1 \in 1 .. Len(log)
  BY <1>0, <1>1
<1>3. \A i \in Pairs : log'[i].boot = log'[i + 1].boot => log'[i + 1].first = log'[i].last + 1
  BY <1>2 DEF GapInv
<1>4. Len(log) > 0 => Len(log) \in 1 .. Len(log)
  BY <1>0
<1>5. Len(log) > 0 /\ log'[Len(log)].boot = boots =>
        log'[Len(log)].last + 1 = IF ticks' > 0 THEN first' ELSE now' + 1
  BY <1>4 DEF GapInv
<1> QED
  BY <1>1, <1>3, <1>5 DEF GapInv

LEMMA GapsAppended ==
  ASSUME HsIInv, TimeInv, GapInv, pc = "closing", log' = Append(log, draft)
  PROVE  /\ \A i \in Pairs' : log'[i].boot = log'[i + 1].boot => log'[i + 1].first = log'[i].last + 1
         /\ Len(log') = Len(log) + 1 /\ log'[Len(log')] = draft /\ draft.boot = boots
         /\ draft.first = first /\ draft.last = now /\ ticks > 0
<1>1. /\ Len(log) \in Nat /\ Len(log') = Len(log) + 1 /\ log' \in Seq(Record)
      /\ \A i \in 1 .. Len(log) : log'[i] = log[i]
      /\ log'[Len(log) + 1] = draft
  BY HsTypes, LogAppend
<1>2. draft.first = first /\ draft.last = now /\ ticks > 0 /\ draft.boot = boots
  BY HsTypes DEF HsIInv, SamplesInv, BootsInv, TimeInv, AccInv
<1>3. Pairs = {i \in 1 .. Len(log) : i + 1 <= Len(log)}
  BY HsTypes, PairsAre DEF Pairs
<1>4. Pairs' = {i \in 1 .. Len(log) + 1 : i + 1 <= Len(log) + 1}
  BY <1>1, PairsAre DEF Pairs
<1>5. ASSUME NEW i \in Pairs', log'[i].boot = log'[i + 1].boot
      PROVE  log'[i + 1].first = log'[i].last + 1
  <2>1. i \in 1 .. Len(log) /\ log'[i] = log[i]
    BY <1>1, <1>4
  <2>2. CASE i + 1 <= Len(log)
    <3>1. i \in Pairs /\ i + 1 \in 1 .. Len(log)
      BY <1>1, <1>3, <2>1, <2>2
    <3> QED
      BY <1>1, <1>5, <2>1, <3>1 DEF GapInv
  <2>3. CASE i = Len(log)
    <3>1. log'[i + 1] = draft /\ Len(log) > 0
      BY <1>1, <2>1, <2>3
    <3> QED
      BY <1>2, <1>5, <2>1, <2>3, <3>1 DEF GapInv
  <2> QED
    BY <1>1, <2>1, <2>2, <2>3
<1> QED
  BY <1>1, <1>2, <1>5

LEMMA GapStep ==
  ASSUME HsIInv, TimeInv, GapInv, Calm, ~ Faults, [Next]_vars
  PROVE  GapInv'
<1>0. log \in Seq(Record) /\ now \in Nat /\ ticks \in Nat /\ first \in Nat /\ AccInv
  BY HsTypes DEF TimeInv
<1>1. CASE Sample
  <2>1. /\ now' = now + 1 /\ ticks' = ticks + 1 /\ log' = log /\ boots' = boots
        /\ first' = IF ticks = 0 THEN now + 1 ELSE first
    BY <1>1 DEF Sample
  <2>2. (IF ticks' > 0 THEN first' ELSE now' + 1) = (IF ticks > 0 THEN first ELSE now + 1)
    BY <1>0, <2>1
  <2> QED
    BY <1>0, <2>1, <2>2, GapsKept
<1>2. CASE Sync \/ PostMeter \/ CloseStart \/ PassOver \/ NoBackpatch \/ UNCHANGED vars
  <2>1. now' = now /\ ticks' = ticks /\ first' = first /\ log' = log /\ boots' = boots
    BY <1>2 DEF Sync, PostMeter, CloseStart, PassOver, NoBackpatch, vars, world, acc
  <2> QED
    BY <1>0, <2>1, GapsKept
<1>3. ~ StepClock /\ ~ ReaderLocks /\ ~ ReaderUnlocks
  BY <1>0, HsTypes DEF Calm, StepClock, ReaderLocks, ReaderUnlocks, AccInv
<1>4. CASE Restart
  <2>1. boots' = boots + 1 /\ boots \in Nat
    BY <1>4, HsTypes DEF Restart
  <2>2. \A i \in 1 .. Len(log) : log[i].boot <= boots /\ log[i].boot \in Nat
    BY HsTypes DEF HsIInv, BootsInv
  <2>3. CASE log' = log
    <3>1. Len(log) > 0 => Len(log) \in 1 .. Len(log)
      BY HsTypes
    <3>2. Len(log) > 0 => log[Len(log)].boot # boots'
      BY <2>1, <2>2, <3>1
    <3> QED
      BY <2>3, <3>2 DEF GapInv, Pairs
  <2>4. CASE pc = "closing" /\ log' = Append(log, draft)
    <3>1. log'[Len(log')].boot # boots'
      BY <2>1, <2>4, GapsAppended
    <3> QED
      BY <2>4, <3>1, GapsAppended DEF GapInv
  <2> QED
    BY <1>4, <2>3, <2>4 DEF Restart
<1>5. CASE CloseEnd
  <2>1. /\ pc = "closing" /\ log' = Append(log, draft) /\ ticks' = 0 /\ now' = now /\ boots' = boots
    BY <1>5 DEF CloseEnd, ResetAcc, world
  <2>2. /\ \A i \in Pairs' : log'[i].boot = log'[i + 1].boot => log'[i + 1].first = log'[i].last + 1
        /\ log'[Len(log')] = draft /\ draft.last = now
    BY <2>1, GapsAppended
  <2>3. log'[Len(log')].last + 1 = IF ticks' > 0 THEN first' ELSE now' + 1
    BY <2>1, <2>2
  <2> QED
    BY <2>2, <2>3 DEF GapInv
<1>6. CASE Backpatch
  <2>1. now' = now /\ ticks' = ticks /\ first' = first /\ boots' = boots
    BY <1>6 DEF Backpatch, world, acc
  <2>2. /\ log' \in Seq(Record) /\ Len(log') = Len(log)
        /\ \A i \in 1 .. Len(log) : /\ log'[i].boot = log[i].boot
                                    /\ log'[i].first = log[i].first /\ log'[i].last = log[i].last
    BY <1>6, LogDated DEF HsIInv
  <2> QED
    BY <1>0, <2>1, <2>2, GapsKept
<1> QED
  BY <1>1, <1>2, <1>3, <1>4, <1>5, <1>6 DEF Next

\* Exact dates of neighbouring samples are at most one apart.
LEMMA HolesNone ==
  ASSUME HsIInv, TimeInv, GapInv
  PROVE  NoHoles
<1> SUFFICES ASSUME NEW i \in Pairs, log[i].boot = log[i + 1].boot,
                    log[i].qh # Unknown, log[i + 1].qh # Unknown,
                    ~ log[i].est, ~ log[i + 1].est
             PROVE  log[i + 1].qh = log[i].qh + 1
  BY DEF NoHoles
<1>1. i \in DOMAIN log /\ i + 1 \in DOMAIN log /\ i \in Nat
  BY HsTypes DEF Pairs
<1>2. /\ log[i].qh = QhOf(log[i].last) /\ log[i + 1].qh = QhOf(log[i].last + 1)
      /\ log[i].qh < log[i + 1].qh
  BY <1>1 DEF TimeInv, DatesInv, ExactDate, ExactDatesIncrease, GapInv
<1> DEFINE t == log[i].last
<1>3. t \in Nat
  BY <1>1, HsTypes
<1> HIDE DEF t
<1>4. t + 1 \in Nat /\ t + Quarter \in Nat /\ t + 1 <= t + Quarter
  BY <1>3, Bounds
<1>5. QhOf(t + 1) <= QhOf(t) + 1 /\ QhOf(t) \in Int /\ QhOf(t + 1) \in Int
  BY <1>3, <1>4, QhFacts
<1> QED
  BY <1>2, <1>5 DEF t

-----------------------------------------------------------------------------
(* The dates that hist_backpatch_ gives.                                   *)

\* The last record of the undated run.
Top == unkFirst + unkCount - 1

\* The records of the run follow each other a quarter hour apart, the last one may be
\* shorter; the run is dated in the pass that takes the clock over.
EstInv ==
  /\ EstimateClose
  /\ accTimeValid /\ unkCount > 0 => pc = "patch" /\ ticks = 0
  /\ pc = "closing" /\ draft.qh = Unknown => synced \/ ticks = Quarter
  /\ unkCount > 0 =>
       /\ Top = Len(log) /\ log[Top].last < log[Top].first + Quarter
       /\ ~ accTimeValid => log[Top].last + 1 = log[Top].first + Quarter
       /\ \A i \in unkFirst .. Top : QhOf(log[i].first) + Top - i = QhOf(log[Top].first)

\* The log and the run stay.
LEMMA EstKept ==
  ASSUME EstInv, UNCHANGED <<log, unkFirst, unkCount>>,
         accTimeValid' /\ unkCount > 0 => pc' = "patch" /\ ticks' = 0,
         pc' = "closing" /\ draft'.qh = Unknown => synced' \/ ticks' = Quarter,
         ~ accTimeValid' /\ unkCount > 0 => ~ accTimeValid
  PROVE  EstInv'
<1>1. Top' = Top /\ EstimateClose'
  BY DEF Top, EstInv, EstimateClose
<1> QED
  BY <1>1 DEF EstInv

\* hist_backpatch_: every record of the run gets the quarter hour it began in or the
\* one before.
LEMMA RunDated ==
  ASSUME HsIInv, TimeInv, GapInv, EstInv, Backpatch, NEW i \in unkFirst .. Top
  PROVE  QhOf(log[i].first) - (FirstDate + i - unkFirst) \in -1 .. 1
<1> DEFINE n == unkCount
           f == QhOf(log[i].first)
           g == QhOf(log[Top].first)
           b == QhOf(log[unkFirst].first)
<1>1. pc = "patch" /\ synced /\ n > 0
  BY DEF Backpatch
<1>2. accTimeValid /\ ticks = 0 /\ accQh = QhOf(now + 1)
  BY <1>1 DEF TimeInv, AccInv, EstInv
<1>3. /\ n \in Nat /\ unkFirst \in Nat /\ unkFirst >= 1 /\ Top = Len(log) /\ Top \in Nat
      /\ i \in Nat /\ i \in 1 .. Len(log) /\ unkFirst <= i /\ i <= Top
      /\ Top \in 1 .. Len(log) /\ unkFirst \in 1 .. Len(log) /\ unkFirst \in unkFirst .. Top
  <2>1. n \in Nat /\ unkFirst \in Nat /\ Len(log) \in Nat
    BY HsTypes
  <2>2. Top = Len(log) /\ unkFirst >= 1
    BY <1>1 DEF EstInv, HsIInv, RunInv
  <2>3. Top = unkFirst + n - 1
    BY DEF Top
  <2> QED
    BY <1>1, <2>1, <2>2, <2>3
<1>4. log[Top].boot = boots
  <2>1. UndatedTracked /\ DOMAIN log = 1 .. Len(log)
    BY HsTypes DEF HsIInv, RunInv
  <2>2. Top \in DOMAIN log /\ Top \in unkFirst .. Top
    BY <1>3, <2>1
  <2> QED
    BY <2>1, <2>2 DEF UndatedTracked, Top
<1>5. /\ log[Top].last = now /\ now + 1 <= log[Top].first + Quarter
      /\ log[Top].first <= now /\ log[Top].first \in Nat /\ now \in Nat
      /\ log[unkFirst].first \in Nat /\ log[unkFirst].first >= 1 /\ log[i].first \in Nat
  <2>0. /\ i \in DOMAIN log /\ Top \in DOMAIN log /\ unkFirst \in DOMAIN log /\ Len(log) > 0
    BY <1>3, HsTypes
  <2>1. /\ log[Top].last \in Nat /\ log[Top].first \in Nat /\ now \in Nat
        /\ log[unkFirst].first \in Nat /\ log[i].first \in Nat
    BY <2>0, HsTypes
  <2>2. log[Top].last + 1 = now + 1
    BY <1>2, <1>3, <1>4, <2>0 DEF GapInv
  <2>3. log[Top].last < log[Top].first + Quarter
    BY <1>1 DEF EstInv
  <2>4. log[Top].first <= log[Top].last /\ log[unkFirst].first >= 1
    BY <2>0 DEF TimeInv, DatesInv
  <2> DEFINE x == log[Top].first
             y == log[Top].last
  <2>5. y = now /\ now + 1 <= x + Quarter /\ x <= now
    <3> HIDE DEF x, y
    <3>1. /\ x \in Nat /\ y \in Nat /\ now \in Nat /\ y + 1 = now + 1
          /\ y < x + Quarter /\ x <= y
      BY <2>1, <2>2, <2>3, <2>4 DEF x, y
    <3> QED
      BY <3>1, Bounds
  <2> QED
    BY <2>1, <2>4, <2>5
<1>6. f \in Int /\ g \in Int /\ b \in Int /\ accQh \in Nat
  <2>1. f \in Int /\ g \in Int /\ b \in Int
    BY <1>5, QhFacts
  <2>2. accQh \in Nat
    BY HsTypes
  <2> QED
    BY <2>1, <2>2
<1>7. g <= accQh /\ accQh <= g + 1
  <2>1. now + 1 \in Nat /\ log[Top].first + Quarter \in Nat /\ log[Top].first <= now + 1
    BY <1>5, Bounds
  <2> QED
    BY <1>2, <1>5, <2>1, QhFacts
<1>8. f + Top - i = g /\ b + Top - unkFirst = g
  BY <1>1, <1>3 DEF EstInv
<1>9. b >= 0
  <2>1. b >= FirstQh
    BY <1>5, QhFacts
  <2> QED
    BY <1>6, <2>1, Bounds
<1>10. Top = unkFirst + n - 1
  BY DEF Top
<1>11. FirstDate = IF accQh > n THEN accQh - n ELSE 0
  BY DEF FirstDate
<1> HIDE DEF f, g, b, n, Top
<1>12. FirstDate - g + n - 1 \in -1 .. 1
  BY <1>3, <1>6, <1>7, <1>8, <1>9, <1>10, <1>11
<1>13. FirstDate \in Int
  BY <1>3, <1>6, <1>11
<1> QED
  BY <1>3, <1>6, <1>8, <1>10, <1>12, <1>13 DEF f

\* A record that is appended without a date begins a quarter hour after the one before.
LEMMA Undated ==
  ASSUME HsIInv, TimeInv, GapInv, EstInv, CloseEnd, log' = Append(log, draft), CountUndated,
         draft.qh = Unknown
  PROVE  EstInv'
<1>1. /\ pc = "closing" /\ pc' = "patch" /\ ticks' = 0 /\ draft' = NoDraft
      /\ accTimeValid' = synced /\ synced' = synced
  BY DEF CloseEnd, ResetAcc, Resume, world
<1>2. /\ Len(log) \in Nat /\ Len(log') = Len(log) + 1 /\ log' \in Seq(Record)
      /\ DOMAIN log = 1 .. Len(log) /\ DOMAIN log' = 1 .. Len(log) + 1
      /\ \A i \in 1 .. Len(log) : log'[i] = log[i]
      /\ log'[Len(log) + 1] = draft
  BY HsTypes, LogAppend
<1>3. /\ unkCount' = unkCount + 1 /\ unkFirst' = IF unkCount = 0 THEN Len(log) + 1 ELSE unkFirst
      /\ unkCount \in Nat /\ unkFirst \in Nat
  BY <1>2, HsTypes DEF CountUndated
<1>4. ~ accTimeValid /\ ~ draft.est
  BY <1>1 DEF HsIInv, ClockInv, TimeInv, DraftInv
<1>5. unkCount > 0 => Top = Len(log) /\ unkFirst + unkCount - 1 = Len(log) /\ unkFirst >= 1
  BY DEF EstInv, Top, HsIInv, RunInv
<1>6. Top' = Len(log) + 1
  <2>1. Top' = unkFirst' + unkCount' - 1
    BY DEF Top
  <2> QED
    BY <1>2, <1>3, <1>5, <2>1
<1>7. /\ draft.first = first /\ draft.last = now /\ ticks > 0 /\ ticks <= Quarter
      /\ ticks = now - first + 1 /\ first \in Nat /\ now \in Nat
      /\ ~ synced => ticks = Quarter
  BY <1>1, <1>4, HsTypes DEF HsIInv, SamplesInv, TimeInv, AccInv, EstInv
<1>8. /\ log'[Top'] = draft /\ log'[Top'].last < log'[Top'].first + Quarter
      /\ ~ accTimeValid' => log'[Top'].last + 1 = log'[Top'].first + Quarter
  <2>1. draft.last < draft.first + Quarter /\ (~ synced => draft.last + 1 = draft.first + Quarter)
    BY <1>7, Bounds
  <2> QED
    BY <1>1, <1>2, <1>6, <2>1
<1>9. ASSUME NEW i \in unkFirst' .. Top'
      PROVE  QhOf(log'[i].first) + Top' - i = QhOf(log'[Top'].first)
  <2>1. QhOf(first) \in Int
    BY QhNow
  <2>2. CASE i = Top'
    BY <1>6, <1>7, <1>8, <2>1, <2>2, <1>2
  <2>3. CASE i # Top'
    <3>1. /\ unkCount > 0 /\ i \in unkFirst .. Top /\ i \in 1 .. Len(log) /\ i \in Nat
          /\ Top = Len(log) /\ Top \in 1 .. Len(log) /\ Top \in Nat /\ Len(log) > 0
      BY <1>2, <1>3, <1>5, <1>6, <2>3
    <3>2. log[Top].boot = boots
      <4>1. UndatedTracked
        BY DEF HsIInv, RunInv
      <4>2. Top \in DOMAIN log /\ Top \in unkFirst .. Top
        BY <1>2, <1>3, <1>5, <3>1
      <4> QED
        BY <4>1, <4>2 DEF UndatedTracked, Top
    <3>3. log[Top].last + 1 = first
      BY <1>7, <3>1, <3>2 DEF GapInv
    <3>4. first = log[Top].first + Quarter /\ log[Top].first \in Nat /\ log[i].first \in Nat
      BY <1>2, <1>4, <3>1, <3>3, HsTypes DEF EstInv
    <3>5. QhOf(first) = QhOf(log[Top].first) + 1
      BY <3>4, QhFacts
    <3>6. QhOf(log[i].first) + Top - i = QhOf(log[Top].first)
      BY <3>1 DEF EstInv
    <3>7. QhOf(log[i].first) \in Int /\ QhOf(log[Top].first) \in Int
      BY <3>4, QhFacts
    <3>8. log'[i] = log[i] /\ log'[Top'].first = first /\ Top' = Top + 1
      BY <1>2, <1>6, <1>7, <1>8, <3>1
    <3>9. QhOf(log'[i].first) = QhOf(log[i].first) /\ QhOf(log'[Top'].first) = QhOf(first)
      BY <3>8
    <3> HIDE DEF Top
    <3>10. Top' - i = Top - i + 1
      BY <3>1, <3>8
    <3> QED
      BY ONLY <3>1, <3>5, <3>6, <3>7, <3>9, <3>10
  <2> QED
    BY <2>2, <2>3
<1>10. EstimateClose'
  BY <1>2, <1>4 DEF EstInv, EstimateClose
<1> QED
  BY <1>1, <1>2, <1>6, <1>8, <1>9, <1>10 DEF EstInv

LEMMA EstStep ==
  ASSUME HsIInv, TimeInv, GapInv, EstInv, Calm, ~ Faults, [Next]_vars
  PROVE  EstInv'
<1>0. AccInv /\ DraftInv /\ ClockInv /\ unkCount \in Nat /\ ticks \in Nat
  BY HsTypes DEF TimeInv, HsIInv
<1>1. CASE Sample
  <2>1. /\ pc = "loop" /\ log' = log /\ unkFirst' = unkFirst /\ unkCount' = unkCount /\ pc' = pc
        /\ accTimeValid' = accTimeValid
    BY <1>1 DEF Sample, ram
  <2> QED
    BY <2>1, EstKept DEF EstInv
<1>2. CASE Sync \/ PostMeter \/ UNCHANGED vars
  <2>1. /\ log' = log /\ unkFirst' = unkFirst /\ unkCount' = unkCount /\ pc' = pc /\ ticks' = ticks
        /\ accTimeValid' = accTimeValid /\ draft' = draft /\ (synced' = synced \/ synced')
    BY <1>2 DEF Sync, PostMeter, vars, world, ram, acc
  <2> QED
    BY <2>1, EstKept DEF EstInv
<1>3. ~ StepClock /\ ~ ReaderLocks /\ ~ ReaderUnlocks
  BY <1>0, HsTypes DEF Calm, StepClock, ReaderLocks, ReaderUnlocks, AccInv
<1>4. CASE Restart
  <2>1. unkCount' = 0 /\ pc' = "loop"
    BY <1>4 DEF Restart, Booted
  <2>2. EstimateClose'
    <3>1. CASE log' = log
      BY <3>1 DEF EstInv, EstimateClose
    <3>2. CASE pc = "closing" /\ log' = Append(log, draft)
      <4>1. /\ DOMAIN log = 1 .. Len(log) /\ DOMAIN log' = 1 .. Len(log) + 1
            /\ \A i \in 1 .. Len(log) : log'[i] = log[i]
            /\ log'[Len(log) + 1] = draft /\ Len(log) \in Nat
        BY <3>2, HsTypes, LogAppend
      <4>2. ~ draft.est
        BY <1>0, <3>2 DEF DraftInv
      <4> QED
        BY <4>1, <4>2 DEF EstInv, EstimateClose
    <3> QED
      BY <1>4, <3>1, <3>2 DEF Restart
  <2> QED
    BY <2>1, <2>2 DEF EstInv
<1>5. CASE CloseStart
  <2>1. /\ pc = "loop" /\ MustClose /\ draft'.qh = CloseTag
        /\ log' = log /\ unkFirst' = unkFirst /\ unkCount' = unkCount /\ ticks' = ticks
        /\ accTimeValid' = accTimeValid /\ synced' = synced
    BY <1>5 DEF CloseStart, world, ram, acc
  <2>2. ASSUME CloseTag = Unknown, ~ synced PROVE ticks = Quarter
    <3>1. ~ accTimeValid /\ ticks >= Quarter
      BY <1>0, <2>1, <2>2 DEF MustClose, FirstClose, ClockClose, CadenceClose, ClockInv
    <3>2. ticks <= Quarter
      BY <1>0, <3>1 DEF AccInv
    <3> QED
      BY <1>0, <3>1, <3>2, Bounds
  <2> QED
    BY <2>1, <2>2, EstKept DEF EstInv
<1>6. CASE CloseEnd
  <2>1. pc = "closing" /\ log' = Append(log, draft) /\ CountUndated
    BY <1>6 DEF CloseEnd
  <2>2. CASE draft.qh = Unknown
    BY <1>6, <2>1, <2>2, Undated
  <2>3. CASE draft.qh # Unknown
    <3>1. accTimeValid
      BY <1>0, <2>1, <2>3 DEF ClockInv
    <3>2. ~ (unkCount > 0) /\ unkCount' = unkCount /\ pc' = "patch"
      BY <1>6, <2>1, <2>3, <3>1 DEF EstInv, CountUndated, CloseEnd
    <3>3. EstimateClose'
      <4>1. /\ DOMAIN log = 1 .. Len(log) /\ DOMAIN log' = 1 .. Len(log) + 1
            /\ \A i \in 1 .. Len(log) : log'[i] = log[i]
            /\ log'[Len(log) + 1] = draft /\ Len(log) \in Nat
        BY <2>1, HsTypes, LogAppend
      <4>2. ~ draft.est
        BY <1>0, <2>1 DEF DraftInv
      <4> QED
        BY <4>1, <4>2 DEF EstInv, EstimateClose
    <3> QED
      BY <3>2, <3>3 DEF EstInv
  <2> QED
    BY <2>2, <2>3
<1>7. CASE PassOver
  <2>1. /\ pc = "loop" /\ pc' = "patch" /\ ~ MustClose /\ accTimeValid' = synced
        /\ log' = log /\ unkFirst' = unkFirst /\ unkCount' = unkCount /\ ticks' = ticks
    BY <1>0, <1>7 DEF PassOver, Resume, acc, AccInv
  <2>2. ASSUME synced, unkCount > 0 PROVE ticks = 0
    <3>1. ~ accTimeValid
      BY <2>1, <2>2 DEF EstInv
    <3>2. ~ (ticks > 0)
      BY <2>1, <2>2, <3>1 DEF MustClose, FirstClose
    <3> QED
      BY <1>0, <3>2
  <2>3. ~ synced => ~ accTimeValid
    BY <1>0 DEF ClockInv
  <2> QED
    BY <2>1, <2>2, <2>3, EstKept
<1>8. CASE NoBackpatch
  <2>1. /\ pc' = "loop" /\ (~ synced \/ unkCount = 0) /\ accTimeValid' = accTimeValid
        /\ log' = log /\ unkFirst' = unkFirst /\ unkCount' = unkCount
    BY <1>0, <1>8 DEF NoBackpatch, ram, AccInv
  <2>2. ~ (accTimeValid /\ unkCount > 0)
    BY <1>0, <2>1 DEF ClockInv
  <2> QED
    BY <2>1, <2>2, EstKept
<1>9. CASE Backpatch
  <2>1. unkCount' = 0 /\ unkCount > 0 /\ pc' = "loop"
    BY <1>9 DEF Backpatch
  <2>2. /\ DOMAIN log' = DOMAIN log /\ DOMAIN log = 1 .. Len(log)
        /\ \A i \in 1 .. Len(log) :
             /\ log'[i].first = log[i].first
             /\ IF i \in unkFirst .. unkFirst + unkCount - 1 /\ log[i].qh = Unknown
                THEN log'[i].qh = FirstDate + i - unkFirst
                ELSE log'[i] = log[i]
    BY <1>9, LogDated DEF HsIInv
  <2>3. ASSUME NEW i \in DOMAIN log', log'[i].est
        PROVE  QhOf(log'[i].first) - log'[i].qh \in -1 .. 1
    <3>1. CASE i \in unkFirst .. Top /\ log[i].qh = Unknown
      BY <1>9, <2>2, <3>1, RunDated DEF Top
    <3>2. CASE ~ (i \in unkFirst .. Top /\ log[i].qh = Unknown)
      <4>1. log'[i] = log[i]
        BY <2>2, <3>2 DEF Top
      <4> QED
        BY <2>2, <2>3, <4>1 DEF EstInv, EstimateClose
    <3> QED
      BY <3>1, <3>2
  <2>4. EstimateClose'
    BY <2>3 DEF EstimateClose
  <2> QED
    BY <2>1, <2>4 DEF EstInv
<1> QED
  BY <1>1, <1>2, <1>3, <1>4, <1>5, <1>6, <1>7, <1>8, <1>9 DEF Next

-----------------------------------------------------------------------------
(* The marks in the chain of counters: neither the clock nor the lock matters, *)
(* but every append must succeed, since the flags are cleared either way.      *)

\* The configurations posted while a record was being closed.
Slipped(c, d) == c + 1 .. d \subseteq raced

\* The flags and the configuration that the next record will have.
Coming == IF pc = "closing" THEN draft.flags ELSE pending
Profile == IF pc = "closing" THEN draft.config ELSE config

\* The next record will carry what it has to, if it comes after a restart or a profile.
NextMarked(r) ==
  /\ r.boot # boots => "boot" \in Coming
  /\ r.boot = boots => "config" \in Coming \/ Slipped(r.config, Profile)

ChainInv ==
  /\ \A i \in Pairs :
       /\ log[i].boot # log[i + 1].boot => "boot" \in log[i + 1].flags
       /\ log[i].boot = log[i + 1].boot =>
            "config" \in log[i + 1].flags \/ Slipped(log[i].config, log[i + 1].config)
  /\ pc = "closing" => Slipped(draft.config, config)
  /\ Len(log) > 0 => NextMarked(log[Len(log)])

\* The records keep their boot, configuration and flags.
LEMMA ChainKept ==
  ASSUME ChainInv, log \in Seq(Record), log' \in Seq(Record), Len(log') = Len(log),
         \A i \in 1 .. Len(log) : /\ log'[i].boot = log[i].boot
                                  /\ log'[i].config = log[i].config /\ log'[i].flags = log[i].flags,
         raced \subseteq raced'
  PROVE  /\ \A i \in Pairs' :
              /\ log'[i].boot # log'[i + 1].boot => "boot" \in log'[i + 1].flags
              /\ log'[i].boot = log'[i + 1].boot =>
                   \/ "config" \in log'[i + 1].flags
                   \/ log'[i].config + 1 .. log'[i + 1].config \subseteq raced'
         /\ Len(log') > 0 => /\ log'[Len(log')].boot = log[Len(log)].boot
                             /\ log'[Len(log')].config = log[Len(log)].config
<1>0. Len(log) \in Nat
  BY LenProperties
<1>1. Pairs = {i \in 1 .. Len(log) : i + 1 <= Len(log)} /\ Pairs' = Pairs
  BY PairsAre DEF Pairs
<1>2. \A i \in Pairs : i \in 1 .. Len(log) /\ i + 1 \in 1 .. Len(log)
  BY <1>0, <1>1
<1>3. Len(log) > 0 => Len(log) \in 1 .. Len(log)
  BY <1>0
<1> QED
  BY <1>1, <1>2, <1>3 DEF ChainInv, Slipped

\* The record that was being closed is the last one of the log.
LEMMA ChainAppended ==
  ASSUME HsIInv, ChainInv, pc = "closing", log' = Append(log, draft), raced' = raced
  PROVE  /\ \A i \in Pairs' :
              /\ log'[i].boot # log'[i + 1].boot => "boot" \in log'[i + 1].flags
              /\ log'[i].boot = log'[i + 1].boot =>
                   "config" \in log'[i + 1].flags \/ Slipped(log'[i].config, log'[i + 1].config)
         /\ log'[Len(log')] = draft /\ draft.boot = boots /\ Slipped(draft.config, config)
<1>1. /\ Len(log) \in Nat /\ Len(log') = Len(log) + 1 /\ log' \in Seq(Record)
      /\ \A i \in 1 .. Len(log) : log'[i] = log[i]
      /\ log'[Len(log) + 1] = draft
  BY HsTypes, LogAppend
<1>2. draft.boot = boots
  BY DEF HsIInv, BootsInv
<1>3. Pairs = {i \in 1 .. Len(log) : i + 1 <= Len(log)}
  BY HsTypes, PairsAre DEF Pairs
<1>4. Pairs' = {i \in 1 .. Len(log) + 1 : i + 1 <= Len(log) + 1}
  BY <1>1, PairsAre DEF Pairs
<1>5. ASSUME NEW i \in Pairs'
      PROVE  /\ log'[i].boot # log'[i + 1].boot => "boot" \in log'[i + 1].flags
             /\ log'[i].boot = log'[i + 1].boot =>
                  "config" \in log'[i + 1].flags \/ Slipped(log'[i].config, log'[i + 1].config)
  <2>1. i \in 1 .. Len(log) /\ log'[i] = log[i]
    BY <1>1, <1>4
  <2>2. CASE i + 1 <= Len(log)
    <3>1. i \in Pairs /\ i + 1 \in 1 .. Len(log)
      BY <1>1, <1>3, <2>1, <2>2
    <3> QED
      BY <1>1, <2>1, <3>1 DEF ChainInv
  <2>3. CASE i = Len(log)
    <3>1. log'[i + 1] = draft /\ Len(log) > 0
      BY <1>1, <2>1, <2>3
    <3>2. NextMarked(log[i]) /\ Coming = draft.flags /\ Profile = draft.config
      BY <2>3, <3>1 DEF ChainInv, Coming, Profile
    <3> QED
      BY <1>2, <2>1, <3>1, <3>2 DEF NextMarked
  <2> QED
    BY <1>1, <2>1, <2>2, <2>3
<1> QED
  BY <1>1, <1>2, <1>5 DEF ChainInv

LEMMA ChainStep ==
  ASSUME HsIInv, ChainInv, ~ Faults, [Next]_vars
  PROVE  ChainInv'
<1>0. /\ log \in Seq(Record) /\ config \in Nat /\ boots \in Nat /\ Len(log) \in Nat
      /\ \A i \in 1 .. Len(log) : log[i].boot <= boots /\ log[i].boot \in Nat
  BY HsTypes DEF HsIInv, BootsInv
<1>1. CASE UNCHANGED <<log, raced, boots, config, draft>>
           /\ (pc = "closing" <=> pc' = "closing") /\ pending \subseteq pending'
  <2>1. Coming \subseteq Coming' /\ Profile' = Profile
    BY <1>1 DEF Coming, Profile
  <2>2. Len(log) > 0 => NextMarked(log[Len(log)])'
    BY <1>1, <2>1 DEF ChainInv, NextMarked, Slipped
  <2> QED
    BY <1>1, <2>2 DEF ChainInv, Pairs, Slipped
<1>2. CASE Sample \/ Sync \/ StepClock \/ ReaderLocks \/ ReaderUnlocks \/ PassOver
           \/ NoBackpatch \/ UNCHANGED vars
  BY <1>1, <1>2 DEF Sample, Sync, StepClock, ReaderLocks, ReaderUnlocks, PassOver, NoBackpatch,
                    vars, ram
<1>3. CASE PostMeter
  <2>1. /\ config' = config + 1 /\ pending' = pending \cup {"config", "partial"} /\ pc' = pc
        /\ draft' = draft /\ log' = log /\ boots' = boots /\ raced \subseteq raced'
        /\ pc = "closing" => raced' = raced \cup {config'}
    BY <1>3 DEF PostMeter, ProfileFlags
  <2>2. pc = "closing" => Slipped(draft.config, config)'
    <3>1. draft.config \in Nat
      BY HsTypes
    <3>2. \A x \in draft.config + 1 .. config + 1 : x \in draft.config + 1 .. config \/ x = config + 1
      BY <1>0, <3>1
    <3> QED
      BY <2>1, <3>2 DEF ChainInv, Slipped
  <2>3. ASSUME Len(log) > 0 PROVE NextMarked(log[Len(log)])'
    <3>1. NextMarked(log[Len(log)])
      BY <2>3 DEF ChainInv
    <3>2. CASE pc = "closing"
      BY <2>1, <3>1, <3>2 DEF NextMarked, Coming, Profile, Slipped
    <3>3. CASE pc # "closing"
      BY <2>1, <3>1, <3>3 DEF NextMarked, Coming
    <3> QED
      BY <3>2, <3>3
  <2> QED
    BY <1>0, <2>1, <2>2, <2>3, ChainKept DEF ChainInv, Slipped
<1>4. CASE Restart
  <2>1. /\ boots' = boots + 1 /\ pending' = {"boot", "partial"} /\ pc' = "loop" /\ raced' = raced
    BY <1>4 DEF Restart, Booted
  <2>2. "boot" \in Coming'
    BY <2>1 DEF Coming
  <2>3. CASE log' = log
    <3>1. Len(log) > 0 => log[Len(log)].boot # boots'
      BY <1>0, <2>1
    <3>2. Len(log') > 0 => NextMarked(log[Len(log)])'
      BY <2>1, <2>2, <2>3, <3>1 DEF NextMarked
    <3> QED
      BY <1>0, <2>1, <2>3, <3>2, ChainKept DEF ChainInv, Slipped
  <2>4. CASE pc = "closing" /\ log' = Append(log, draft)
    <3>1. log'[Len(log')].boot # boots'
      BY <1>0, <2>1, <2>4, ChainAppended
    <3>2. NextMarked(log[Len(log)])'
      BY <2>2, <3>1 DEF NextMarked
    <3> QED
      BY <2>1, <2>4, <3>2, ChainAppended DEF ChainInv, Slipped
  <2> QED
    BY <1>4, <2>3, <2>4 DEF Restart
<1>5. CASE CloseStart
  <2>1. /\ pc = "loop" /\ pc' = "closing" /\ draft'.config = config /\ pending \subseteq draft'.flags
        /\ log' = log /\ boots' = boots /\ raced' = raced /\ config' = config
    BY <1>5 DEF CloseStart, Carried
  <2>2. Coming \subseteq Coming' /\ Profile' = Profile
    BY <2>1 DEF Coming, Profile
  <2>3. Slipped(draft.config, config)'
    BY <1>0, <2>1 DEF Slipped
  <2>4. Len(log) > 0 => NextMarked(log[Len(log)])'
    BY <2>1, <2>2 DEF ChainInv, NextMarked, Slipped
  <2> QED
    BY <1>0, <2>1, <2>3, <2>4, ChainKept DEF ChainInv, Slipped
<1>6. CASE CloseEnd
  <2>1. /\ pc = "closing" /\ log' = Append(log, draft) /\ pc' = "patch" /\ boots' = boots
        /\ config' = config /\ raced' = raced
    BY <1>6 DEF CloseEnd
  <2>2. NextMarked(log[Len(log)])'
    BY <2>1, ChainAppended DEF NextMarked, Profile, Slipped
  <2> QED
    BY <2>1, <2>2, ChainAppended DEF ChainInv, Slipped
<1>7. CASE Backpatch
  <2>1. /\ pc = "patch" /\ pc' = "loop" /\ pending' = pending /\ config' = config /\ boots' = boots
        /\ raced' = raced
    BY <1>7 DEF Backpatch
  <2>2. /\ log' \in Seq(Record) /\ Len(log') = Len(log)
        /\ \A i \in 1 .. Len(log) : /\ log'[i].boot = log[i].boot
                                    /\ log'[i].config = log[i].config /\ log'[i].flags = log[i].flags
    BY <1>7, LogDated DEF HsIInv
  <2>3. Coming' = Coming /\ Profile' = Profile
    BY <2>1 DEF Coming, Profile
  <2>4. Len(log') > 0 => NextMarked(log[Len(log)])'
    BY <1>0, <2>1, <2>2, <2>3, ChainKept DEF ChainInv, NextMarked, Slipped
  <2> QED
    BY <1>0, <2>1, <2>2, <2>4, ChainKept DEF ChainInv, Slipped
<1> QED
  BY <1>2, <1>3, <1>4, <1>5, <1>6, <1>7 DEF Next

\* A log without records has no date, no gap and no break in the chain.
LEMMA CalmInitial ==
  ASSUME Init
  PROVE  TimeInv /\ GapInv /\ EstInv /\ ChainInv
<1>1. log = <<>> /\ DOMAIN log = {} /\ Len(log) = 0 /\ Pairs = {}
  BY DEF Init, Pairs
<1>2. AccInv /\ DraftInv
  BY Bounds DEF Init, AccInv, DraftInv
<1>3. DatesInv
  BY <1>1 DEF DatesInv, ExactDate, ExactDatesIncrease
<1>4. GapInv /\ ChainInv
  BY <1>1 DEF Init, GapInv, ChainInv
<1>5. EstInv
  BY <1>1 DEF Init, EstInv, EstimateClose
<1> QED
  BY <1>2, <1>3, <1>4, <1>5 DEF TimeInv

\* hist_close_interval_, hist_backpatch_: with a right clock, a free lock and no failing
\* append, an exact date is that of the samples in the record, an estimated one at most a
\* quarter hour off, and exact dates increase, over any number of restarts and profiles.
THEOREM DatesAreRight ==
  ASSUME Calm, ~ Faults
  PROVE  Spec => []DatesRight
<1>1. Init => HsIInv /\ TimeInv /\ GapInv /\ EstInv
  BY InitKeeps, CalmInitial
<1>2. HsIInv /\ TimeInv /\ GapInv /\ EstInv /\ [Next]_vars =>
        (HsIInv /\ TimeInv /\ GapInv /\ EstInv)'
  BY StepKeeps, TimeStep, GapStep, EstStep
<1>3. TimeInv /\ EstInv => DatesRight
  BY DEF TimeInv, DatesInv, EstInv, DatesRight
<1> QED
  BY <1>1, <1>2, <1>3, PTL DEF Spec

\* hist_service_: on a right clock, with a free lock and no failing append, a running device
\* leaves no quarter hour out, and the first record after a restart or a new profile is
\* marked, unless the profile came while a record was being closed.
THEOREM EveryIntervalIsThere ==
  ASSUME Calm, ~ Faults
  PROVE  Spec => []EveryInterval
<1>1. Init => HsIInv /\ TimeInv /\ GapInv /\ ChainInv
  BY InitKeeps, CalmInitial
<1>2. HsIInv /\ TimeInv /\ GapInv /\ ChainInv /\ [Next]_vars =>
        (HsIInv /\ TimeInv /\ GapInv /\ ChainInv)'
  BY StepKeeps, TimeStep, GapStep, ChainStep
<1>3. HsIInv /\ TimeInv /\ GapInv /\ ChainInv => EveryInterval
  <2>1. ChainInv => ChainMarked
    BY DEF ChainInv, ChainMarked, Slipped
  <2> QED
    BY <2>1, HolesNone DEF HsIInv, EveryInterval
<1> QED
  BY <1>1, <1>2, <1>3, PTL DEF Spec

\* hist_close_interval_: whatever the clock does and whoever holds the lock, the first record
\* after a restart or a new profile is marked as long as no append fails.
THEOREM ChainIsMarked ==
  ASSUME ~ Faults
  PROVE  Spec => []ChainMarked
<1>1. Init => HsIInv /\ ChainInv
  BY InitKeeps, CalmInitial
<1>2. HsIInv /\ ChainInv /\ [Next]_vars => (HsIInv /\ ChainInv)'
  BY StepKeeps, ChainStep
<1>3. ChainInv => ChainMarked
  BY DEF ChainInv, ChainMarked, Slipped
<1> QED
  BY <1>1, <1>2, <1>3, PTL DEF Spec

-----------------------------------------------------------------------------
(* HistTab.                                                                *)

\* A copy that can be told by its newest quarter hour.
Dated(c) == Clocked => c.newest = c.records

Copies == [range : TabRange \cup {"none"}, records : Nat, newest : Nat]
Reads  == [at : {"idle", "asked", "served"}, range : TabRange \cup {"none"}, copy : Copies]
Tabs   == [on : BOOLEAN, range : TabRange, hist : Copies, loading : BOOLEAN, err : BOOLEAN]

IsDay(c) == c = None \/ c.range = "day"

\* Each copy is of the range it is kept, read or asked for.
TagsInv ==
  /\ IsDay(day)
  /\ dayReq.at = "served" => dayReq.copy.range = "day"
  /\ \A r \in TabRange : cache[r] = None \/ cache[r].range = r
  /\ fetch.at = "served" => fetch.copy.range = fetch.range
  /\ fetch.at # "idle" => tab.on /\ fetch.range = tab.range

\* The newest quarter hour tells the copies apart.
DatedInv ==
  /\ Dated(stored) /\ Dated(day) /\ Dated(dayReq.copy) /\ Dated(fetch.copy)
  /\ \A r \in TabRange : Dated(cache[r])

\* No copy is ahead of the device; a read that was served is not behind the live screen.
PastInv ==
  /\ day.records <= stored.records /\ dayReq.copy.records <= stored.records
  /\ fetch.at = "served" => day.records <= fetch.copy.records

\* The inductive invariant.
HtIInv ==
  /\ HtTypeOK /\ TagsInv /\ DatedInv /\ PastInv
  /\ RangeShown /\ NeverBlank
  /\ Clocked => UpToDate

USE DEF Reads, Tabs

-----------------------------------------------------------------------------
\* The invariant holds before anything is read.
LEMMA HtInitial == HtInit => HtIInv
<1> SUFFICES ASSUME HtInit PROVE HtIInv
  OBVIOUS
<1>1. "day" \in TabRange /\ "none" \notin TabRange /\ MaxRecords \in Nat
  BY HistTabAssumption
<1>2. HtTypeOK
  BY <1>1 DEF HtInit, HtTypeOK, None, NoRead, Closed
<1>3. TagsInv /\ DatedInv /\ PastInv
  BY DEF HtInit, TagsInv, DatedInv, PastInv, IsDay, Dated, None, NoRead, Closed
<1>4. RangeShown /\ NeverBlank /\ UpToDate
  BY DEF HtInit, RangeShown, NeverBlank, UpToDate, NoRead, Closed
<1> QED
  BY <1>2, <1>3, <1>4 DEF HtIInv

\* What the effect leaves behind when it runs for the open tab t and the day history d.
LEMMA EffectKeeps ==
  ASSUME HtIInv,
         NEW t \in Tabs,
         NEW d \in Copies,
         t.on, IsDay(d), Dated(d), d.records <= stored.records,
         Effect(t, d), day' = d, dayReq' \in {dayReq, NoRead}, stored' = stored
  PROVE  HtIInv'
<1>1. HtTypeOK /\ TagsInv /\ DatedInv /\ PastInv
  BY DEF HtIInv
<1>2. "day" \in TabRange /\ "none" \notin TabRange /\ Clocked \in BOOLEAN
  BY HistTabAssumption
<1>3. cache \in [TabRange -> Copies] /\ dayReq \in Reads
  BY <1>1 DEF HtTypeOK, Copies
<1>4. NoRead \in Reads
      /\ NoRead.at = "idle" /\ NoRead.copy = None
      /\ None \in Copies /\ None.records = 0 /\ None.newest = 0 /\ None.range = "none"
  BY DEF NoRead, None, Copies
<1>5. t.range \in TabRange /\ cache[t.range] \in Copies
  BY <1>3
<1>6. /\ tab' \in Tabs
      /\ tab'.on /\ tab'.range = t.range
      /\ cache' \in [TabRange -> Copies]
      /\ \A r \in TabRange : cache'[r] = cache[r] \/ (cache'[r] = d /\ r = "day" /\ d # None)
      /\ \/ fetch' = NoRead
         \/ fetch' = [at |-> "asked", range |-> t.range, copy |-> None]
      /\ tab'.hist = None \/ tab'.hist = cache[t.range] \/ (tab'.hist = d /\ FromLive(t, d))
      /\ fetch' = NoRead => /\ tab'.hist # None
                            /\ tab'.hist = d \/ (tab'.hist = cache[t.range] /\ Kept(t, d))
  <2>1. CASE /\ FromLive(t, d)
             /\ cache' = [cache EXCEPT !["day"] = d]
             /\ tab' = [t EXCEPT !.hist = d, !.err = FALSE]
             /\ fetch' = NoRead
    BY <2>1, <1>2, <1>3 DEF FromLive
  <2>2. CASE /\ ~FromLive(t, d) /\ Kept(t, d)
             /\ tab' = [t EXCEPT !.hist = cache[t.range], !.err = FALSE]
             /\ fetch' = NoRead
             /\ UNCHANGED cache
    BY <2>2, <1>3, <1>5 DEF Kept
  <2>3. CASE /\ ~FromLive(t, d) /\ ~Kept(t, d)
             /\ tab' = [t EXCEPT !.hist = cache[t.range], !.err = FALSE,
                                 !.loading = @ \/ cache[t.range] = None]
             /\ fetch' = [at |-> "asked", range |-> t.range, copy |-> None]
             /\ UNCHANGED cache
    <3>1. fetch' # NoRead
      BY <2>3 DEF NoRead
    <3>2. (t.loading \/ cache[t.range] = None) \in BOOLEAN
      OBVIOUS
    <3>3. tab' = [t EXCEPT !.hist = cache[t.range], !.err = FALSE,
                           !.loading = t.loading \/ cache[t.range] = None]
      BY <2>3
    <3>4. tab' \in Tabs
          /\ tab'.on /\ tab'.range = t.range /\ tab'.hist = cache[t.range]
      BY <3>2, <3>3, <1>5
    <3> QED
      BY <2>3, <3>1, <3>4, <1>3
  <2> QED
    BY <2>1, <2>2, <2>3 DEF Effect
<1>7. /\ fetch' \in Reads
      /\ fetch'.at # "served" /\ fetch'.copy = None
      /\ fetch'.at # "idle" => fetch'.range = t.range
      /\ fetch'.at = "idle" <=> fetch' = NoRead
  BY <1>4, <1>5, <1>6
<1>8. HtTypeOK'
  BY <1>1, <1>3, <1>4, <1>6, <1>7 DEF HtTypeOK, Copies
<1>9. TagsInv'
  BY <1>1, <1>4, <1>6, <1>7 DEF TagsInv, IsDay
<1>10. DatedInv'
  BY <1>1, <1>4, <1>6, <1>7 DEF DatedInv, Dated
<1>11. PastInv'
  <2>1. stored.records \in Nat
    BY <1>1 DEF HtTypeOK
  <2>2. dayReq'.copy.records <= stored.records
    <3>1. CASE dayReq' = dayReq
      BY <1>1, <3>1 DEF PastInv
    <3>2. CASE dayReq' = NoRead
      BY <1>4, <2>1, <3>2
    <3> QED
      BY <3>1, <3>2
  <2> QED
    BY <1>7, <2>2 DEF PastInv
<1>12. RangeShown'
  BY <1>1, <1>5, <1>6 DEF RangeShown, TagsInv, IsDay, FromLive
<1>13. NeverBlank'
  BY <1>6, <1>7 DEF NeverBlank
<1>14. ASSUME Clocked PROVE UpToDate'
  <2>1. d.newest = d.records /\ cache[t.range].newest = cache[t.range].records
    BY <1>1, <1>5, <1>14 DEF DatedInv, Dated
  <2>2. ASSUME fetch' = NoRead, d # None PROVE tab'.hist # None /\ tab'.hist.records = d.records
    BY <1>6, <2>1, <2>2 DEF Kept
  <2>3. d.records \in Nat
    BY DEF Copies
  <2> QED
    BY <2>2, <2>3 DEF UpToDate
<1> QED
  BY <1>8, <1>9, <1>10, <1>11, <1>12, <1>13, <1>14 DEF HtIInv
\* Every action keeps the invariant; those that run the effect by EffectKeeps.
LEMMA HtInductive == HtIInv /\ [HtNext]_htVars => HtIInv'
<1> SUFFICES ASSUME HtIInv, [HtNext]_htVars PROVE HtIInv'
  OBVIOUS
<1>1. HtTypeOK /\ TagsInv /\ DatedInv /\ PastInv /\ RangeShown /\ NeverBlank /\ (Clocked => UpToDate)
  BY DEF HtIInv
<1>2. "day" \in TabRange /\ "none" \notin TabRange /\ Clocked \in BOOLEAN
  BY HistTabAssumption
<1>3. /\ stored.records \in Nat /\ stored.newest \in Nat
      /\ day \in Copies /\ dayReq.copy \in Copies /\ fetch.copy \in Copies
      /\ tab.range \in TabRange /\ cache \in [TabRange -> Copies]
  BY <1>1 DEF HtTypeOK, Copies
<1>4. /\ None \in Copies /\ None.records = 0 /\ None.newest = 0 /\ None.range = "none"
      /\ NoRead \in Reads
      /\ NoRead.at = "idle" /\ NoRead.copy = None
      /\ Closed \in Tabs
      /\ ~Closed.on /\ Closed.hist = None
  BY <1>2 DEF None, NoRead, Copies, Closed
<1>5. CASE Stores
  <2>1. /\ stored'.records = stored.records + 1 /\ stored'.newest \in Nat
        /\ stored' \in [records : Nat, newest : Nat]
        /\ Clocked => stored'.newest = stored.newest + 1
        /\ UNCHANGED <<day, dayReq, tab, cache, fetch>>
    <3>1. PICK dated \in {TRUE, Clocked} :
            stored' = [records |-> stored.records + 1,
                       newest |-> IF dated THEN stored.newest + 1 ELSE stored.newest]
      BY <1>5 DEF Stores
    <3>2. Clocked => dated
      BY <3>1
    <3>3. UNCHANGED <<day, dayReq, tab, cache, fetch>>
      BY <1>5 DEF Stores
    <3> QED
      BY <1>3, <3>1, <3>2, <3>3
  <2>2. HtTypeOK'
    BY <1>1, <2>1 DEF HtTypeOK
  <2>3. TagsInv' /\ RangeShown' /\ NeverBlank' /\ (Clocked => UpToDate')
    BY <1>1, <2>1 DEF TagsInv, IsDay, RangeShown, NeverBlank, UpToDate
  <2>4. DatedInv'
    BY <1>1, <1>3, <2>1 DEF DatedInv, Dated
  <2>5. PastInv'
    BY <1>1, <1>3, <2>1 DEF PastInv, Copies
  <2> QED
    BY <2>2, <2>3, <2>4, <2>5 DEF HtIInv
<1>6. CASE readHistory
  <2>1. /\ dayReq' = [NoRead EXCEPT !.at = "asked", !.range = "day"]
        /\ UNCHANGED <<stored, day, tab, cache, fetch>>
    BY <1>6 DEF readHistory
  <2>2. /\ dayReq' \in Reads
        /\ dayReq'.at = "asked" /\ dayReq'.copy = None
    BY <1>2, <1>4, <2>1
  <2>3. HtTypeOK'
    BY <1>1, <2>1, <2>2 DEF HtTypeOK, Copies
  <2>4. TagsInv' /\ RangeShown' /\ NeverBlank' /\ (Clocked => UpToDate')
    BY <1>1, <2>1, <2>2 DEF TagsInv, IsDay, RangeShown, NeverBlank, UpToDate
  <2>5. DatedInv' /\ PastInv'
    BY <1>1, <1>3, <1>4, <2>1, <2>2 DEF DatedInv, Dated, PastInv
  <2> QED
    BY <2>3, <2>4, <2>5 DEF HtIInv
<1>7. CASE DayServed
  <2>1. dayReq' = [dayReq EXCEPT !.at = "served", !.copy = Copy("day")]
        /\ UNCHANGED <<stored, day, tab, cache, fetch>>
    BY <1>7 DEF DayServed
  <2>2. Copy("day") \in Copies /\ Copy("day").range = "day"
        /\ Copy("day").records = stored.records /\ Copy("day").newest = stored.newest
    BY <1>2, <1>3 DEF Copy, Copies
  <2>3. dayReq' \in Reads
        /\ dayReq'.copy = Copy("day")
    BY <1>1, <2>1, <2>2 DEF HtTypeOK, Copies
  <2>4. HtTypeOK'
    BY <1>1, <2>1, <2>3 DEF HtTypeOK, Copies
  <2>5. TagsInv' /\ RangeShown' /\ NeverBlank' /\ (Clocked => UpToDate')
    BY <1>1, <2>1, <2>2, <2>3 DEF TagsInv, IsDay, RangeShown, NeverBlank, UpToDate
  <2>6. DatedInv'
    BY <1>1, <2>1, <2>2, <2>3 DEF DatedInv, Dated
  <2>7. PastInv'
    BY <1>1, <1>3, <2>1, <2>2, <2>3 DEF PastInv
  <2> QED
    BY <2>4, <2>5, <2>6, <2>7 DEF HtIInv
<1>8. CASE DayArrives
  <2>1. /\ dayReq.at = "served" /\ day' = dayReq.copy /\ dayReq' = NoRead
        /\ IF tab.on THEN Effect(tab, dayReq.copy) ELSE UNCHANGED <<tab, cache, fetch>>
        /\ UNCHANGED stored
    BY <1>8 DEF DayArrives
  <2>2. IsDay(dayReq.copy) /\ Dated(dayReq.copy) /\ dayReq.copy.records <= stored.records
    BY <1>1, <2>1 DEF TagsInv, DatedInv, PastInv, IsDay
  <2>3. CASE tab.on
    <3>1. tab \in Tabs
      BY <1>1 DEF HtTypeOK, Copies
    <3> QED
      BY <1>3, <2>1, <2>2, <2>3, <3>1, EffectKeeps
  <2>4. CASE ~tab.on
    <3>1. UNCHANGED <<tab, cache, fetch, stored>>
      BY <2>1, <2>4
    <3>2. fetch.at = "idle"
      BY <1>1, <2>4 DEF TagsInv, HtTypeOK
    <3>3. HtTypeOK'
      BY <1>1, <1>3, <1>4, <2>1, <3>1 DEF HtTypeOK, Copies
    <3>4. TagsInv' /\ RangeShown' /\ NeverBlank' /\ (Clocked => UpToDate')
      BY <1>1, <1>4, <2>1, <2>2, <2>4, <3>1, <3>2
         DEF TagsInv, IsDay, RangeShown, NeverBlank, UpToDate
    <3>5. DatedInv'
      BY <1>1, <1>4, <2>1, <2>2, <3>1 DEF DatedInv, Dated
    <3>6. PastInv'
      BY <1>3, <1>4, <2>1, <2>2, <3>1, <3>2 DEF PastInv
    <3> QED
      BY <3>3, <3>4, <3>5, <3>6 DEF HtIInv
  <2> QED
    BY <2>3, <2>4
<1>9. CASE DayFails
  <2>1. dayReq' = NoRead /\ UNCHANGED <<stored, day, tab, cache, fetch>>
    BY <1>9 DEF DayFails
  <2>2. HtTypeOK'
    BY <1>1, <1>4, <2>1 DEF HtTypeOK, Copies
  <2>3. TagsInv' /\ RangeShown' /\ NeverBlank' /\ (Clocked => UpToDate')
    BY <1>1, <1>4, <2>1 DEF TagsInv, IsDay, RangeShown, NeverBlank, UpToDate
  <2>4. DatedInv' /\ PastInv'
    BY <1>1, <1>3, <1>4, <2>1 DEF DatedInv, Dated, PastInv
  <2> QED
    BY <2>2, <2>3, <2>4 DEF HtIInv
<1>10. ASSUME OpenTab \/ setRange PROVE HtIInv'
  <2>1. PICK t \in Tabs :
          t.on /\ Effect(t, day)
    <3>1. CASE OpenTab
      <4>1. [Closed EXCEPT !.on = TRUE]
              \in Tabs
            /\ [Closed EXCEPT !.on = TRUE].on
        BY <1>4
      <4> QED
        BY <3>1, <4>1 DEF OpenTab
    <3>2. CASE setRange
      <4>1. PICK r \in TabRange : tab.on /\ Effect([tab EXCEPT !.range = r], day)
        BY <3>2 DEF setRange
      <4>2. [tab EXCEPT !.range = r]
              \in Tabs
            /\ [tab EXCEPT !.range = r].on
        BY <1>1, <4>1 DEF HtTypeOK, Copies
      <4> QED
        BY <4>1, <4>2
    <3> QED
      BY <1>10, <3>1, <3>2
  <2>2. UNCHANGED <<stored, day, dayReq>>
    BY <1>10 DEF OpenTab, setRange
  <2>3. IsDay(day) /\ Dated(day) /\ day.records <= stored.records
    BY <1>1 DEF TagsInv, DatedInv, PastInv
  <2> QED
    BY <1>3, <2>1, <2>2, <2>3, EffectKeeps
<1>11. ASSUME CloseTab \/ LeaveLive PROVE HtIInv'
  <2>1. /\ tab' = Closed /\ fetch' = NoRead /\ UNCHANGED <<stored, cache>>
        /\ day' \in {day, None} /\ dayReq' \in {dayReq, NoRead}
    BY <1>11 DEF CloseTab, LeaveLive
  <2>2. HtTypeOK'
    BY <1>1, <1>4, <2>1 DEF HtTypeOK, Copies
  <2>3. TagsInv' /\ RangeShown' /\ NeverBlank' /\ (Clocked => UpToDate')
    BY <1>1, <1>4, <2>1 DEF TagsInv, IsDay, RangeShown, NeverBlank, UpToDate
  <2>4. DatedInv'
    BY <1>1, <1>4, <2>1 DEF DatedInv, Dated
  <2>5. PastInv'
    <3>1. day'.records <= stored.records
      BY <1>1, <1>3, <1>4, <2>1 DEF PastInv
    <3>2. dayReq'.copy.records <= stored.records
      BY <1>1, <1>3, <1>4, <2>1 DEF PastInv
    <3> QED
      BY <1>4, <2>1, <3>1, <3>2 DEF PastInv
  <2> QED
    BY <2>2, <2>3, <2>4, <2>5 DEF HtIInv
<1>12. CASE FetchServed
  <2>1. /\ fetch.at = "asked" /\ UNCHANGED <<stored, day, dayReq, tab, cache>>
        /\ fetch' = [fetch EXCEPT !.at = "served", !.copy = Copy(fetch.range)]
    BY <1>12 DEF FetchServed
  <2>2. fetch.range = tab.range /\ tab.on
    BY <1>1, <2>1 DEF TagsInv
  <2>3. Copy(fetch.range) \in Copies /\ Copy(fetch.range).range = fetch.range
        /\ Copy(fetch.range).records = stored.records /\ Copy(fetch.range).newest = stored.newest
    BY <1>3, <2>2 DEF Copy, Copies
  <2>4. fetch' \in Reads
        /\ fetch'.copy = Copy(fetch.range) /\ fetch'.at = "served" /\ fetch'.range = fetch.range
    BY <1>1, <2>1, <2>3 DEF HtTypeOK, Copies
  <2>5. HtTypeOK'
    BY <1>1, <2>1, <2>4 DEF HtTypeOK, Copies
  <2>6. fetch' # NoRead
    BY <1>4, <2>4
  <2>7. TagsInv' /\ RangeShown' /\ NeverBlank' /\ UpToDate'
    BY <1>1, <2>1, <2>2, <2>3, <2>4, <2>6 DEF TagsInv, IsDay, RangeShown, NeverBlank, UpToDate
  <2>8. DatedInv' /\ PastInv'
    BY <1>1, <2>1, <2>3, <2>4 DEF DatedInv, Dated, PastInv
  <2> QED
    BY <2>5, <2>7, <2>8 DEF HtIInv
<1>13. CASE FetchArrives
  <2>1. /\ fetch.at = "served" /\ UNCHANGED <<stored, day, dayReq>> /\ fetch' = NoRead
        /\ cache' = [cache EXCEPT ![fetch.range] = fetch.copy]
        /\ tab' = [tab EXCEPT !.hist = fetch.copy, !.loading = FALSE]
    BY <1>13 DEF FetchArrives
  <2>2. /\ fetch.range = tab.range /\ tab.on /\ fetch.copy.range = tab.range
        /\ day.records <= fetch.copy.records
    BY <1>1, <2>1 DEF TagsInv, PastInv
  <2>3. /\ tab' \in Tabs
        /\ tab'.hist = fetch.copy /\ tab'.range = tab.range
        /\ cache' \in [TabRange -> Copies]
        /\ \A r \in TabRange : cache'[r] = cache[r] \/ (r = tab.range /\ cache'[r] = fetch.copy)
    BY <1>1, <1>3, <2>1, <2>2 DEF HtTypeOK, Copies
  <2>4. fetch.copy # None
    BY <1>2, <1>3, <1>4, <2>2
  <2>5. HtTypeOK'
    BY <1>1, <1>4, <2>1, <2>3 DEF HtTypeOK, Copies
  <2>6. TagsInv' /\ RangeShown' /\ NeverBlank' /\ UpToDate'
    BY <1>1, <1>4, <2>1, <2>2, <2>3, <2>4 DEF TagsInv, IsDay, RangeShown, NeverBlank, UpToDate
  <2>7. DatedInv' /\ PastInv'
    BY <1>1, <1>4, <2>1, <2>3 DEF DatedInv, Dated, PastInv
  <2> QED
    BY <2>5, <2>6, <2>7 DEF HtIInv
<1>14. CASE FetchFails
  <2>1. /\ tab' = [tab EXCEPT !.err = TRUE, !.loading = FALSE]
        /\ fetch' = NoRead /\ UNCHANGED <<stored, day, dayReq, cache>>
    BY <1>14 DEF FetchFails
  <2>2. /\ tab' \in Tabs
        /\ tab'.hist = tab.hist /\ tab'.range = tab.range /\ tab'.err
    BY <1>1, <2>1 DEF HtTypeOK, Copies
  <2>3. HtTypeOK'
    BY <1>1, <1>4, <2>1, <2>2 DEF HtTypeOK, Copies
  <2>4. TagsInv' /\ RangeShown' /\ NeverBlank' /\ UpToDate'
    BY <1>1, <1>4, <2>1, <2>2 DEF TagsInv, IsDay, RangeShown, NeverBlank, UpToDate
  <2>5. DatedInv' /\ PastInv'
    BY <1>1, <1>4, <2>1 DEF DatedInv, Dated, PastInv
  <2> QED
    BY <2>3, <2>4, <2>5 DEF HtIInv
<1>15. CASE UNCHANGED htVars
  BY <1>1, <1>15 DEF htVars, HtIInv, HtTypeOK, TagsInv, DatedInv, PastInv, RangeShown,
     NeverBlank, UpToDate, IsDay, Dated
<1> QED
  BY <1>5, <1>6, <1>7, <1>8, <1>9, <1>10, <1>11, <1>12, <1>13, <1>14, <1>15 DEF HtNext

\* hist-tab.js, live/index.js: HtIInv is inductive.
THEOREM HtInvariant == HtSpec => []HtIInv
BY HtInitial, HtInductive, PTL DEF HtSpec

\* The copies, the reads and the tab are always of their types.
THEOREM HtTypeCorrect == HtSpec => []HtTypeOK
<1>1. HtIInv => HtTypeOK
  BY DEF HtIInv
<1> QED
  BY <1>1, HtInvariant, PTL

\* hist-tab.js:28-42: on a device that dates its records the tab shows the range it names,
\* as new as the live screen's, and is not blank without a reason, for any number of ranges
\* and of records.
THEOREM HistoryIsShown ==
  ASSUME Clocked
  PROVE  HtSpec => []HistShown
<1>1. HtIInv => HistShown
  BY DEF HtIInv, HistShown
<1> QED
  BY <1>1, HtInvariant, PTL


-----------------------------------------------------------------------------
(* HourChart: the ring, and the quarter hours.                             *)

\* Quarter hours follow one another.
LEMMA QuarterMonotone ==
  ASSUME PerQuarter \in Nat \ {0}, NEW t \in Nat, NEW u \in Nat, t <= u
  PROVE  QuarterOf(t) \in Nat /\ QuarterOf(t) <= QuarterOf(u)
<1> DEFINE p == PerQuarter
           a == t \div p
           b == u \div p
<1>1. a \in Int /\ b \in Int /\ p * a <= t /\ t < p * (a + 1) /\ p * b <= u /\ u < p * (b + 1)
  BY Z3
<1> HIDE DEF a, b, p
<1>2. p \in Nat \ {0}
  BY DEF p
<1>3. ASSUME b < a PROVE FALSE
  <2>1. b + 1 <= a
    BY <1>1, <1>3
  <2>2. p * (b + 1) <= p * a
    BY <1>1, <1>2, <2>1
  <2>3. p * (b + 1) \in Int /\ p * a \in Int
    BY <1>1, <1>2
  <2> QED
    BY <1>1, <2>2, <2>3
<1>4. ASSUME a < 0 PROVE FALSE
  <2>1. a + 1 <= 0
    BY <1>1, <1>4
  <2>2. p * (a + 1) <= 0
    BY <1>1, <1>2, <2>1
  <2>3. p * (a + 1) \in Int
    BY <1>1, <1>2
  <2> QED
    BY <1>1, <2>2, <2>3
<1>5. a >= 0 /\ a <= b
  BY <1>1, <1>3, <1>4
<1> QED
  BY <1>1, <1>5 DEF a, b, p, QuarterOf

\* A quotient, towards zero, between bounds of the sum.
LEMMA MeanBetween ==
  ASSUME NEW sum \in Int, NEW n \in Nat, n > 0, NEW lo \in Int, NEW hi \in Int,
         n * lo <= sum, sum <= n * hi
  PROVE  /\ sum >= 0 => sum \div n \in Int /\ lo <= sum \div n /\ sum \div n <= hi
<1> DEFINE m == sum \div n
<1>1. m \in Int /\ n * m <= sum /\ sum < n * (m + 1)
  BY Z3
<1> HIDE DEF m
<1>2. ASSUME lo > m PROVE FALSE
  <2>1. m + 1 <= lo
    BY <1>1, <1>2
  <2>2. n * (m + 1) <= n * lo
    BY <1>1, <2>1
  <2>3. n * (m + 1) \in Int /\ n * lo \in Int
    BY <1>1
  <2> QED
    BY <1>1, <2>2, <2>3
<1>3. ASSUME m > hi PROVE FALSE
  <2>1. hi <= m - 1
    BY <1>1, <1>3
  <2>2. n * hi <= n * (m - 1)
    BY <1>1, <2>1
  <2>3. n * (m - 1) = n * m - n
    BY <1>1
  <2>4. n * hi \in Int /\ n * m \in Int
    BY <1>1
  <2> QED
    BY <1>1, <2>2, <2>3, <2>4
<1> QED
  BY <1>1, <1>2, <1>3 DEF m

\* One step of Accum.
AddSample(a, u, t) == IF u \in InQuarter(t) /\ heard[u] \in Power
                      THEN [sum |-> a.sum + heard[u], n |-> a.n + 1] ELSE a

\* The numbers up to t, over which the folds go.
Count(t) == [u \in 1 .. t |-> u]

\* What Accum computes.
LEMMA AccumFold ==
  ASSUME Power \subseteq Int, NEW t0 \in Nat
  PROVE  \E pre \in [0 .. Len(Count(t0)) -> [sum : Int, n : Nat]] :
           /\ pre[0] = [sum |-> 0, n |-> 0]
           /\ \A i \in 1 .. Len(Count(t0)) : pre[i] = AddSample(pre[i - 1], Count(t0)[i], t0)
           /\ Accum(t0) = pre[Len(Count(t0))]
<1> DEFINE n == Len(Count(t0))
           st == [p \in [sum : Int, n : Nat] \X (1 .. t0) |-> AddSample(p[1], p[2], t0)]
           Step(f) == [t \in SUBSET DOMAIN Count(t0) |->
                         IF t = {} THEN [sum |-> 0, n |-> 0]
                         ELSE AddSample(f[t \ {Max(t)}], Count(t0)[Max(t)], t0)]
           it == CHOOSE f : f = Step(f)
<1>0. Count(t0) \in Seq((1 .. t0)) /\ n \in Nat /\ DOMAIN Count(t0) = 1 .. n /\ \A i \in 1 .. n : Count(t0)[i] \in (1 .. t0)
  BY DEF Count
<1>1. Accum(t0) = it[DOMAIN Count(t0)]
  BY Zenon DEF Accum, Count, AddSample, FoldLeft, MapThenFoldSet
<1>2. st \in [[sum : Int, n : Nat] \X (1 .. t0) -> [sum : Int, n : Nat]] /\ [sum |-> 0, n |-> 0] \in [sum : Int, n : Nat]
  <2>1. ASSUME NEW a \in [sum : Int, n : Nat], NEW x \in (1 .. t0) PROVE AddSample(a, x, t0) \in [sum : Int, n : Nat]
    <3>1. CASE x \in InQuarter(t0) /\ heard[x] \in Power
      <4>1. heard[x] \in Int /\ a.sum \in Int /\ a.n \in Nat
        BY <3>1
      <4> QED
        BY <3>1, <4>1 DEF AddSample
    <3>2. CASE ~ (x \in InQuarter(t0) /\ heard[x] \in Power)
      BY <3>2 DEF AddSample
    <3> QED
      BY <3>1, <3>2
  <2>2. [sum |-> 0, n |-> 0] \in [sum : Int, n : Nat]
    OBVIOUS
  <2> QED
    BY <2>1, <2>2
<1>3. \A a \in [sum : Int, n : Nat], x \in (1 .. t0) : st[<<a, x>>] = AddSample(a, x, t0)
  OBVIOUS
<1>4. it = Step(it)
  <2> HIDE DEF st
  <2>2. PICK f \in [SUBSET DOMAIN Count(t0) -> [sum : Int, n : Nat]] : Folds(f, st, [sum |-> 0, n |-> 0], Count(t0), n)
    BY <1>0, <1>2, FoldExists
  <2>3. ASSUME NEW t \in SUBSET DOMAIN Count(t0) PROVE f[t] = Step(f)[t]
    <3>1. CASE t = {}
      BY <1>0, <2>2, <3>1 DEF Folds
    <3>2. CASE t # {}
      <4>1. Max(t) \in DOMAIN Count(t0) /\ t \ {Max(t)} \in SUBSET DOMAIN Count(t0)
        BY <1>0, <3>2, HasMax
      <4>2. Count(t0)[Max(t)] \in (1 .. t0) /\ f[t \ {Max(t)}] \in [sum : Int, n : Nat]
        BY <1>0, <2>2, <4>1
      <4>3. f[t] = st[<<f[t \ {Max(t)}], Count(t0)[Max(t)]>>]
        BY <1>0, <2>2, <3>2 DEF Folds
      <4>4. st[<<f[t \ {Max(t)}], Count(t0)[Max(t)]>>] = AddSample(f[t \ {Max(t)}], Count(t0)[Max(t)], t0)
        BY <1>3, <4>2
      <4> QED
        BY <3>2, <4>3, <4>4
    <3> QED
      BY <3>1, <3>2
  <2>4. f = Step(f)
    BY <2>2, <2>3
  <2> QED
    BY <2>4
<1> DEFINE P == {i \in 0 .. n : it[1 .. i] \in [sum : Int, n : Nat]}
<1>5. it[1 .. 0] = [sum |-> 0, n |-> 0] /\ 0 \in P
  <2>1. 1 .. 0 = {} /\ {} \in SUBSET DOMAIN Count(t0)
    OBVIOUS
  <2> HIDE DEF it, st
  <2>2. it[1 .. 0] = [sum |-> 0, n |-> 0]
    BY <1>4, <2>1
  <2> QED
    BY <1>0, <1>2, <2>2
<1>6. ASSUME NEW i \in 1 .. n
      PROVE  it[1 .. i] = AddSample(it[1 .. (i - 1)], Count(t0)[i], t0)
  <2> DEFINE t == 1 .. i
  <2>1. t \in SUBSET DOMAIN Count(t0) /\ t # {} /\ Max(t) = i /\ t \ {i} = 1 .. (i - 1)
    BY <1>0, Prefix
  <2> HIDE DEF it, t, st
  <2>2. it[t] = AddSample(it[1 .. (i - 1)], Count(t0)[i], t0)
    BY <1>4, <2>1
  <2> QED
    BY <2>2 DEF t
<1>7. ASSUME NEW i \in 1 .. n, i - 1 \in P PROVE i \in P
  <2> HIDE DEF it, st
  <2>1. it[1 .. (i - 1)] \in [sum : Int, n : Nat] /\ Count(t0)[i] \in (1 .. t0)
    BY <1>0, <1>7
  <2>2. it[1 .. i] = st[<<it[1 .. (i - 1)], Count(t0)[i]>>]
    BY <1>3, <1>6, <2>1
  <2>3. it[1 .. i] \in [sum : Int, n : Nat]
    BY <1>2, <2>1, <2>2
  <2> QED
    BY <1>0, <2>3
<1> HIDE DEF P, n, it, st
<1>8. 0 .. n \subseteq P
  BY <1>0, <1>5, <1>7, UpTo
<1> DEFINE pre == [i \in 0 .. n |-> it[1 .. i]]
<1>9. pre \in [0 .. n -> [sum : Int, n : Nat]]
  BY <1>8 DEF P
<1>10. \A i \in 1 .. n : pre[i] = it[1 .. i] /\ pre[i - 1] = it[1 .. (i - 1)]
  BY <1>0
<1>11. pre[0] = it[1 .. 0] /\ pre[n] = it[1 .. n]
  BY <1>0
<1> HIDE DEF pre
<1>12. \A i \in 1 .. n : pre[i] = AddSample(pre[i - 1], Count(t0)[i], t0)
  BY <1>6, <1>10
<1> QED
  BY <1>0, <1>1, <1>5, <1>9, <1>11, <1>12 DEF n

\* The sum of a quarter hour lies between multiples of two of its samples.
Held(a, t) ==
  /\ a \in [sum : Int, n : Nat]
  /\ a.n = 0 => a.sum = 0
  /\ a.n > 0 => \E u, w \in InQuarter(t) :
       /\ heard[u] \in Power /\ heard[w] \in Power
       /\ a.n * heard[u] <= a.sum /\ a.sum <= a.n * heard[w]

\* A smaller factor, and one more time.
LEMMA MoreTimes ==
  ASSUME NEW n \in Nat, NEW x \in Int, NEW y \in Int, NEW s \in Int
  PROVE  /\ n * x <= s /\ x <= y => (n + 1) * x <= s + y
         /\ n * x <= s /\ y <= x => (n + 1) * y <= s + y
         /\ s <= n * x /\ y <= x => s + y <= (n + 1) * x
         /\ s <= n * x /\ x <= y => s + y <= (n + 1) * y
<1>1. (n + 1) * x = n * x + x /\ (n + 1) * y = n * y + y /\ n * x \in Int /\ n * y \in Int
  OBVIOUS
<1>2. (y <= x => n * y <= n * x) /\ (x <= y => n * x <= n * y)
  OBVIOUS
<1> QED
  BY <1>1, <1>2

LEMMA HeldNext ==
  ASSUME Power \subseteq Int, NEW t \in Nat, NEW a, Held(a, t), NEW v \in 1 .. t
  PROVE  Held(AddSample(a, v, t), t)
<1>1. CASE ~ (v \in InQuarter(t) /\ heard[v] \in Power)
  BY <1>1 DEF AddSample
<1>2. CASE v \in InQuarter(t) /\ heard[v] \in Power
  <2> DEFINE b == AddSample(a, v, t)
             y == heard[v]
  <2>1. /\ b \in [sum : Int, n : Nat] /\ b.sum = a.sum + y /\ b.n = a.n + 1 /\ b.n > 0
        /\ y \in Int /\ a.sum \in Int /\ a.n \in Nat
    <3>1. y \in Int
      BY <1>2
    <3>2. a \in [sum : Int, n : Nat]
      BY DEF Held
    <3>3. b = [sum |-> a.sum + y, n |-> a.n + 1]
      BY <1>2 DEF AddSample
    <3> QED
      BY <3>1, <3>2, <3>3
  <2>2. CASE a.n = 0
    <3>1. b.n * heard[v] = y /\ b.sum = y
      BY <2>1, <2>2 DEF Held
    <3> QED
      BY <1>2, <2>1, <3>1 DEF Held
  <2>3. CASE a.n > 0
    <3>1. PICK u \in InQuarter(t), w \in InQuarter(t) :
                 /\ heard[u] \in Power /\ heard[w] \in Power
                 /\ a.n * heard[u] <= a.sum /\ a.sum <= a.n * heard[w]
      BY <2>3 DEF Held
    <3>2. heard[u] \in Int /\ heard[w] \in Int
      BY <3>1
    <3> DEFINE lo == IF heard[u] <= y THEN u ELSE v
               hi == IF y <= heard[w] THEN w ELSE v
    <3>3. b.n * heard[lo] <= b.sum
      <4>1. heard[u] <= y => (a.n + 1) * heard[u] <= a.sum + y
        BY <2>1, <3>1, <3>2, MoreTimes
      <4>2. y <= heard[u] => (a.n + 1) * y <= a.sum + y
        BY <2>1, <3>1, <3>2, MoreTimes
      <4> QED
        BY <2>1, <3>2, <4>1, <4>2
    <3>4. b.sum <= b.n * heard[hi]
      <4>1. y <= heard[w] => a.sum + y <= (a.n + 1) * heard[w]
        BY <2>1, <3>1, <3>2, MoreTimes
      <4>2. heard[w] <= y => a.sum + y <= (a.n + 1) * y
        BY <2>1, <3>1, <3>2, MoreTimes
      <4> QED
        BY <2>1, <3>2, <4>1, <4>2
    <3>5. lo \in InQuarter(t) /\ hi \in InQuarter(t) /\ heard[lo] \in Power /\ heard[hi] \in Power
      BY <1>2, <3>1
    <3> HIDE DEF b, lo, hi
    <3> QED
      BY <2>1, <3>3, <3>4, <3>5 DEF Held, b
  <2> QED
    BY <2>1, <2>2, <2>3
<1> QED
  BY <1>1, <1>2

LEMMA AccumHeld ==
  ASSUME Power \subseteq Int, NEW t \in Nat
  PROVE  Held(Accum(t), t)
<1>1. PICK pre \in [0 .. Len(Count(t)) -> [sum : Int, n : Nat]] :
             /\ pre[0] = [sum |-> 0, n |-> 0]
             /\ \A i \in 1 .. Len(Count(t)) : pre[i] = AddSample(pre[i - 1], Count(t)[i], t)
             /\ Accum(t) = pre[Len(Count(t))]
  BY AccumFold
<1>2. Len(Count(t)) = t /\ \A i \in 1 .. t : Count(t)[i] = i
  BY DEF Count
<1> DEFINE P == {i \in 0 .. t : Held(pre[i], t)}
<1>3. 0 \in P
  BY <1>1 DEF Held
<1>4. ASSUME NEW i \in 1 .. t, i - 1 \in P PROVE i \in P
  <2>1. pre[i] = AddSample(pre[i - 1], i, t) /\ Held(pre[i - 1], t)
    BY <1>1, <1>2, <1>4
  <2> QED
    BY <2>1, HeldNext
<1> HIDE DEF P
<1>5. 0 .. t \subseteq P
  BY <1>3, <1>4, UpTo
<1> QED
  BY <1>1, <1>2, <1>5 DEF P

\* The mean that is stored lies between two samples of its quarter hour.
LEMMA MeanHeld ==
  ASSUME Power \subseteq Int, NoValue \notin Int, NEW t \in Nat
  PROVE  LET m == Mean(Accum(t))
         IN m = NoValue \/ (m \in Int /\ \E u, w \in InQuarter(t) :
              heard[u] \in Power /\ heard[w] \in Power /\ heard[u] <= m /\ m <= heard[w])
<1> DEFINE a == Accum(t)
<1>1. Held(a, t)
  BY AccumHeld
<1> HIDE DEF a
<1> SUFFICES ASSUME a.n # 0
             PROVE  Mean(a) \in Int /\ \E u, w \in InQuarter(t) :
              heard[u] \in Power /\ heard[w] \in Power /\ heard[u] <= Mean(a) /\ Mean(a) <= heard[w]
  BY DEF Mean, a
<1>2. a.sum \in Int /\ a.n \in Nat /\ a.n > 0
  BY <1>1 DEF Held
<1>3. PICK u \in InQuarter(t), w \in InQuarter(t) :
             /\ heard[u] \in Power /\ heard[w] \in Power
             /\ a.n * heard[u] <= a.sum /\ a.sum <= a.n * heard[w]
  BY <1>1, <1>2 DEF Held
<1>4. heard[u] \in Int /\ heard[w] \in Int
  BY <1>3
<1>5. Mean(a) \in Int /\ heard[u] <= Mean(a) /\ Mean(a) <= heard[w]
  <2>1. CASE a.sum >= 0
    <3>1. a.sum \div a.n \in Int /\ heard[u] <= a.sum \div a.n /\ a.sum \div a.n <= heard[w]
      BY <1>2, <1>3, <1>4, <2>1, MeanBetween
    <3> QED
      BY <1>2, <2>1, <3>1 DEF Mean
  <2>2. CASE a.sum < 0
    <3> DEFINE s == - a.sum
               lo == - heard[w]
               hi == - heard[u]
    <3>1. a.n * lo = - (a.n * heard[w]) /\ a.n * hi = - (a.n * heard[u])
      BY <1>2, <1>4
    <3>2. a.n * heard[w] \in Int /\ a.n * heard[u] \in Int
      BY <1>2, <1>4
    <3>3. s \in Int /\ s >= 0 /\ lo \in Int /\ hi \in Int
      BY <1>2, <1>4, <2>2
    <3>4. a.n * lo <= s /\ s <= a.n * hi
      BY <1>2, <1>3, <3>1, <3>2
    <3>5. s \div a.n \in Int /\ lo <= s \div a.n /\ s \div a.n <= hi
      <4> HIDE DEF s, lo, hi
      <4> QED
        BY <1>2, <3>3, <3>4, MeanBetween
    <3>6. Mean(a) = - (s \div a.n)
      BY <1>2, <2>2 DEF Mean
    <3> DEFINE d == s \div a.n
    <3> HIDE DEF d
    <3>7. d \in Int /\ - heard[w] <= d /\ d <= - heard[u] /\ Mean(a) = - d
      BY <3>5, <3>6 DEF d
    <3> QED
      BY <1>4, <3>7
  <2> QED
    BY <1>2, <2>1, <2>2
<1> QED
  BY <1>3, <1>5

\* A sample of RAM is what the meter said at its tick, or the meter said nothing.
RingTrue == \A k \in 1 .. Len(ring) :
              LET t == tick - Len(ring) + k
              IN t >= 0 /\ (ring[k] = heard[t] \/ heard[t] = Silent)

\* An average lies between two samples of its quarter hour.
Averaged(avg, h, till) ==
  \A q \in Quarters : avg[q] # NoValue =>
    \E u, w \in 0 .. till : /\ QuarterOf(u) = q /\ QuarterOf(w) = q
                           /\ h[u] \in Power /\ h[w] \in Power
                           /\ h[u] <= avg[q] /\ avg[q] <= h[w]

HourInv == /\ HrTypeOK /\ RingTrue
           /\ Averaged(averages, heard, tick) /\ Averaged(dayCopy, heard, tick)

HourConsts == /\ Power \subseteq Int /\ PerQuarter \in Nat \ {0} /\ Window \in Nat \ {0}
              /\ MaxTicks \in Nat \ {0}
              /\ NoValue \notin Int /\ Silent \notin Int /\ Off \notin Int /\ Silent # Off

LEMMA HourInvInit == HourConsts /\ HrInit => HourInv
<1> SUFFICES ASSUME HourConsts, HrInit PROVE HourInv
  OBVIOUS
<1>1. ring = <<>> /\ Len(ring) = 0
  BY DEF HrInit
<1>2. HrTypeOK
  BY <1>1 DEF HrInit, HrTypeOK, HourConsts
<1>3. RingTrue
  BY <1>1 DEF RingTrue
<1>4. Averaged(averages, heard, tick) /\ Averaged(dayCopy, heard, tick)
  BY DEF HrInit, Averaged
<1> QED
  BY <1>2, <1>3, <1>4 DEF HourInv

\* What is heard later does not change an average.
LEMMA AveragedLater ==
  ASSUME NEW avg, NEW h, NEW g, NEW s \in Nat, NEW t \in Nat, s <= t,
         Averaged(avg, h, s), \A u \in 0 .. s : g[u] = h[u]
  PROVE  Averaged(avg, g, t)
<1> SUFFICES ASSUME NEW q \in Quarters, avg[q] # NoValue
             PROVE  \E u, w \in 0 .. t : /\ QuarterOf(u) = q /\ QuarterOf(w) = q
                           /\ g[u] \in Power /\ g[w] \in Power
                           /\ g[u] <= avg[q] /\ avg[q] <= g[w]
  BY DEF Averaged
<1>1. PICK u \in 0 .. s, w \in 0 .. s : 
                           /\ QuarterOf(u) = q /\ QuarterOf(w) = q
                           /\ h[u] \in Power /\ h[w] \in Power
                           /\ h[u] <= avg[q] /\ avg[q] <= h[w]
  BY DEF Averaged
<1>2. u \in 0 .. t /\ w \in 0 .. t /\ g[u] = h[u] /\ g[w] = h[w]
  OBVIOUS
<1> QED
  BY <1>1, <1>2

\* The newest sample, and the ring without its oldest.
LEMMA HourSampled ==
  ASSUME HourConsts, HourInv, NEW x \in Power \cup {Silent}, sampled(x)
  PROVE  HourInv'
<1> DEFINE t == tick + 1
           r == IF Len(ring) < Window THEN ring ELSE Tail(ring)
           y == IF x = Silent THEN Newest ELSE x
<1>1. /\ tick \in Nat /\ t \in 1 .. MaxTicks /\ tick' = t
      /\ heard \in [0 .. MaxTicks -> Power \cup {Silent, Off}] /\ heard' = [heard EXCEPT ![t] = x]
      /\ ring \in Seq(Int) /\ Len(ring) \in Nat /\ Len(ring) <= Window /\ Window \in Nat \ {0}
      /\ ring' = Append(r, y)
      /\ dayCopy' = dayCopy
      /\ averages \in [Quarters -> Int \cup {NoValue}] /\ dayCopy \in [Quarters -> Int \cup {NoValue}]
  BY DEF sampled, HourInv, HrTypeOK, HourConsts
<1>2. y \in Int
  <2>1. CASE x # Silent
    BY <2>1 DEF HourConsts
  <2>2. CASE x = Silent
    <3>1. Newest \in Int
      BY <1>1 DEF Newest
    <3> QED
      BY <2>2, <3>1
  <2> QED
    BY <2>1, <2>2
<1>3. /\ r \in Seq(Int) /\ Len(r) \in Nat /\ Len(r) < Window /\ Len(r) <= Len(ring)
      /\ \A k \in 1 .. Len(r) : k + Len(ring) - Len(r) \in 1 .. Len(ring) /\ r[k] = ring[k + Len(ring) - Len(r)]
  <2>1. CASE Len(ring) < Window
    BY <1>1, <2>1
  <2>2. CASE ~ (Len(ring) < Window)
    <3>1. ring # <<>> /\ Len(ring) = Window
      BY <1>1, <2>2
    <3>2. Tail(ring) \in Seq(Int) /\ Len(Tail(ring)) = Len(ring) - 1
          /\ \A k \in 1 .. Len(ring) - 1 : Tail(ring)[k] = ring[k + 1]
      BY <1>1, <3>1
    <3> QED
      BY <1>1, <2>2, <3>1, <3>2
  <2> QED
    BY <2>1, <2>2
<1>4. /\ ring' \in Seq(Int) /\ Len(ring') = Len(r) + 1 /\ Len(ring') <= Window
      /\ \A k \in 1 .. Len(r) : ring'[k] = r[k]
      /\ ring'[Len(r) + 1] = y
  <2> HIDE DEF r, y
  <2> QED
    BY <1>1, <1>2, <1>3
<1>5. (\A u \in 0 .. tick : heard'[u] = heard[u]) /\ heard'[t] = x
      /\ heard' \in [0 .. MaxTicks -> Power \cup {Silent, Off}]
  BY <1>1
<1>6. RingTrue'
  <2> SUFFICES ASSUME NEW k \in 1 .. Len(ring')
               PROVE  LET u == t - Len(ring') + k
                      IN u >= 0 /\ (ring'[k] = heard'[u] \/ heard'[u] = Silent)
    BY <1>1 DEF RingTrue
  <2> DEFINE u == t - Len(ring') + k
  <2>0. x # Silent => y = x
    OBVIOUS
  <2> HIDE DEF r, y
  <2>1. CASE k = Len(r) + 1
    <3>1. u = t /\ ring'[k] = y /\ heard'[u] = x
      BY <1>1, <1>4, <1>5, <2>1
    <3> QED
      BY <1>1, <2>0, <3>1
  <2>2. CASE k # Len(r) + 1
    <3> DEFINE l == k + Len(ring) - Len(r)
    <3>0. k \in 1 .. Len(r)
      BY <1>3, <1>4, <2>2
    <3>1. k \in 1 .. Len(r) /\ ring'[k] = r[k] /\ l \in 1 .. Len(ring) /\ r[k] = ring[l]
      BY <1>3, <1>4, <3>0
    <3>2. u = tick - Len(ring) + l
      BY <1>1, <1>3, <1>4, <3>1
    <3>3. u >= 0 /\ (ring[l] = heard[u] \/ heard[u] = Silent)
      BY <3>1, <3>2 DEF HourInv, RingTrue
    <3> HIDE DEF u, l
    <3>4. u \in 0 .. tick
      BY <1>1, <3>1, <3>2, <3>3
    <3>5. heard'[u] = heard[u]
      BY <1>5, <3>4
    <3> QED
      BY <3>1, <3>3, <3>5 DEF u
  <2> QED
    BY <2>1, <2>2
<1>7. averages' \in [Quarters -> Int \cup {NoValue}] /\ Averaged(averages', heard, tick)
  <2> DEFINE q0 == QuarterOf(tick)
             m  == Mean(Accum(tick))
  <2>0. Averaged(averages, heard, tick)
    BY DEF HourInv
  <2>1. CASE averages' = averages
    BY <1>1, <2>0, <2>1
  <2>2. CASE averages' = [averages EXCEPT ![q0] = m]
    <3>1. m = NoValue \/ (m \in Int /\ \E u, w \in InQuarter(tick) :
              heard[u] \in Power /\ heard[w] \in Power /\ heard[u] <= m /\ m <= heard[w])
      BY <1>1, MeanHeld DEF HourConsts
    <3>2. \A u \in InQuarter(tick) : u \in 0 .. tick /\ QuarterOf(u) = q0
      BY DEF InQuarter
    <3> HIDE DEF q0, m
    <3>3. ASSUME NEW q \in Quarters, averages'[q] # NoValue
          PROVE  \E u, w \in 0 .. tick : /\ QuarterOf(u) = q /\ QuarterOf(w) = q
                           /\ heard[u] \in Power /\ heard[w] \in Power
                           /\ heard[u] <= averages'[q] /\ averages'[q] <= heard[w]
      <4>1. CASE q = q0
        <5>1. averages'[q] = m
          BY <1>1, <2>2, <4>1
        <5> QED
          BY <3>1, <3>2, <3>3, <4>1, <5>1
      <4>2. CASE q # q0
        <5>1. averages'[q] = averages[q]
          BY <1>1, <2>2, <4>2
        <5> QED
          BY <2>0, <3>3, <5>1 DEF Averaged
      <4> QED
        BY <4>1, <4>2
    <3> QED
      BY <1>1, <2>2, <3>1, <3>3 DEF Averaged
  <2> QED
    BY <2>1, <2>2 DEF sampled
<1>8. Averaged(averages', heard', t) /\ Averaged(dayCopy, heard', t)
  <2>1. Averaged(dayCopy, heard, tick) /\ tick <= t /\ t \in Nat
    BY <1>1 DEF HourInv
  <2> QED
    BY <1>1, <1>5, <1>7, <2>1, AveragedLater
<1>9. HrTypeOK'
  BY <1>1, <1>4, <1>5, <1>7 DEF HrTypeOK, Quarters, QuarterOf
<1> QED
  BY <1>1, <1>6, <1>8, <1>9 DEF HourInv, Averaged, Quarters, QuarterOf

LEMMA HourInvNext ==
  ASSUME HourConsts, HourInv, [HrNext]_hrVars
  PROVE  HourInv'
<1>1. CASE Sampled
  BY <1>1, HourSampled DEF Sampled
<1>2. CASE PowerCut
  <2>1. tick \in Nat /\ tick + 1 \in 0 .. MaxTicks /\ tick' = tick + 1 /\ ring' = <<>> /\ heard' = heard
        /\ averages' = averages /\ dayCopy' = dayCopy /\ Len(ring') = 0
    BY <1>2 DEF PowerCut, HourInv, HrTypeOK, HourConsts
  <2>2. HrTypeOK'
    BY <2>1 DEF HourInv, HrTypeOK, Quarters, QuarterOf, HourConsts
  <2>3. RingTrue'
    BY <2>1 DEF RingTrue
  <2>4. Averaged(averages, heard, tick + 1) /\ Averaged(dayCopy, heard, tick + 1)
    <3>1. tick <= tick + 1 /\ tick + 1 \in Nat
      BY <2>1
    <3> QED
      BY <2>1, <3>1, AveragedLater DEF HourInv
  <2> QED
    BY <2>1, <2>2, <2>3, <2>4 DEF HourInv, Averaged, Quarters, QuarterOf
<1>3. CASE readDay
  BY <1>3 DEF readDay, HourInv, HrTypeOK, RingTrue, Averaged, Quarters, QuarterOf
<1>4. CASE UNCHANGED hrVars
  BY <1>4 DEF hrVars, HourInv, HrTypeOK, RingTrue, Averaged, Quarters, QuarterOf
<1> QED
  BY <1>1, <1>2, <1>3, <1>4 DEF HrNext

-----------------------------------------------------------------------------
(* HourChart: what the chart shows.                                        *)

\* The hour is a stretch of slots that ends now.
LEMMA LastHourIs ==
  ASSUME HourConsts
  PROVE  \E since \in 1 .. Window + 1 :
           /\ Len(lastHour) = Window - since + 1
           /\ DOMAIN lastHour = 1 .. Len(lastHour)
           /\ \A i \in 1 .. Len(lastHour) : since + i - 1 \in 1 .. Window /\ lastHour[i] = slot(since + i - 1)
<1> DEFINE all   == [j \in 1 .. Window |-> slot(j)]
           known == {j \in 1 .. Window : all[j].v # NoValue}
           since == IF known = {} THEN Window + 1 ELSE CHOOSE j \in known : \A k \in known : j <= k
<1>1. Window \in Nat \ {0}
  BY DEF HourConsts
<1>2. since \in 1 .. Window + 1
  <2>1. CASE known = {}
    BY <1>1, <2>1
  <2>2. CASE known # {}
    <3>1. known \subseteq Nat /\ known \subseteq 1 .. Window
      BY <1>1
    <3> HIDE DEF known
    <3>2. \E j \in known : \A k \in known : j <= k
      BY <2>2, <3>1, LeastNat
    <3>3. since \in known
      BY <2>2, <3>2
    <3> HIDE DEF since
    <3> QED
      BY <1>1, <3>1, <3>3
  <2> QED
    BY <2>1, <2>2
<1>3. lastHour = SubSeq(all, since, Window)
  BY DEF lastHour
<1> HIDE DEF since
<1>4. all \in Seq({slot(j) : j \in 1 .. Window}) /\ Len(all) = Window
  BY <1>1
<1>5. \A j \in 1 .. Window : all[j] = slot(j)
  OBVIOUS
<1> HIDE DEF all, known
<1> DEFINE q == SubSeq(all, since, Window)
<1>6. Len(q) = Window - since + 1 /\ DOMAIN q = 1 .. Len(q)
      /\ \A i \in 1 .. Len(q) : q[i] = all[since + i - 1] /\ since + i - 1 \in 1 .. Window
  <2>1. q = [i \in 1 .. Window - since + 1 |-> all[since + i - 1]]
    BY <1>1, <1>2, <1>4
  <2>2. Window - since + 1 \in Nat
    BY <1>1, <1>2
  <2>3. Len(q) = Window - since + 1 /\ DOMAIN q = 1 .. Window - since + 1
    BY <2>1, <2>2
  <2>4. ASSUME NEW i \in 1 .. Window - since + 1 PROVE since + i - 1 \in 1 .. Window
    BY <1>1, <1>2
  <2> QED
    BY <2>1, <2>3, <2>4
<1> HIDE DEF q
<1>7. lastHour = q
  BY <1>3 DEF q
<1> QED
  BY <1>2, <1>5, <1>6, <1>7

\* What a slot holds.
LEMMA SlotIs ==
  ASSUME HourConsts, HourInv, NEW j \in 1 .. Window
  PROVE  LET s == slot(j)
             t == tick - Window + j
         IN /\ s.v \in Int \cup {NoValue}
            /\ s.from = "ring" <=> j > Window - Len(ring)
            /\ s.from = "ring" => s.v \in Int /\ (s.v = heard[t] \/ heard[t] = Silent)
            /\ s.from = "store" <=> s.from # "ring"
            /\ s.from = "store" /\ s.v # NoValue => Between(s.v, t - 1)
            /\ s.from = "store" /\ s.v = NoValue /\ t > 0 => dayCopy[QuarterOf(t - 1)] = NoValue
<1> DEFINE u == tick - Window + (j - 1)
           t == tick - Window + j
           k == j - (Window - Len(ring))
<1>1. /\ tick \in Nat /\ tick <= MaxTicks /\ MaxTicks \in Nat /\ Window \in Nat \ {0} /\ ring \in Seq(Int)
      /\ Len(ring) \in Nat /\ Len(ring) <= Window
      /\ dayCopy \in [Quarters -> Int \cup {NoValue}] /\ NoValue \notin Int
      /\ u \in Int /\ t \in Int /\ u = t - 1 /\ u < tick /\ k \in Int
  BY DEF HourInv, HrTypeOK, HourConsts
<1>2. CASE j > Window - Len(ring)
  <2>1. slot(j) = [v |-> ring[k], from |-> "ring"]
    BY <1>2 DEF slot, covered
  <2>2. k \in 1 .. Len(ring) /\ tick - Len(ring) + k = t
    BY <1>1, <1>2
  <2>3. ring[k] = heard[t] \/ heard[t] = Silent
    BY <2>2 DEF HourInv, RingTrue
  <2>4. ring[k] \in Int
    BY <1>1, <2>2
  <2> QED
    BY <1>1, <1>2, <2>1, <2>3, <2>4
<1>3. CASE ~ (j > Window - Len(ring))
  <2>1. CASE u < 0 \/ dayCopy[QuarterOf(u)] = NoValue
    <3>1. slot(j) = [v |-> NoValue, from |-> "store"]
      BY <1>3, <2>1 DEF slot, covered
    <3>2. t > 0 => dayCopy[QuarterOf(t - 1)] = NoValue
      BY <1>1, <2>1
    <3> QED
      BY <1>3, <3>1, <3>2
  <2>2. CASE ~ (u < 0 \/ dayCopy[QuarterOf(u)] = NoValue)
    <3> DEFINE q == QuarterOf(u)
    <3>1. slot(j) = [v |-> dayCopy[q], from |-> "store"]
      BY <1>3, <2>2 DEF slot, covered
    <3>2. u \in Nat /\ u <= MaxTicks
      BY <1>1, <2>2
    <3>3. q \in Quarters
      <4>1. q \in Nat /\ q <= QuarterOf(MaxTicks)
        BY <1>1, <3>2, QuarterMonotone DEF HourConsts
      <4>2. QuarterOf(MaxTicks) \in Nat
        BY <1>1, QuarterMonotone DEF HourConsts
      <4> QED
        BY <4>1, <4>2 DEF Quarters
    <3>4. dayCopy[q] # NoValue /\ dayCopy[q] \in Int
      BY <1>1, <2>2, <3>3
    <3>5. PICK a \in 0 .. tick, b \in 0 .. tick :
            /\ QuarterOf(a) = q /\ QuarterOf(b) = q
            /\ heard[a] \in Power /\ heard[b] \in Power
            /\ heard[a] <= dayCopy[q] /\ dayCopy[q] <= heard[b]
      BY <3>3, <3>4 DEF HourInv, Averaged
    <3>6. heard[a] \in Said(u) /\ heard[b] \in Said(u)
      <4>1. \A x \in Power : x # Silent /\ x # Off
        BY DEF HourConsts
      <4> QED
        BY <3>5, <4>1 DEF Said
    <3>7. Between(dayCopy[q], u)
      BY <3>5, <3>6 DEF Between
    <3> HIDE DEF q, u
    <3> QED
      BY <1>1, <1>3, <3>1, <3>4, <3>7
  <2> QED
    BY <2>1, <2>2
<1> QED
  BY <1>2, <1>3

LEMMA HourIsTrue == ASSUME HourConsts, HourInv PROVE HourTrue
<1> DEFINE hour == lastHour
           n    == Len(hour)
<1>1. PICK since \in 1 .. Window + 1 :
           /\ n = Window - since + 1
           /\ \A i \in 1 .. n : since + i - 1 \in 1 .. Window /\ hour[i] = slot(since + i - 1)
  BY LastHourIs
<1>2. Window \in Nat \ {0} /\ tick \in Nat /\ Len(ring) \in Nat /\ n \in Nat
  BY <1>1 DEF HourConsts, HourInv, HrTypeOK
<1> HIDE DEF hour, n
<1> SUFFICES ASSUME NEW i \in 1 .. n
    PROVE  /\ fromRing(i, n) = (hour[i].from = "ring")
           /\ hour[i].from = "ring" => hour[i].v = heard[clockAt(i, n)] \/ heard[clockAt(i, n)] = Silent
           /\ hour[i].from = "store" /\ hour[i].v # NoValue =>
                Between(hour[i].v, clockAt(i, n)) \/ Between(hour[i].v, clockAt(i, n) - 1)
           /\ hour[i].v = NoValue => /\ tick - clockAt(i, n) >= Len(ring)
                                     /\ clockAt(i, n) > 0 => dayCopy[QuarterOf(clockAt(i, n) - 1)] = NoValue
  BY DEF HourTrue, hour, n
<1> DEFINE j == since + i - 1
           t == tick - Window + j
           s == slot(j)
<1>3. j \in 1 .. Window /\ hour[i] = s
  BY <1>1
<1>4. clockAt(i, n) = t
  BY <1>1, <1>2 DEF clockAt
<1>5. fromRing(i, n) <=> j > Window - Len(ring)
  BY <1>1, <1>2 DEF fromRing, covered
<1>6. /\ s.v \in Int \cup {NoValue}
      /\ s.from = "ring" <=> j > Window - Len(ring)
      /\ s.from = "ring" => s.v \in Int /\ (s.v = heard[t] \/ heard[t] = Silent)
      /\ s.from = "store" <=> s.from # "ring"
      /\ s.from = "store" /\ s.v # NoValue => Between(s.v, t - 1)
      /\ s.from = "store" /\ s.v = NoValue /\ t > 0 => dayCopy[QuarterOf(t - 1)] = NoValue
  BY <1>3, SlotIs
<1>7. j <= Window - Len(ring) => tick - t >= Len(ring)
  BY <1>2, <1>3
<1>8. s.v = NoValue => s.from = "store" /\ j <= Window - Len(ring)
  BY <1>2, <1>3, <1>6 DEF HourConsts
<1>9. fromRing(i, n) = (s.from = "ring")
  BY <1>5, <1>6 DEF fromRing
<1> HIDE DEF s, t, j
<1> QED
  BY <1>3, <1>4, <1>6, <1>7, <1>8, <1>9

-----------------------------------------------------------------------------
(* HourChart: the line.                                                    *)

\* The runs so far, and whether the last one goes on.
RunOf    == [sign : {1, -1}, pts : Seq([i : Int, cross : BOOLEAN])]
RunState == {a \in [runs : Seq(RunOf), open : BOOLEAN] : a.open => a.runs # <<>>}

\* A run with one more point.
WithPoint(r, p) == [r EXCEPT !.pts = Append(@, p)]

LEMMA WithPointIs ==
  ASSUME NEW r \in RunOf, NEW p \in [i : Int, cross : BOOLEAN]
  PROVE  LET q == WithPoint(r, p)
         IN /\ q \in RunOf /\ q.sign = r.sign /\ Len(q.pts) = Len(r.pts) + 1
            /\ \A m \in 1 .. Len(r.pts) : q.pts[m] = r.pts[m]
            /\ q.pts[Len(r.pts) + 1] = p
<1> DEFINE ps == r.pts
<1>1. ps \in Seq([i : Int, cross : BOOLEAN]) /\ r.sign \in {1, -1}
  BY DEF RunOf
<1>2. WithPoint(r, p) = [sign |-> r.sign, pts |-> Append(ps, p)]
  BY DEF WithPoint, RunOf
<1> HIDE DEF ps
<1>3. /\ Append(ps, p) \in Seq([i : Int, cross : BOOLEAN]) /\ Len(Append(ps, p)) = Len(ps) + 1
      /\ \A m \in 1 .. Len(ps) : Append(ps, p)[m] = ps[m]
      /\ Append(ps, p)[Len(ps) + 1] = p
  BY <1>1
<1> QED
  BY <1>1, <1>2, <1>3 DEF RunOf, ps

\* A run that begins at a slot, or at the crossing before it.
Begun(g, x)   == [sign |-> g, pts |-> <<Pt(x, FALSE)>>]
Crossed(g, x) == [sign |-> g, pts |-> <<Pt(x, TRUE), Pt(x, FALSE)>>]

LEMMA ShortRuns ==
  ASSUME NEW g \in {1, -1}, NEW x \in Int
  PROVE  Begun(g, x) \in RunOf /\ Crossed(g, x) \in RunOf
<1> DEFINE T == [i : Int, cross : BOOLEAN]
           p == Pt(x, TRUE)
           q == Pt(x, FALSE)
<1>1. p \in T /\ q \in T
  BY DEF Pt
<1> HIDE DEF T, p, q
<1>2. <<q>> \in Seq(T) /\ <<p, q>> \in Seq(T)
  BY <1>1
<1> QED
  BY <1>2 DEF RunOf, T, Begun, Crossed, p, q

\* An unknown slot ends the run.
LEMMA ExtendedNot ==
  ASSUME NEW vals \in Seq(Int \cup {NoValue}), NEW i \in 1 .. Len(vals), NEW a \in RunState, vals[i] = NoValue
  PROVE  extended(vals, a, i) \in RunState /\ ~ extended(vals, a, i).open /\ extended(vals, a, i).runs = a.runs
<1> DEFINE b == extended(vals, a, i)
           v == vals[i]
           N == Len(a.runs)
           R == a.runs
<1>1. /\ R \in Seq(RunOf) /\ N \in Nat /\ a.open \in BOOLEAN /\ (a.open => R # <<>>)
      /\ v \in Int \cup {NoValue} /\ i \in Int
      /\ a = [runs |-> R, open |-> a.open] /\ N = Len(R)
  BY DEF RunState
<1>2. Sign(v) \in {1, -1}
  BY DEF Sign
<1>3. Pt(i, TRUE) \in [i : Int, cross : BOOLEAN] /\ Pt(i, FALSE) \in [i : Int, cross : BOOLEAN]
  BY <1>1 DEF Pt
<1>4. b = [runs |-> R, open |-> FALSE]
  BY <1>1 DEF extended
<1> QED
  BY <1>1, <1>4 DEF RunState

\* The first known slot after it begins one.
LEMMA ExtendedNew ==
  ASSUME NEW vals \in Seq(Int \cup {NoValue}), NEW i \in 1 .. Len(vals), NEW a \in RunState, vals[i] # NoValue, ~ a.open
  PROVE  /\ extended(vals, a, i) \in RunState /\ extended(vals, a, i).open /\ Len(extended(vals, a, i).runs) = Len(a.runs) + 1
         /\ \A k \in 1 .. Len(a.runs) : extended(vals, a, i).runs[k] = a.runs[k]
         /\ extended(vals, a, i).runs[Len(a.runs) + 1] = Begun(Sign(vals[i]), i)
<1> DEFINE b == extended(vals, a, i)
           v == vals[i]
           N == Len(a.runs)
           R == a.runs
<1>1. /\ R \in Seq(RunOf) /\ N \in Nat /\ a.open \in BOOLEAN /\ (a.open => R # <<>>)
      /\ v \in Int \cup {NoValue} /\ i \in Int
      /\ a = [runs |-> R, open |-> a.open] /\ N = Len(R)
  BY DEF RunState
<1>2. Sign(v) \in {1, -1}
  BY DEF Sign
<1>3. Pt(i, TRUE) \in [i : Int, cross : BOOLEAN] /\ Pt(i, FALSE) \in [i : Int, cross : BOOLEAN]
  BY <1>1 DEF Pt
<1> DEFINE r == Begun(Sign(v), i)
<1>4. r \in RunOf
  BY <1>1, <1>2, ShortRuns
<1>5. b = [runs |-> Append(R, r), open |-> TRUE]
  BY DEF extended, Begun
<1> HIDE DEF r, R, v
<1>6. /\ Append(R, r) \in Seq(RunOf) /\ Len(Append(R, r)) = N + 1
      /\ (\A k \in 1 .. N : Append(R, r)[k] = R[k]) /\ Append(R, r)[N + 1] = r
  BY <1>1, <1>4
<1>7. Append(R, r) # <<>>
  BY <1>1, <1>6
<1> QED
  BY <1>5, <1>6, <1>7 DEF RunState, r, R, v

\* A slot of the other sign ends the run where the line crosses zero, and begins one there.
LEMMA ExtendedTurn ==
  ASSUME NEW vals \in Seq(Int \cup {NoValue}), NEW i \in 1 .. Len(vals), NEW a \in RunState, vals[i] # NoValue, a.open, Sign(vals[i]) # a.runs[Len(a.runs)].sign
  PROVE  /\ extended(vals, a, i) \in RunState /\ extended(vals, a, i).open /\ Len(extended(vals, a, i).runs) = Len(a.runs) + 1
         /\ \A k \in 1 .. Len(a.runs) - 1 : extended(vals, a, i).runs[k] = a.runs[k]
         /\ extended(vals, a, i).runs[Len(a.runs)] = WithPoint(a.runs[Len(a.runs)], Pt(i, TRUE))
         /\ extended(vals, a, i).runs[Len(a.runs) + 1] = Crossed(Sign(vals[i]), i)
<1> DEFINE b == extended(vals, a, i)
           v == vals[i]
           N == Len(a.runs)
           R == a.runs
<1>1. /\ R \in Seq(RunOf) /\ N \in Nat /\ a.open \in BOOLEAN /\ (a.open => R # <<>>)
      /\ v \in Int \cup {NoValue} /\ i \in Int
      /\ a = [runs |-> R, open |-> a.open] /\ N = Len(R)
  BY DEF RunState
<1>2. Sign(v) \in {1, -1}
  BY DEF Sign
<1>3. Pt(i, TRUE) \in [i : Int, cross : BOOLEAN] /\ Pt(i, FALSE) \in [i : Int, cross : BOOLEAN]
  BY <1>1 DEF Pt
<1> DEFINE r == Crossed(Sign(v), i)
           p == WithPoint(R[N], Pt(i, TRUE))
           Q == [R EXCEPT ![N] = p]
<1>4. r \in RunOf
  BY <1>1, <1>2, ShortRuns
<1>5. N \in 1 .. N /\ R[N] \in RunOf
  BY <1>1
<1>6. b = [runs |-> Append(Q, r), open |-> TRUE]
  BY <1>5 DEF extended, WithPoint, Crossed
<1>7. p \in RunOf
  BY <1>3, <1>5, WithPointIs
<1> HIDE DEF r, p, R, v, N
<1>8. Q \in Seq(RunOf) /\ Len(Q) = N /\ Q[N] = p /\ \A k \in 1 .. N - 1 : Q[k] = R[k]
  BY <1>1, <1>5, <1>7
<1> HIDE DEF Q
<1>9. /\ Append(Q, r) \in Seq(RunOf) /\ Len(Append(Q, r)) = N + 1
      /\ (\A k \in 1 .. N : Append(Q, r)[k] = Q[k]) /\ Append(Q, r)[N + 1] = r
  BY <1>4, <1>8
<1>10. Append(Q, r) # <<>>
  BY <1>1, <1>9
<1>11. \A k \in 1 .. N - 1 : k \in 1 .. N
  BY <1>1
<1>12. b \in RunState
  BY <1>6, <1>9, <1>10 DEF RunState
<1>13. /\ b.open /\ Len(b.runs) = N + 1
       /\ \A k \in 1 .. N - 1 : b.runs[k] = a.runs[k]
       /\ b.runs[N] = p /\ b.runs[N + 1] = r
  BY <1>5, <1>6, <1>8, <1>9, <1>11 DEF R
<1> QED
  BY <1>12, <1>13 DEF r, p, R, v, N

\* A slot of the same sign goes on.
LEMMA ExtendedOn ==
  ASSUME NEW vals \in Seq(Int \cup {NoValue}), NEW i \in 1 .. Len(vals), NEW a \in RunState, vals[i] # NoValue, a.open, Sign(vals[i]) = a.runs[Len(a.runs)].sign
  PROVE  /\ extended(vals, a, i) \in RunState /\ extended(vals, a, i).open /\ Len(extended(vals, a, i).runs) = Len(a.runs)
         /\ \A k \in 1 .. Len(a.runs) - 1 : extended(vals, a, i).runs[k] = a.runs[k]
         /\ extended(vals, a, i).runs[Len(a.runs)] = WithPoint(a.runs[Len(a.runs)], Pt(i, FALSE))
<1> DEFINE b == extended(vals, a, i)
           v == vals[i]
           N == Len(a.runs)
           R == a.runs
<1>1. /\ R \in Seq(RunOf) /\ N \in Nat /\ a.open \in BOOLEAN /\ (a.open => R # <<>>)
      /\ v \in Int \cup {NoValue} /\ i \in Int
      /\ a = [runs |-> R, open |-> a.open] /\ N = Len(R)
  BY DEF RunState
<1>2. Sign(v) \in {1, -1}
  BY DEF Sign
<1>3. Pt(i, TRUE) \in [i : Int, cross : BOOLEAN] /\ Pt(i, FALSE) \in [i : Int, cross : BOOLEAN]
  BY <1>1 DEF Pt
<1> DEFINE p == WithPoint(R[N], Pt(i, FALSE))
           Q == [R EXCEPT ![N] = p]
<1>4. N \in 1 .. N /\ R[N] \in RunOf
  BY <1>1
<1>5. b = [runs |-> Q, open |-> TRUE]
  BY <1>1, <1>4 DEF extended, WithPoint
<1>6. p \in RunOf
  BY <1>3, <1>4, WithPointIs
<1> HIDE DEF p, R
<1>7. /\ Q \in Seq(RunOf) /\ Len(Q) = N /\ Q[N] = p /\ Q # <<>>
      /\ \A k \in 1 .. N - 1 : Q[k] = R[k]
  BY <1>1, <1>4, <1>6
<1> HIDE DEF Q
<1>8. b \in RunState
  BY <1>5, <1>7 DEF RunState
<1>9. b.open /\ Len(b.runs) = N /\ (\A k \in 1 .. N - 1 : b.runs[k] = a.runs[k]) /\ b.runs[N] = p
  BY <1>5, <1>7 DEF R
<1> QED
  BY <1>8, <1>9 DEF p, R

\* The fold stays within its states.
LEMMA ExtendedTyped ==
  ASSUME NEW vals \in Seq(Int \cup {NoValue}), NEW i \in 1 .. Len(vals), NEW a \in RunState
  PROVE  extended(vals, a, i) \in RunState
<1>1. CASE vals[i] = NoValue
  BY <1>1, ExtendedNot
<1>2. CASE vals[i] # NoValue /\ ~ a.open
  BY <1>2, ExtendedNew
<1>3. CASE vals[i] # NoValue /\ a.open /\ Sign(vals[i]) # a.runs[Len(a.runs)].sign
  BY <1>3, ExtendedTurn
<1>4. CASE vals[i] # NoValue /\ a.open /\ Sign(vals[i]) = a.runs[Len(a.runs)].sign
  BY <1>4, ExtendedOn
<1> QED
  BY <1>1, <1>2, <1>3, <1>4

\* The fold in runs.
RunsEnd(vals) == FoldLeft(LAMBDA a, i : extended(vals, a, i), [runs |-> <<>>, open |-> FALSE],
                          [i \in 1 .. Len(vals) |-> i])

\* What runs computes.
LEMMA RunsFold ==
  ASSUME NEW vals \in Seq(Int \cup {NoValue})
  PROVE  \E pre \in [0 .. Len(Count(Len(vals))) -> RunState] :
           /\ pre[0] = [runs |-> <<>>, open |-> FALSE]
           /\ \A i \in 1 .. Len(Count(Len(vals))) : pre[i] = extended(vals, pre[i - 1], Count(Len(vals))[i])
           /\ RunsEnd(vals) = pre[Len(Count(Len(vals)))]
<1> DEFINE n == Len(Count(Len(vals)))
           st == [p \in RunState \X (1 .. Len(vals)) |-> extended(vals, p[1], p[2])]
           Step(f) == [t \in SUBSET DOMAIN Count(Len(vals)) |->
                         IF t = {} THEN [runs |-> <<>>, open |-> FALSE]
                         ELSE extended(vals, f[t \ {Max(t)}], Count(Len(vals))[Max(t)])]
           it == CHOOSE f : f = Step(f)
<1>0. Count(Len(vals)) \in Seq((1 .. Len(vals))) /\ n \in Nat /\ DOMAIN Count(Len(vals)) = 1 .. n /\ \A i \in 1 .. n : Count(Len(vals))[i] \in (1 .. Len(vals))
  BY DEF Count
<1>1. RunsEnd(vals) = it[DOMAIN Count(Len(vals))]
  BY Zenon DEF RunsEnd, Count, FoldLeft, MapThenFoldSet
<1>2. st \in [RunState \X (1 .. Len(vals)) -> RunState] /\ [runs |-> <<>>, open |-> FALSE] \in RunState
  <2>1. ASSUME NEW a \in RunState, NEW x \in (1 .. Len(vals)) PROVE extended(vals, a, x) \in RunState
    BY ExtendedTyped
  <2>2. [runs |-> <<>>, open |-> FALSE] \in RunState
    BY DEF RunState
  <2> QED
    BY <2>1, <2>2
<1>3. \A a \in RunState, x \in (1 .. Len(vals)) : st[<<a, x>>] = extended(vals, a, x)
  OBVIOUS
<1>4. it = Step(it)
  <2> HIDE DEF st
  <2>2. PICK f \in [SUBSET DOMAIN Count(Len(vals)) -> RunState] : Folds(f, st, [runs |-> <<>>, open |-> FALSE], Count(Len(vals)), n)
    BY <1>0, <1>2, FoldExists
  <2>3. ASSUME NEW t \in SUBSET DOMAIN Count(Len(vals)) PROVE f[t] = Step(f)[t]
    <3>1. CASE t = {}
      BY <1>0, <2>2, <3>1 DEF Folds
    <3>2. CASE t # {}
      <4>1. Max(t) \in DOMAIN Count(Len(vals)) /\ t \ {Max(t)} \in SUBSET DOMAIN Count(Len(vals))
        BY <1>0, <3>2, HasMax
      <4>2. Count(Len(vals))[Max(t)] \in (1 .. Len(vals)) /\ f[t \ {Max(t)}] \in RunState
        BY <1>0, <2>2, <4>1
      <4>3. f[t] = st[<<f[t \ {Max(t)}], Count(Len(vals))[Max(t)]>>]
        BY <1>0, <2>2, <3>2 DEF Folds
      <4>4. st[<<f[t \ {Max(t)}], Count(Len(vals))[Max(t)]>>] = extended(vals, f[t \ {Max(t)}], Count(Len(vals))[Max(t)])
        BY <1>3, <4>2
      <4> QED
        BY <3>2, <4>3, <4>4
    <3> QED
      BY <3>1, <3>2
  <2>4. f = Step(f)
    BY <2>2, <2>3
  <2> QED
    BY <2>4
<1> DEFINE P == {i \in 0 .. n : it[1 .. i] \in RunState}
<1>5. it[1 .. 0] = [runs |-> <<>>, open |-> FALSE] /\ 0 \in P
  <2>1. 1 .. 0 = {} /\ {} \in SUBSET DOMAIN Count(Len(vals))
    OBVIOUS
  <2> HIDE DEF it, st
  <2>2. it[1 .. 0] = [runs |-> <<>>, open |-> FALSE]
    BY <1>4, <2>1
  <2> QED
    BY <1>0, <1>2, <2>2
<1>6. ASSUME NEW i \in 1 .. n
      PROVE  it[1 .. i] = extended(vals, it[1 .. (i - 1)], Count(Len(vals))[i])
  <2> DEFINE t == 1 .. i
  <2>1. t \in SUBSET DOMAIN Count(Len(vals)) /\ t # {} /\ Max(t) = i /\ t \ {i} = 1 .. (i - 1)
    BY <1>0, Prefix
  <2> HIDE DEF it, t, st
  <2>2. it[t] = extended(vals, it[1 .. (i - 1)], Count(Len(vals))[i])
    BY <1>4, <2>1
  <2> QED
    BY <2>2 DEF t
<1>7. ASSUME NEW i \in 1 .. n, i - 1 \in P PROVE i \in P
  <2> HIDE DEF it, st
  <2>1. it[1 .. (i - 1)] \in RunState /\ Count(Len(vals))[i] \in (1 .. Len(vals))
    BY <1>0, <1>7
  <2>2. it[1 .. i] = st[<<it[1 .. (i - 1)], Count(Len(vals))[i]>>]
    BY <1>3, <1>6, <2>1
  <2>3. it[1 .. i] \in RunState
    BY <1>2, <2>1, <2>2
  <2> QED
    BY <1>0, <2>3
<1> HIDE DEF P, n, it, st
<1>8. 0 .. n \subseteq P
  BY <1>0, <1>5, <1>7, UpTo
<1> DEFINE pre == [i \in 0 .. n |-> it[1 .. i]]
<1>9. pre \in [0 .. n -> RunState]
  BY <1>8 DEF P
<1>10. \A i \in 1 .. n : pre[i] = it[1 .. i] /\ pre[i - 1] = it[1 .. (i - 1)]
  BY <1>0
<1>11. pre[0] = it[1 .. 0] /\ pre[n] = it[1 .. n]
  BY <1>0
<1> HIDE DEF pre
<1>12. \A i \in 1 .. n : pre[i] = extended(vals, pre[i - 1], Count(Len(vals))[i])
  BY <1>6, <1>10
<1> QED
  BY <1>0, <1>1, <1>5, <1>9, <1>11, <1>12 DEF n

\* The m-th point of a run of the slots f to l, with b crossings before them.
PointAt(f, l, b, m) == IF m <= b THEN Pt(f, TRUE)
                       ELSE IF m <= b + (l - f + 1) THEN Pt(f + (m - b) - 1, FALSE)
                       ELSE Pt(l + 1, TRUE)

\* A run of the slots f to l, with b and e crossings before and after them.
Shape(r, f, l, b, e) ==
  /\ Len(r.pts) = (l - f + 1) + b + e
  /\ \A m \in 1 .. Len(r.pts) : r.pts[m] = PointAt(f, l, b, m)

LEMMA PointsAt ==
  ASSUME NEW f \in Int, NEW l \in Int, f <= l, NEW b \in {0, 1}
  PROVE  /\ PointAt(f, l, b, (l - f + 1) + b + 1) = Pt(l + 1, TRUE)
         /\ PointAt(f, l + 1, b, (l - f + 1) + b + 1) = Pt(l + 1, FALSE)
         /\ \A m \in 1 .. (l - f + 1) + b : PointAt(f, l + 1, b, m) = PointAt(f, l, b, m)
<1>1. ~ ((l - f + 1) + b + 1 <= b) /\ ~ ((l - f + 1) + b + 1 <= b + (l - f + 1))
  OBVIOUS
<1>2. (l - f + 1) + b + 1 <= b + ((l + 1) - f + 1) /\ f + (((l - f + 1) + b + 1) - b) - 1 = l + 1
  OBVIOUS
<1>3. ASSUME NEW m \in 1 .. (l - f + 1) + b PROVE PointAt(f, l + 1, b, m) = PointAt(f, l, b, m)
  <2>1. m <= b + (l - f + 1) /\ m <= b + ((l + 1) - f + 1)
    OBVIOUS
  <2> QED
    BY <2>1 DEF PointAt
<1> QED
  BY <1>1, <1>2, <1>3 DEF PointAt

LEMMA ShapeCross ==
  ASSUME NEW r \in RunOf, NEW f \in Int, NEW l \in Int, f <= l, NEW b \in {0, 1}, Shape(r, f, l, b, 0)
  PROVE  Shape(WithPoint(r, Pt(l + 1, TRUE)), f, l, b, 1)
<1> DEFINE p == Pt(l + 1, TRUE)
           q == WithPoint(r, p)
           N == (l - f + 1) + b
<1>1. p \in [i : Int, cross : BOOLEAN]
  BY DEF Pt
<1>2. N \in Nat /\ Len(r.pts) = N
  BY DEF Shape
<1>3. /\ Len(q.pts) = N + 1
      /\ \A m \in 1 .. N : q.pts[m] = r.pts[m]
      /\ q.pts[N + 1] = p
  <2>1. /\ Len(q.pts) = Len(r.pts) + 1
        /\ \A m \in 1 .. Len(r.pts) : q.pts[m] = r.pts[m]
        /\ q.pts[Len(r.pts) + 1] = p
    <3> HIDE DEF p
    <3> QED
      BY <1>1, WithPointIs
  <2> HIDE DEF q, p, N
  <2> QED
    BY <1>2, <2>1
<1>4. /\ PointAt(f, l, b, N + 1) = p
      /\ \A m \in 1 .. N : PointAt(f, l, b, m) = PointAt(f, l, b, m)
  BY PointsAt
<1>5. N + 1 = (l - f + 1) + b + 1
  OBVIOUS
<1> HIDE DEF q, N, p
<1>6. \A m \in 1 .. N + 1 : m \in 1 .. N \/ m = N + 1
  BY <1>2
<1>7. \A m \in 1 .. N : r.pts[m] = PointAt(f, l, b, m)
  BY <1>2 DEF Shape
<1>8. \A m \in 1 .. N + 1 : q.pts[m] = PointAt(f, l, b, m)
  BY <1>3, <1>4, <1>6, <1>7
<1>9. \A m \in 1 .. Len(q.pts) : q.pts[m] = PointAt(f, l, b, m)
  BY <1>3, <1>8
<1> QED
  BY <1>3, <1>5, <1>9 DEF Shape, q, p

LEMMA ShapeMore ==
  ASSUME NEW r \in RunOf, NEW f \in Int, NEW l \in Int, f <= l, NEW b \in {0, 1}, Shape(r, f, l, b, 0)
  PROVE  Shape(WithPoint(r, Pt(l + 1, FALSE)), f, l + 1, b, 0)
<1> DEFINE p == Pt(l + 1, FALSE)
           q == WithPoint(r, p)
           N == (l - f + 1) + b
<1>1. p \in [i : Int, cross : BOOLEAN]
  BY DEF Pt
<1>2. N \in Nat /\ Len(r.pts) = N
  BY DEF Shape
<1>3. /\ Len(q.pts) = N + 1
      /\ \A m \in 1 .. N : q.pts[m] = r.pts[m]
      /\ q.pts[N + 1] = p
  <2>1. /\ Len(q.pts) = Len(r.pts) + 1
        /\ \A m \in 1 .. Len(r.pts) : q.pts[m] = r.pts[m]
        /\ q.pts[Len(r.pts) + 1] = p
    <3> HIDE DEF p
    <3> QED
      BY <1>1, WithPointIs
  <2> HIDE DEF q, p, N
  <2> QED
    BY <1>2, <2>1
<1>4. /\ PointAt(f, l + 1, b, N + 1) = p
      /\ \A m \in 1 .. N : PointAt(f, l + 1, b, m) = PointAt(f, l, b, m)
  BY PointsAt
<1>5. N + 1 = (l + 1 - f + 1) + b + 0
  OBVIOUS
<1> HIDE DEF q, N, p
<1>6. \A m \in 1 .. N + 1 : m \in 1 .. N \/ m = N + 1
  BY <1>2
<1>7. \A m \in 1 .. N : r.pts[m] = PointAt(f, l, b, m)
  BY <1>2 DEF Shape
<1>8. \A m \in 1 .. N + 1 : q.pts[m] = PointAt(f, l + 1, b, m)
  BY <1>3, <1>4, <1>6, <1>7
<1>9. \A m \in 1 .. Len(q.pts) : q.pts[m] = PointAt(f, l + 1, b, m)
  BY <1>3, <1>8
<1>10. Len(q.pts) = ((l + 1) - f + 1) + b + 0
  BY <1>3, <1>5
<1> QED
  BY <1>9, <1>10 DEF Shape, q, p

\* The crossing that a run shares with the one before it, and with the next one of N.
Lead(F, L, k)     == IF k > 1 /\ L[k - 1] + 1 = F[k] THEN 1 ELSE 0
Trail(F, L, k, N) == IF k < N /\ L[k] + 1 = F[k + 1] THEN 1 ELSE 0

\* a draws the first n values: its run k the slots F[k] to L[k].
Draws(a, vals, n, F, L) ==
  LET N == Len(a.runs)
  IN /\ F \in [1 .. N -> 1 .. n] /\ L \in [1 .. N -> 1 .. n]
     /\ \A k \in 1 .. N : F[k] <= L[k] /\ Shape(a.runs[k], F[k], L[k], Lead(F, L, k), Trail(F, L, k, N))
     /\ \A k \in 1 .. N : \A i \in F[k] .. L[k] : vals[i] # NoValue /\ Sign(vals[i]) = a.runs[k].sign
     /\ \A k, l \in 1 .. N : k < l => L[k] < F[l]
     /\ \A k \in 1 .. N - 1 : L[k] + 1 = F[k + 1] => a.runs[k].sign # a.runs[k + 1].sign
     /\ \A i \in 1 .. n : vals[i] # NoValue => \E k \in 1 .. N : F[k] <= i /\ i <= L[k]
     /\ a.open <=> N > 0 /\ L[N] = n

LEMMA DrawsOn ==
  ASSUME NEW vals \in Seq(Int \cup {NoValue}), NEW n \in Nat, n + 1 \in 1 .. Len(vals),
         NEW a \in RunState, NEW F, NEW L, Draws(a, vals, n, F, L),
         vals[n + 1] # NoValue, a.open, Sign(vals[n + 1]) = a.runs[Len(a.runs)].sign
  PROVE  \E G, M : Draws(extended(vals, a, n + 1), vals, n + 1, G, M)
<1> DEFINE N == Len(a.runs)
           R == a.runs
           x == n + 1
           b == extended(vals, a, x)
           M == [L EXCEPT ![N] = x]
<1>1. /\ b \in RunState /\ b.open /\ Len(b.runs) = N
      /\ \A k \in 1 .. N - 1 : b.runs[k] = R[k]
      /\ b.runs[N] = WithPoint(R[N], Pt(x, FALSE))
  BY ExtendedOn
<1>2. R \in Seq(RunOf) /\ R # <<>>
  BY DEF RunState
<1>3. N \in Nat /\ N >= 1 /\ R[N] \in RunOf
  BY <1>2
<1>4. F \in [1 .. N -> 1 .. n] /\ L \in [1 .. N -> 1 .. n]
  BY DEF Draws
<1>s. \A k \in 1 .. N : F[k] <= L[k] /\ Shape(a.runs[k], F[k], L[k], Lead(F, L, k), Trail(F, L, k, N))
  BY DEF Draws
<1>g. \A k \in 1 .. N : \A i \in F[k] .. L[k] : vals[i] # NoValue /\ Sign(vals[i]) = R[k].sign
  BY DEF Draws
<1>o. \A k, l \in 1 .. N : k < l => L[k] < F[l]
  BY DEF Draws
<1>j. \A k \in 1 .. N - 1 : L[k] + 1 = F[k + 1] => R[k].sign # R[k + 1].sign
  BY DEF Draws
<1>c. \A i \in 1 .. n : vals[i] # NoValue => \E k \in 1 .. N : F[k] <= i /\ i <= L[k]
  BY DEF Draws
<1>l. N > 0 /\ L[N] = n
  BY DEF Draws
<1> HIDE DEF b, N, R
<1>5. M \in [1 .. N -> 1 .. x] /\ M[N] = x /\ \A k \in 1 .. N - 1 : M[k] = L[k]
  BY <1>3, <1>4
<1> HIDE DEF M
<1>6. \A k \in 1 .. N - 1 : Trail(F, M, k, N) = Trail(F, L, k, N) /\ Lead(F, M, k) = Lead(F, L, k)
  <2>1. \A k \in 1 .. N - 1 : k > 1 => k - 1 \in 1 .. N - 1
    BY <1>3
  <2> QED
    BY <1>5, <2>1 DEF Trail, Lead
<1>7. Lead(F, M, N) = Lead(F, L, N) /\ Trail(F, M, N, N) = 0 /\ Trail(F, L, N, N) = 0
  <2>1. N > 1 => N - 1 \in 1 .. N - 1
    BY <1>3
  <2> QED
    BY <1>3, <1>5, <2>1 DEF Trail, Lead
<1>8. ASSUME NEW k \in 1 .. N
      PROVE  /\ F[k] <= M[k] /\ Shape(b.runs[k], F[k], M[k], Lead(F, M, k), Trail(F, M, k, N))
             /\ b.runs[k].sign = R[k].sign
  <2>1. CASE k \in 1 .. N - 1
    BY <1>1, <1>s, <1>5, <1>6, <2>1 DEF R
  <2>2. CASE k = N
    <3>1. F[N] \in Int /\ L[N] \in Int /\ F[N] <= L[N] /\ Lead(F, L, N) \in {0, 1} /\ L[N] + 1 = x
          /\ Shape(R[N], F[N], L[N], Lead(F, L, N), 0)
      BY <1>3, <1>4, <1>s, <1>l, <1>7, <2>2 DEF Lead, R
    <3>2. Shape(WithPoint(R[N], Pt(L[N] + 1, FALSE)), F[N], L[N] + 1, Lead(F, L, N), 0)
      BY <1>3, <3>1, ShapeMore
    <3>3. Shape(b.runs[N], F[N], M[N], Lead(F, M, N), Trail(F, M, N, N))
      BY <1>1, <1>5, <1>7, <3>1, <3>2
    <3>4. b.runs[N].sign = R[N].sign
      <4>1. Pt(x, FALSE) \in [i : Int, cross : BOOLEAN]
        BY DEF Pt
      <4>2. WithPoint(R[N], Pt(x, FALSE)).sign = R[N].sign
        BY <1>3, <4>1, WithPointIs
      <4> QED
        BY <1>1, <4>2
    <3> QED
      BY <1>5, <2>2, <3>1, <3>3, <3>4
  <2> QED
    BY <1>3, <2>1, <2>2
<1>9. ASSUME NEW k \in 1 .. N, NEW i \in F[k] .. M[k]
      PROVE  vals[i] # NoValue /\ Sign(vals[i]) = b.runs[k].sign
  <2>1. CASE i \in F[k] .. L[k]
    BY <1>g, <1>8, <2>1
  <2>2. CASE i \notin F[k] .. L[k]
    <3>1. k = N
      BY <1>3, <1>5, <2>2
    <3>2. i = x
      BY <1>3, <1>4, <1>l, <1>5, <2>2, <3>1
    <3> QED
      BY <1>8, <3>1, <3>2 DEF N, R
  <2> QED
    BY <2>1, <2>2
<1>10. \A k, l \in 1 .. N : k < l => M[k] < F[l]
  <2>1. \A k, l \in 1 .. N : k < l => k \in 1 .. N - 1
    BY <1>3
  <2> QED
    BY <1>o, <1>5, <2>1
<1>11. \A k \in 1 .. N - 1 : M[k] + 1 = F[k + 1] => b.runs[k].sign # b.runs[k + 1].sign
  <2>1. \A k \in 1 .. N - 1 : k \in 1 .. N /\ k + 1 \in 1 .. N
    BY <1>3
  <2> QED
    BY <1>j, <1>5, <1>8, <2>1
<1>12. ASSUME NEW i \in 1 .. x, vals[i] # NoValue PROVE \E k \in 1 .. N : F[k] <= i /\ i <= M[k]
  <2>1. CASE i = x
    <3>1. N \in 1 .. N /\ F[N] <= M[N] /\ F[N] <= i /\ M[N] = i
      BY <1>3, <1>4, <1>s, <1>l, <1>5, <2>1
    <3> QED
      BY <3>1
  <2>2. CASE i # x
    <3>1. PICK k \in 1 .. N : F[k] <= i /\ i <= L[k]
      BY <1>c, <1>12, <2>2
    <3>2. L[k] <= M[k] /\ L[k] \in Int /\ M[k] \in Int
      <4>1. k \in 1 .. N - 1 \/ k = N
        BY <1>3
      <4>2. L[k] \in Int /\ L[k] <= n
        BY <1>4
      <4> QED
        BY <1>5, <4>1, <4>2
    <3> QED
      BY <3>1, <3>2
  <2> QED
    BY <2>1, <2>2
<1>13. F \in [1 .. N -> 1 .. x]
  BY <1>4
<1>14. Draws(b, vals, x, F, M)
  <2> HIDE DEF x
  <2> QED
    BY <1>1, <1>3, <1>5, <1>8, <1>9, <1>10, <1>11, <1>12, <1>13 DEF Draws
<1> QED
  BY <1>14 DEF b

LEMMA DrawsNoMore ==
  ASSUME NEW vals \in Seq(Int \cup {NoValue}), NEW n \in Nat, n + 1 \in 1 .. Len(vals),
         NEW a \in RunState, NEW F, NEW L, Draws(a, vals, n, F, L), vals[n + 1] = NoValue
  PROVE  Draws(extended(vals, a, n + 1), vals, n + 1, F, L)
<1> DEFINE N == Len(a.runs)
           x == n + 1
           b == extended(vals, a, x)
<1>1. b \in RunState /\ ~ b.open /\ b.runs = a.runs
  BY ExtendedNot
<1>2. N \in Nat
  BY DEF RunState
<1> HIDE DEF b
<1>3. F \in [1 .. N -> 1 .. n] /\ L \in [1 .. N -> 1 .. n]
  BY DEF Draws
<1>s. \A k \in 1 .. N : F[k] <= L[k] /\ Shape(a.runs[k], F[k], L[k], Lead(F, L, k), Trail(F, L, k, N))
  BY DEF Draws
<1>g. \A k \in 1 .. N : \A i \in F[k] .. L[k] : vals[i] # NoValue /\ Sign(vals[i]) = a.runs[k].sign
  BY DEF Draws
<1>o. \A k, l \in 1 .. N : k < l => L[k] < F[l]
  BY DEF Draws
<1>j. \A k \in 1 .. N - 1 : L[k] + 1 = F[k + 1] => a.runs[k].sign # a.runs[k + 1].sign
  BY DEF Draws
<1>c. \A i \in 1 .. n : vals[i] # NoValue => \E k \in 1 .. N : F[k] <= i /\ i <= L[k]
  BY DEF Draws
<1>4. F \in [1 .. N -> 1 .. x] /\ L \in [1 .. N -> 1 .. x] /\ ~ (N > 0 /\ L[N] = x)
  <2>1. N > 0 => N \in 1 .. N
    BY <1>2
  <2>2. 1 .. n \subseteq 1 .. x /\ x \notin 1 .. n
    OBVIOUS
  <2> HIDE DEF N, x
  <2> QED
    BY <1>3, <2>1, <2>2
<1>5. \A i \in 1 .. x : vals[i] # NoValue => i \in 1 .. n
  OBVIOUS
<1> HIDE DEF x
<1>6. Draws(b, vals, x, F, L)
  BY <1>1, <1>s, <1>g, <1>o, <1>j, <1>c, <1>4, <1>5 DEF Draws
<1> QED
  BY <1>6 DEF b, x

LEMMA ShortShapes ==
  ASSUME NEW x \in Int, NEW g
  PROVE  /\ Begun(g, x).sign = g /\ Shape(Begun(g, x), x, x, 0, 0)
         /\ Crossed(g, x).sign = g /\ Shape(Crossed(g, x), x, x, 1, 0)
<1> DEFINE p == Pt(x, TRUE)
           q == Pt(x, FALSE)
<1>1. x - x + 1 = 1 /\ x + (1 - 0) - 1 = x /\ x + (2 - 1) - 1 = x
  OBVIOUS
<1>2. PointAt(x, x, 0, 1) = q /\ PointAt(x, x, 1, 1) = p /\ PointAt(x, x, 1, 2) = q
  <2>1. PointAt(x, x, 0, 1) = q
    BY <1>1 DEF PointAt
  <2>2. PointAt(x, x, 1, 1) = p
    BY DEF PointAt
  <2>3. PointAt(x, x, 1, 2) = q
    <3>1. ~ (2 <= 1) /\ 2 <= 1 + (x - x + 1)
      OBVIOUS
    <3> QED
      BY <1>1, <3>1 DEF PointAt
  <2> QED
    BY <2>1, <2>2, <2>3
<1> HIDE DEF p, q
<1>3. /\ Begun(g, x).sign = g /\ Begun(g, x).pts = <<q>>
      /\ Crossed(g, x).sign = g /\ Crossed(g, x).pts = <<p, q>>
  BY DEF Begun, Crossed, p, q
<1>5. Shape(Begun(g, x), x, x, 0, 0)
  <2> DEFINE ps == Begun(g, x).pts
  <2>1. Len(ps) = 1 /\ (\A m \in 1 .. Len(ps) : m = 1) /\ ps[1] = q
    BY <1>3
  <2> HIDE DEF ps
  <2>2. \A m \in 1 .. Len(ps) : ps[m] = PointAt(x, x, 0, m)
    BY <1>2, <2>1
  <2>3. Len(ps) = (x - x + 1) + 0 + 0
    BY <1>1, <2>1
  <2> QED
    BY <2>2, <2>3 DEF Shape, ps
<1>6. Shape(Crossed(g, x), x, x, 1, 0)
  <2> DEFINE ps == Crossed(g, x).pts
  <2>1. Len(ps) = 2 /\ (\A m \in 1 .. Len(ps) : m = 1 \/ m = 2) /\ ps[1] = p /\ ps[2] = q
    BY <1>3
  <2> HIDE DEF ps
  <2>2. \A m \in 1 .. Len(ps) : ps[m] = PointAt(x, x, 1, m)
    BY <1>2, <2>1
  <2>3. Len(ps) = (x - x + 1) + 1 + 0
    BY <1>1, <2>1
  <2> QED
    BY <2>2, <2>3 DEF Shape, ps
<1> QED
  BY <1>3, <1>5, <1>6

LEMMA DrawsNew ==
  ASSUME NEW vals \in Seq(Int \cup {NoValue}), NEW n \in Nat, n + 1 \in 1 .. Len(vals),
         NEW a \in RunState, NEW F, NEW L, Draws(a, vals, n, F, L), vals[n + 1] # NoValue, ~ a.open
  PROVE  \E G, M : Draws(extended(vals, a, n + 1), vals, n + 1, G, M)
<1> DEFINE N == Len(a.runs)
           K == N + 1
           R == a.runs
           x == n + 1
           v == vals[x]
           b == extended(vals, a, x)
           G == [k \in 1 .. K |-> IF k = K THEN x ELSE F[k]]
           M == [k \in 1 .. K |-> IF k = K THEN x ELSE L[k]]
<1>1. /\ b \in RunState /\ b.open /\ Len(b.runs) = K
      /\ \A k \in 1 .. N : b.runs[k] = R[k]
      /\ b.runs[K] = Begun(Sign(v), x)
  BY ExtendedNew
<1>2. R \in Seq(RunOf) /\ (a.open => R # <<>>)
  BY DEF RunState
<1>3. N \in Nat /\ K \in Nat /\ K \notin 1 .. N /\ 1 .. K = 1 .. N \cup {K} /\ K - 1 = N
      /\ \A k \in 1 .. N : R[k] \in RunOf
  BY <1>2
<1>4. F \in [1 .. N -> 1 .. n] /\ L \in [1 .. N -> 1 .. n]
  BY DEF Draws
<1>s. \A k \in 1 .. N : F[k] <= L[k] /\ Shape(R[k], F[k], L[k], Lead(F, L, k), Trail(F, L, k, N))
  BY DEF Draws
<1>g. \A k \in 1 .. N : \A i \in F[k] .. L[k] : vals[i] # NoValue /\ Sign(vals[i]) = R[k].sign
  BY DEF Draws
<1>o. \A k, l \in 1 .. N : k < l => L[k] < F[l]
  BY DEF Draws
<1>j. \A k \in 1 .. N - 1 : L[k] + 1 = F[k + 1] => R[k].sign # R[k + 1].sign
  BY DEF Draws
<1>c. \A i \in 1 .. n : vals[i] # NoValue => \E k \in 1 .. N : F[k] <= i /\ i <= L[k]
  BY DEF Draws
<1>l. N \in 1 .. N => L[N] # n
  BY <1>3 DEF Draws
<1> HIDE DEF b, R, v
<1>5. /\ G \in [1 .. K -> 1 .. x] /\ M \in [1 .. K -> 1 .. x] /\ G[K] = x /\ M[K] = x
      /\ \A k \in 1 .. N : G[k] = F[k] /\ M[k] = L[k]
  BY <1>3, <1>4
<1>6. x \in Int /\ n \in Int /\ x = n + 1 /\ x \notin 1 .. n /\ \A i \in 1 .. x : i \in 1 .. n \/ i = x
  OBVIOUS
<1> HIDE DEF G, M, N, K, x
<1>7. \A k \in 1 .. N : Lead(G, M, k) = Lead(F, L, k)
  <2>1. \A k \in 1 .. N : k > 1 => k - 1 \in 1 .. N
    BY <1>3
  <2> QED
    BY <1>5, <2>1 DEF Lead
<1>8. \A k \in 1 .. N : k # N => Trail(G, M, k, K) = Trail(F, L, k, N)
  <2>1. \A k \in 1 .. N : k # N => k + 1 \in 1 .. N /\ k < N /\ k < N + 1
    BY <1>3
  <2> QED
    BY <1>3, <1>5, <2>1 DEF Trail, K
<1>9. \A k \in 1 .. N : k = N => Trail(F, L, k, N) = 0
  BY <1>3 DEF Trail
<1>10. Lead(G, M, K) = 0 /\ Trail(G, M, K, K) = 0 /\ (N \in 1 .. N => Trail(G, M, N, K) = 0)
  <2>1. N \in 1 .. N => M[N] # n /\ M[N] \in Int
    BY <1>l, <1>4, <1>5
  <2>2. K > 1 => N \in 1 .. N
    BY <1>3 DEF K
  <2>3. ~ (K < K)
    BY <1>3
  <2>4. N + 1 = K
    BY DEF K
  <2>5. N \in 1 .. N => ~ (M[N] + 1 = x)
    BY <1>6, <2>1
  <2> QED
    BY <1>3, <1>5, <2>2, <2>3, <2>4, <2>5 DEF Lead, Trail
<1>11. /\ b.runs[K].sign = Sign(v)
       /\ Shape(b.runs[K], x, x, Lead(G, M, K), Trail(G, M, K, K))
  BY <1>1, <1>6, <1>10, ShortShapes
<1>12. ASSUME NEW k \in 1 .. N
       PROVE  /\ b.runs[k].sign = R[k].sign
              /\ Shape(b.runs[k], F[k], L[k], Lead(G, M, k), Trail(G, M, k, K))
  <2>1. b.runs[k] = R[k] /\ Lead(G, M, k) = Lead(F, L, k)
    BY <1>1, <1>7
  <2>2. Trail(G, M, k, K) = Trail(F, L, k, N)
    BY <1>8, <1>9, <1>10
  <2> QED
    BY <1>s, <2>1, <2>2
<1>13. b.runs[K].sign = Sign(v) /\ \A k \in 1 .. N : b.runs[k].sign = R[k].sign
  BY <1>3, <1>11, <1>12
<1>14. \A k \in 1 .. K : G[k] <= M[k] /\ Shape(b.runs[k], G[k], M[k], Lead(G, M, k), Trail(G, M, k, K))
  <2>1. ASSUME NEW k \in 1 .. N
        PROVE  G[k] <= M[k] /\ Shape(b.runs[k], G[k], M[k], Lead(G, M, k), Trail(G, M, k, K))
    BY <1>5, <1>s, <1>12
  <2>2. G[K] <= M[K] /\ Shape(b.runs[K], G[K], M[K], Lead(G, M, K), Trail(G, M, K, K))
    BY <1>5, <1>6, <1>11
  <2> QED
    BY <1>3, <2>1, <2>2
<1>15. ASSUME NEW k \in 1 .. K, NEW i \in G[k] .. M[k]
       PROVE  vals[i] # NoValue /\ Sign(vals[i]) = b.runs[k].sign
  <2>1. CASE k \in 1 .. N
    BY <1>g, <1>5, <1>13, <2>1
  <2>2. CASE k = K
    <3>1. i = x
      BY <1>5, <1>6, <2>2
    <3> QED
      BY <1>13, <2>2, <3>1 DEF v, x
  <2> QED
    BY <1>3, <2>1, <2>2
<1>16. ASSUME NEW k \in 1 .. K, NEW l \in 1 .. K, k < l PROVE M[k] < G[l]
  <2>1. k \in 1 .. N
    BY <1>3, <1>16 DEF K
  <2>2. L[k] \in Int /\ L[k] <= n
    BY <1>4, <2>1
  <2>3. CASE l \in 1 .. N
    BY <1>o, <1>5, <1>16, <2>1, <2>3
  <2>4. CASE l = K
    BY <1>5, <1>6, <2>1, <2>2, <2>4
  <2> QED
    BY <1>3, <2>3, <2>4
<1>17. ASSUME NEW k \in 1 .. K - 1, M[k] + 1 = G[k + 1] PROVE b.runs[k].sign # b.runs[k + 1].sign
  <2>1. k \in 1 .. N
    BY <1>3 DEF K
  <2>2. CASE k + 1 \in 1 .. N
    <3>1. k \in 1 .. N - 1
      BY <1>3, <2>1, <2>2
    <3> QED
      BY <1>j, <1>5, <1>13, <1>17, <2>1, <2>2, <3>1
  <2>3. CASE k + 1 = K
    <3>1. k = N /\ k + 1 = K /\ N \in 1 .. N
      BY <1>3, <2>1, <2>3
    <3>2. M[N] = L[N] /\ L[N] \in Int /\ G[K] = x /\ L[N] + 1 = x
      BY <1>4, <1>5, <1>17, <3>1
    <3> QED
      BY <1>6, <1>l, <1>13, <3>1, <3>2
  <2> QED
    BY <1>3, <2>1, <2>2, <2>3 DEF K
<1>18. ASSUME NEW i \in 1 .. x, vals[i] # NoValue PROVE \E k \in 1 .. K : G[k] <= i /\ i <= M[k]
  <2>1. CASE i = x
    <3>1. K \in 1 .. K /\ G[K] <= i /\ i <= M[K]
      BY <1>3, <1>5, <1>6, <2>1
    <3> QED
      BY <3>1
  <2>2. CASE i \in 1 .. n
    BY <1>c, <1>3, <1>5, <1>18, <2>2
  <2> QED
    BY <1>6, <2>1, <2>2
<1>19. K > 0 /\ M[K] = x
  BY <1>3, <1>5 DEF K
<1>20. Draws(b, vals, x, G, M)
  BY <1>1, <1>5, <1>14, <1>15, <1>16, <1>17, <1>18, <1>19 DEF Draws
<1> QED
  BY <1>20 DEF b, x

LEMMA DrawsTurn ==
  ASSUME NEW vals \in Seq(Int \cup {NoValue}), NEW n \in Nat, n + 1 \in 1 .. Len(vals),
         NEW a \in RunState, NEW F, NEW L, Draws(a, vals, n, F, L), vals[n + 1] # NoValue, a.open,
         Sign(vals[n + 1]) # a.runs[Len(a.runs)].sign
  PROVE  \E G, M : Draws(extended(vals, a, n + 1), vals, n + 1, G, M)
<1> DEFINE N == Len(a.runs)
           K == N + 1
           R == a.runs
           x == n + 1
           v == vals[x]
           b == extended(vals, a, x)
           G == [k \in 1 .. K |-> IF k = K THEN x ELSE F[k]]
           M == [k \in 1 .. K |-> IF k = K THEN x ELSE L[k]]
<1>1. /\ b \in RunState /\ b.open /\ Len(b.runs) = K
      /\ \A k \in 1 .. N - 1 : b.runs[k] = R[k]
      /\ b.runs[N] = WithPoint(R[N], Pt(x, TRUE))
      /\ b.runs[K] = Crossed(Sign(v), x)
  BY ExtendedTurn
<1>2. R \in Seq(RunOf) /\ (a.open => R # <<>>)
  BY DEF RunState
<1>3. N \in Nat /\ K \in Nat /\ K \notin 1 .. N /\ 1 .. K = 1 .. N \cup {K} /\ K - 1 = N
      /\ \A k \in 1 .. N : R[k] \in RunOf
  BY <1>2
<1>4. F \in [1 .. N -> 1 .. n] /\ L \in [1 .. N -> 1 .. n]
  BY DEF Draws
<1>s. \A k \in 1 .. N : F[k] <= L[k] /\ Shape(R[k], F[k], L[k], Lead(F, L, k), Trail(F, L, k, N))
  BY DEF Draws
<1>g. \A k \in 1 .. N : \A i \in F[k] .. L[k] : vals[i] # NoValue /\ Sign(vals[i]) = R[k].sign
  BY DEF Draws
<1>o. \A k, l \in 1 .. N : k < l => L[k] < F[l]
  BY DEF Draws
<1>j. \A k \in 1 .. N - 1 : L[k] + 1 = F[k + 1] => R[k].sign # R[k + 1].sign
  BY DEF Draws
<1>c. \A i \in 1 .. n : vals[i] # NoValue => \E k \in 1 .. N : F[k] <= i /\ i <= L[k]
  BY DEF Draws
<1>l. N \in 1 .. N /\ L[N] = n /\ Sign(v) # R[N].sign
  BY <1>3 DEF Draws
<1> HIDE DEF b, R, v
<1>5. /\ G \in [1 .. K -> 1 .. x] /\ M \in [1 .. K -> 1 .. x] /\ G[K] = x /\ M[K] = x
      /\ \A k \in 1 .. N : G[k] = F[k] /\ M[k] = L[k]
  BY <1>3, <1>4
<1>6. x \in Int /\ n \in Int /\ x = n + 1 /\ x \notin 1 .. n /\ \A i \in 1 .. x : i \in 1 .. n \/ i = x
  OBVIOUS
<1> HIDE DEF G, M, N, K, x
<1>7. \A k \in 1 .. N : Lead(G, M, k) = Lead(F, L, k)
  <2>1. \A k \in 1 .. N : k > 1 => k - 1 \in 1 .. N
    BY <1>3
  <2> QED
    BY <1>5, <2>1 DEF Lead
<1>8. \A k \in 1 .. N : k # N => Trail(G, M, k, K) = Trail(F, L, k, N)
  <2>1. \A k \in 1 .. N : k # N => k + 1 \in 1 .. N /\ k < N /\ k < N + 1
    BY <1>3
  <2> QED
    BY <1>3, <1>5, <2>1 DEF Trail, K
<1>9. \A k \in 1 .. N : k = N => Trail(F, L, k, N) = 0
  BY <1>3 DEF Trail
<1>10. Lead(G, M, K) = 1 /\ Trail(G, M, K, K) = 0 /\ Trail(G, M, N, K) = 1
  <2>1. K > 1 /\ N + 1 = K /\ N < K /\ ~ (K < K)
    BY <1>3, <1>l DEF K
  <2>2. M[N] + 1 = x
    BY <1>l, <1>5, <1>6
  <2> QED
    BY <1>3, <1>5, <2>1, <2>2 DEF Lead, Trail
<1>11. /\ b.runs[K].sign = Sign(v)
       /\ Shape(b.runs[K], x, x, Lead(G, M, K), Trail(G, M, K, K))
  BY <1>1, <1>6, <1>10, ShortShapes
<1>12. ASSUME NEW k \in 1 .. N
       PROVE  /\ b.runs[k].sign = R[k].sign
              /\ Shape(b.runs[k], F[k], L[k], Lead(G, M, k), Trail(G, M, k, K))
  <2>1. CASE k # N
    <3>1. k \in 1 .. N - 1
      BY <1>3, <2>1
    <3> QED
      BY <1>s, <1>1, <1>7, <1>8, <2>1, <3>1
  <2>2. CASE k = N
    <3> DEFINE f == F[N]
               l == L[N]
               d == Lead(F, L, N)
    <3>1. f \in Int /\ l \in Int /\ f <= l /\ d \in {0, 1} /\ l + 1 = x /\ R[N] \in RunOf
          /\ Shape(R[N], f, l, d, 0)
      BY <1>3, <1>4, <1>s, <1>l, <1>6, <1>9 DEF Lead
    <3> HIDE DEF f, l, d
    <3>2. Shape(WithPoint(R[N], Pt(l + 1, TRUE)), f, l, d, 1)
      BY <3>1, ShapeCross
    <3>3. WithPoint(R[N], Pt(x, TRUE)).sign = R[N].sign
      <4>1. Pt(x, TRUE) \in [i : Int, cross : BOOLEAN]
        BY <1>6 DEF Pt
      <4> QED
        BY <3>1, <4>1, WithPointIs
    <3>4. Lead(G, M, N) = d /\ Trail(G, M, N, K) = 1
      BY <1>l, <1>7, <1>10 DEF d
    <3> QED
      BY <1>1, <2>2, <3>1, <3>2, <3>3, <3>4 DEF f, l
  <2> QED
    BY <2>1, <2>2
<1>13. b.runs[K].sign = Sign(v) /\ \A k \in 1 .. N : b.runs[k].sign = R[k].sign
  BY <1>3, <1>11, <1>12
<1>14. \A k \in 1 .. K : G[k] <= M[k] /\ Shape(b.runs[k], G[k], M[k], Lead(G, M, k), Trail(G, M, k, K))
  <2>1. ASSUME NEW k \in 1 .. N
        PROVE  G[k] <= M[k] /\ Shape(b.runs[k], G[k], M[k], Lead(G, M, k), Trail(G, M, k, K))
    BY <1>5, <1>s, <1>12
  <2>2. G[K] <= M[K] /\ Shape(b.runs[K], G[K], M[K], Lead(G, M, K), Trail(G, M, K, K))
    BY <1>5, <1>6, <1>11
  <2> QED
    BY <1>3, <2>1, <2>2
<1>15. ASSUME NEW k \in 1 .. K, NEW i \in G[k] .. M[k]
       PROVE  vals[i] # NoValue /\ Sign(vals[i]) = b.runs[k].sign
  <2>1. CASE k \in 1 .. N
    BY <1>g, <1>5, <1>13, <2>1
  <2>2. CASE k = K
    <3>1. i = x
      BY <1>5, <1>6, <2>2
    <3> QED
      BY <1>13, <2>2, <3>1 DEF v, x
  <2> QED
    BY <1>3, <2>1, <2>2
<1>16. ASSUME NEW k \in 1 .. K, NEW l \in 1 .. K, k < l PROVE M[k] < G[l]
  <2>1. k \in 1 .. N
    BY <1>3, <1>16 DEF K
  <2>2. L[k] \in Int /\ L[k] <= n
    BY <1>4, <2>1
  <2>3. CASE l \in 1 .. N
    BY <1>o, <1>5, <1>16, <2>1, <2>3
  <2>4. CASE l = K
    BY <1>5, <1>6, <2>1, <2>2, <2>4
  <2> QED
    BY <1>3, <2>3, <2>4
<1>17. ASSUME NEW k \in 1 .. K - 1, M[k] + 1 = G[k + 1] PROVE b.runs[k].sign # b.runs[k + 1].sign
  <2>1. k \in 1 .. N
    BY <1>3 DEF K
  <2>2. CASE k + 1 \in 1 .. N
    <3>1. k \in 1 .. N - 1
      BY <1>3, <2>1, <2>2
    <3> QED
      BY <1>j, <1>5, <1>13, <1>17, <2>1, <2>2, <3>1
  <2>3. CASE k + 1 = K
    <3>1. k = N /\ k + 1 = K /\ N \in 1 .. N
      BY <1>3, <2>1, <2>3
    <3>2. M[N] = L[N] /\ L[N] \in Int /\ G[K] = x /\ L[N] + 1 = x
      BY <1>4, <1>5, <1>17, <3>1
    <3> QED
      BY <1>6, <1>l, <1>13, <3>1, <3>2
  <2> QED
    BY <1>3, <2>1, <2>2, <2>3 DEF K
<1>18. ASSUME NEW i \in 1 .. x, vals[i] # NoValue PROVE \E k \in 1 .. K : G[k] <= i /\ i <= M[k]
  <2>1. CASE i = x
    <3>1. K \in 1 .. K /\ G[K] <= i /\ i <= M[K]
      BY <1>3, <1>5, <1>6, <2>1
    <3> QED
      BY <3>1
  <2>2. CASE i \in 1 .. n
    BY <1>c, <1>3, <1>5, <1>18, <2>2
  <2> QED
    BY <1>6, <2>1, <2>2
<1>19. K > 0 /\ M[K] = x
  BY <1>3, <1>5 DEF K
<1>20. Draws(b, vals, x, G, M)
  BY <1>1, <1>5, <1>14, <1>15, <1>16, <1>17, <1>18, <1>19 DEF Draws
<1> QED
  BY <1>20 DEF b, x

\* The fold draws all the values.
LEMMA RunsDraw ==
  ASSUME NEW vals \in Seq(Int \cup {NoValue})
  PROVE  \E a \in RunState : runs(vals) = a.runs /\ \E F, L : Draws(a, vals, Len(vals), F, L)
<1> DEFINE n == Len(vals)
<1>1. PICK pre \in [0 .. Len(Count(n)) -> RunState] :
             /\ pre[0] = [runs |-> <<>>, open |-> FALSE]
             /\ \A i \in 1 .. Len(Count(n)) : pre[i] = extended(vals, pre[i - 1], Count(n)[i])
             /\ RunsEnd(vals) = pre[Len(Count(n))]
  BY RunsFold
<1>2. n \in Nat /\ Len(Count(n)) = n /\ \A i \in 1 .. n : Count(n)[i] = i
  BY DEF Count
<1> DEFINE P == {i \in 0 .. n : \E F, L : Draws(pre[i], vals, i, F, L)}
<1>3. 0 \in P
  <2>1. pre[0] = [runs |-> <<>>, open |-> FALSE]
    BY <1>1
  <2>2. Len(pre[0].runs) = 0 /\ 1 .. 0 = {} /\ ~ pre[0].open
    BY <2>1
  <2> DEFINE F == [k \in 1 .. 0 |-> 0]
  <2>3. F \in [1 .. 0 -> 1 .. 0]
    OBVIOUS
  <2> HIDE DEF F
  <2>4. Draws(pre[0], vals, 0, F, F)
    BY <2>2, <2>3 DEF Draws
  <2> QED
    BY <1>2, <2>4
<1>4. ASSUME NEW i \in 1 .. n, i - 1 \in P PROVE i \in P
  <2> DEFINE a == pre[i - 1]
             m == i - 1
             v == vals[m + 1]
  <2>1. i - 1 \in 0 .. n /\ m \in Nat /\ m + 1 = i /\ m + 1 \in 1 .. Len(vals)
    BY <1>2
  <2>2. a \in RunState /\ pre[i] = extended(vals, a, m + 1)
    BY <1>1, <1>2, <2>1
  <2>3. PICK F, L : Draws(a, vals, m, F, L)
    BY <1>4
  <2> HIDE DEF a, m
  <2>4. CASE v = NoValue
    BY <2>1, <2>2, <2>3, <2>4, DrawsNoMore
  <2>5. CASE v # NoValue /\ ~ a.open
    BY <2>1, <2>2, <2>3, <2>5, DrawsNew
  <2>6. CASE v # NoValue /\ a.open /\ Sign(v) # a.runs[Len(a.runs)].sign
    BY <2>1, <2>2, <2>3, <2>6, DrawsTurn
  <2>7. CASE v # NoValue /\ a.open /\ Sign(v) = a.runs[Len(a.runs)].sign
    BY <2>1, <2>2, <2>3, <2>7, DrawsOn
  <2>8. \E G, M : Draws(pre[i], vals, i, G, M)
    BY <2>1, <2>2, <2>4, <2>5, <2>6, <2>7
  <2> QED
    BY <1>2, <2>8
<1> HIDE DEF P
<1>5. 0 .. n \subseteq P
  BY <1>2, <1>3, <1>4, UpTo
<1>6. \E F, L : Draws(pre[n], vals, n, F, L)
  BY <1>2, <1>5 DEF P
<1>7. runs(vals) = RunsEnd(vals).runs
  BY Zenon DEF runs, RunsEnd
<1>8. pre[n] \in RunState /\ runs(vals) = pre[n].runs
  BY <1>1, <1>2, <1>7
<1> QED
  BY <1>6, <1>8

\* The points of a run of that shape: the slots, in order, and the crossings at its ends.
Points(r, f, l, b, e) ==
  /\ Len(r.pts) \in Nat /\ Len(r.pts) >= 1
  /\ \A m \in 1 .. Len(r.pts) : ~ r.pts[m].cross =>
       m > b /\ m - b <= l - f + 1 /\ r.pts[m].i = f + (m - b) - 1 /\ r.pts[m].i \in f .. l
  /\ \A i \in f .. l : /\ (i - f + 1) + b \in 1 .. Len(r.pts)
                       /\ ~ r.pts[(i - f + 1) + b].cross /\ r.pts[(i - f + 1) + b].i = i
  /\ \A m \in 1 .. Len(r.pts) - 1 : r.pts[m + 1].i - r.pts[m].i \in 0 .. 1
  /\ b = 1 => r.pts[1] = Pt(f, TRUE)
  /\ b = 0 => ~ r.pts[1].cross
  /\ e = 1 => r.pts[Len(r.pts)] = Pt(l + 1, TRUE)
  /\ e = 0 => ~ r.pts[Len(r.pts)].cross

LEMMA ShapeIs ==
  ASSUME NEW r, NEW f \in Int, NEW l \in Int, f <= l, NEW b \in {0, 1}, NEW e \in {0, 1}, Shape(r, f, l, b, e)
  PROVE  Points(r, f, l, b, e)
<1> DEFINE N == Len(r.pts)
<1>1. N = (l - f + 1) + b + e /\ \A m \in 1 .. N : r.pts[m] = PointAt(f, l, b, m)
  BY DEF Shape
<1>2. N \in Nat /\ N >= 1
  BY <1>1
<1> HIDE DEF N
<1>3. \A x : /\ Pt(x, TRUE).i = x /\ Pt(x, FALSE).i = x /\ Pt(x, TRUE).cross = TRUE
             /\ Pt(x, FALSE).cross = FALSE
  BY DEF Pt
<1> DEFINE ends == b + (l - f + 1)
<1>l. ends \in Int /\ ends = b + (l - f + 1) /\ N = ends + e /\ b < ends
  BY <1>1
<1>4. ASSUME NEW m \in 1 .. N
      PROVE  /\ m <= b => r.pts[m] = Pt(f, TRUE) /\ m = 1 /\ b = 1
             /\ m > b /\ m <= ends => r.pts[m] = Pt(f + (m - b) - 1, FALSE)
             /\ m > ends => r.pts[m] = Pt(l + 1, TRUE) /\ e = 1 /\ m = N
  <2>1. m \in Int /\ r.pts[m] = PointAt(f, l, b, m)
    BY <1>1
  <2>2. m <= b => m = 1 /\ b = 1
    OBVIOUS
  <2> HIDE DEF ends
  <2>3. m > ends => e = 1 /\ m = N /\ ~ (m <= b)
    BY <1>l
  <2>4. (m > b => ~ (m <= b)) /\ (m > ends => ~ (m <= ends))
    BY <1>l
  <2> QED
    BY <2>1, <2>2, <2>3, <2>4 DEF PointAt, ends
<1> HIDE DEF ends
<1>a. ASSUME NEW m \in 1 .. N
      PROVE  /\ m <= b => r.pts[m].i = f /\ r.pts[m].cross /\ m = 1 /\ b = 1
             /\ m > b /\ m <= ends => r.pts[m].i = f + (m - b) - 1 /\ ~ r.pts[m].cross
             /\ m > ends => r.pts[m].i = l + 1 /\ r.pts[m].cross /\ e = 1 /\ m = N
  BY <1>3, <1>4
<1>m. \A m \in 1 .. N : m <= b \/ (m > b /\ m <= ends) \/ m > ends
  BY <1>l
<1>5. ASSUME NEW m \in 1 .. N, ~ r.pts[m].cross
      PROVE  m > b /\ m - b <= l - f + 1 /\ r.pts[m].i = f + (m - b) - 1 /\ r.pts[m].i \in f .. l
  <2>1. m > b /\ m <= ends /\ r.pts[m].i = f + (m - b) - 1
    BY <1>a, <1>m, <1>5
  <2> QED
    BY <1>l, <2>1
<1>6. ASSUME NEW i \in f .. l
      PROVE  /\ (i - f + 1) + b \in 1 .. N
             /\ ~ r.pts[(i - f + 1) + b].cross /\ r.pts[(i - f + 1) + b].i = i
  <2> DEFINE m == (i - f + 1) + b
  <2>1. m \in 1 .. N /\ m > b /\ m <= ends /\ f + (m - b) - 1 = i
    BY <1>l
  <2> HIDE DEF m
  <2> QED
    BY <1>a, <2>1 DEF m
<1>7. ASSUME NEW m \in 1 .. N - 1 PROVE r.pts[m + 1].i - r.pts[m].i \in 0 .. 1
  <2> DEFINE k == m + 1
             u == r.pts[m].i
             w == r.pts[k].i
  <2>1. m \in 1 .. N /\ k \in 1 .. N /\ m \in Int /\ k = m + 1 /\ m < N
    BY <1>2
  <2> HIDE DEF k
  <2>2. CASE m <= b
    <3>1. u = f /\ m = 1 /\ b = 1
      BY <1>a, <2>1, <2>2
    <3>2. k > b /\ k <= ends /\ f + (k - b) - 1 = f
      BY <1>l, <2>1, <3>1
    <3>3. w = f
      BY <1>a, <2>1, <3>2
    <3> QED
      BY <3>1, <3>3 DEF k
  <2>3. CASE m > b /\ k <= ends
    <3>1. m <= ends /\ k > b
      BY <1>l, <2>1, <2>3
    <3>2. u = f + (m - b) - 1 /\ w = f + (k - b) - 1
      BY <1>a, <2>1, <2>3, <3>1
    <3>3. w - u = 1
      <4> HIDE DEF u, w
      <4> QED
        BY <2>1, <3>2
    <3> QED
      BY <3>3 DEF k
  <2>4. CASE m > b /\ k > ends
    <3>1. m <= ends /\ m = ends
      BY <1>l, <2>1, <2>4
    <3>2. u = f + (m - b) - 1 /\ w = l + 1
      BY <1>a, <2>1, <2>4, <3>1
    <3>3. w - u = 1
      <4> HIDE DEF u, w
      <4> QED
        BY <1>l, <2>1, <3>1, <3>2
    <3> QED
      BY <3>3 DEF k
  <2>5. m <= b \/ (m > b /\ k <= ends) \/ (m > b /\ k > ends)
    BY <1>l, <2>1
  <2> QED
    BY <2>2, <2>3, <2>4, <2>5
<1>8. (b = 1 => r.pts[1] = Pt(f, TRUE)) /\ (b = 0 => ~ r.pts[1].cross)
  <2>1. 1 \in 1 .. N /\ (b = 1 => 1 <= b) /\ (b = 0 => 1 > b /\ 1 <= ends)
    BY <1>l, <1>2
  <2> QED
    BY <1>4, <1>a, <2>1
<1>9. N \in 1 .. N
  BY <1>2
<1>10. e = 1 => r.pts[N] = Pt(l + 1, TRUE)
  <2>1. e = 1 => N > ends
    BY <1>l
  <2> QED
    BY <1>4, <1>9, <2>1
<1>11. e = 0 => ~ r.pts[N].cross
  <2>1. e = 0 => N > b /\ N <= ends
    BY <1>l
  <2> QED
    BY <1>a, <1>9, <2>1
<1> QED
  BY <1>2, <1>5, <1>6, <1>7, <1>8, <1>10, <1>11 DEF N, Points

\* What is drawn like that goes through all the values.
LEMMA DrawsFaithfully ==
  ASSUME NEW vals \in Seq(Int \cup {NoValue}), NEW a \in RunState, NEW F, NEW L,
         Draws(a, vals, Len(vals), F, L)
  PROVE  DrawnBy(a.runs, vals)
<1> DEFINE rs == a.runs
           N  == Len(rs)
           n  == Len(vals)
           B(k) == Lead(F, L, k)
           T(k) == Trail(F, L, k, N)
           At(d) == rs[d[1]].pts[d[2]]
           Drawn == {d \in UNION {{k} \X DOMAIN rs[k].pts : k \in DOMAIN rs} : ~At(d).cross}
           Before(d, e) == d[1] < e[1] \/ (d[1] = e[1] /\ d[2] < e[2])
           Meet(k) == \E d, e \in Drawn : d[1] = k /\ e[1] = k + 1 /\ At(e).i = At(d).i + 1
<1>1. rs \in Seq(RunOf) /\ N \in Nat /\ DOMAIN rs = 1 .. N /\ n \in Nat
  BY DEF RunState
<1>2. \A k \in 1 .. N : rs[k] \in RunOf /\ rs[k].pts \in Seq([i : Int, cross : BOOLEAN])
                        /\ DOMAIN rs[k].pts = 1 .. Len(rs[k].pts)
  <2>1. SUFFICES ASSUME NEW k \in 1 .. N
                 PROVE  rs[k] \in RunOf /\ rs[k].pts \in Seq([i : Int, cross : BOOLEAN])
                        /\ DOMAIN rs[k].pts = 1 .. Len(rs[k].pts)
    OBVIOUS
  <2>2. rs[k] \in RunOf
    BY <1>1
  <2>3. rs[k].pts \in Seq([i : Int, cross : BOOLEAN])
    BY <2>2 DEF RunOf
  <2> QED
    BY <2>2, <2>3
<1>4. F \in [1 .. N -> 1 .. n] /\ L \in [1 .. N -> 1 .. n]
  BY DEF Draws
<1>s. \A k \in 1 .. N : F[k] <= L[k] /\ Shape(rs[k], F[k], L[k], B(k), T(k))
  BY DEF Draws
<1>g. \A k \in 1 .. N : \A i \in F[k] .. L[k] : vals[i] # NoValue /\ Sign(vals[i]) = rs[k].sign
  BY DEF Draws
<1>o. \A k, l \in 1 .. N : k < l => L[k] < F[l]
  BY DEF Draws
<1>j. \A k \in 1 .. N - 1 : L[k] + 1 = F[k + 1] => rs[k].sign # rs[k + 1].sign
  BY DEF Draws
<1>c. \A i \in 1 .. n : vals[i] # NoValue => \E k \in 1 .. N : F[k] <= i /\ i <= L[k]
  BY DEF Draws
<1>b. \A k \in 1 .. N : B(k) \in {0, 1} /\ T(k) \in {0, 1} /\ F[k] \in Int /\ L[k] \in Int
  BY <1>4 DEF Lead, Trail
<1> HIDE DEF B, T, rs, N, n
<1>5. ASSUME NEW k \in 1 .. N
      PROVE  /\ Len(rs[k].pts) \in Nat /\ Len(rs[k].pts) >= 1
             /\ \A m \in 1 .. Len(rs[k].pts) : ~ rs[k].pts[m].cross =>
                  rs[k].pts[m].i = F[k] + (m - B(k)) - 1 /\ rs[k].pts[m].i \in F[k] .. L[k]
             /\ \A i \in F[k] .. L[k] :
                  /\ (i - F[k] + 1) + B(k) \in 1 .. Len(rs[k].pts)
                  /\ ~ rs[k].pts[(i - F[k] + 1) + B(k)].cross /\ rs[k].pts[(i - F[k] + 1) + B(k)].i = i
             /\ \A m \in 1 .. Len(rs[k].pts) - 1 : rs[k].pts[m + 1].i - rs[k].pts[m].i \in 0 .. 1
             /\ B(k) = 1 => rs[k].pts[1] = Pt(F[k], TRUE)
             /\ B(k) = 0 => ~ rs[k].pts[1].cross
             /\ T(k) = 1 => rs[k].pts[Len(rs[k].pts)] = Pt(L[k] + 1, TRUE)
             /\ T(k) = 0 => ~ rs[k].pts[Len(rs[k].pts)].cross
  <2>1. F[k] <= L[k] /\ Shape(rs[k], F[k], L[k], B(k), T(k)) /\ B(k) \in {0, 1} /\ T(k) \in {0, 1}
        /\ F[k] \in Int /\ L[k] \in Int
    BY <1>s, <1>b
  <2>2. Points(rs[k], F[k], L[k], B(k), T(k))
    BY <2>1, ShapeIs
  <2> QED
    BY <2>2 DEF Points
\* A point that is drawn is a slot of its run.
<1>6. ASSUME NEW d \in Drawn
      PROVE  /\ d[1] \in 1 .. N /\ d[2] \in 1 .. Len(rs[d[1]].pts) /\ d[2] \in Int
             /\ At(d).i = F[d[1]] + (d[2] - B(d[1])) - 1 /\ At(d).i \in F[d[1]] .. L[d[1]]
  <2>1. PICK k \in DOMAIN rs : d \in {k} \X DOMAIN rs[k].pts
    OBVIOUS
  <2>2. d[1] = k /\ d[2] \in DOMAIN rs[k].pts /\ k \in 1 .. N /\ ~ rs[k].pts[d[2]].cross
    BY <1>1, <2>1
  <2>3. d[2] \in 1 .. Len(rs[k].pts)
    BY <1>2, <2>2
  <2>4. rs[k].pts[d[2]].i = F[k] + (d[2] - B(k)) - 1 /\ rs[k].pts[d[2]].i \in F[k] .. L[k]
    BY <1>5, <2>2, <2>3
  <2> QED
    BY <2>2, <2>3, <2>4
\* And each slot of a run is a point that is drawn.
<1>7. ASSUME NEW k \in 1 .. N, NEW i \in F[k] .. L[k]
      PROVE  \E d \in Drawn : d[1] = k /\ At(d).i = i
  <2> DEFINE m == (i - F[k] + 1) + B(k)
             d == <<k, m>>
  <2>1. m \in 1 .. Len(rs[k].pts) /\ ~ rs[k].pts[m].cross /\ rs[k].pts[m].i = i
    BY <1>5
  <2> HIDE DEF m
  <2>2. d \in {k} \X DOMAIN rs[k].pts /\ k \in DOMAIN rs /\ d[1] = k /\ d[2] = m
    BY <1>1, <1>2, <2>1
  <2>3. d \in Drawn /\ At(d).i = i
    BY <2>1, <2>2
  <2> QED
    BY <2>2, <2>3
<1>8. {At(d).i : d \in Drawn} = {i \in 1 .. n : vals[i] # NoValue}
  <2>1. ASSUME NEW d \in Drawn PROVE At(d).i \in 1 .. n /\ vals[At(d).i] # NoValue
    <3>1. d[1] \in 1 .. N /\ At(d).i \in F[d[1]] .. L[d[1]]
      BY <1>6
    <3>2. F[d[1]] \in 1 .. n /\ L[d[1]] \in 1 .. n
      BY <1>4, <3>1
    <3>3. vals[At(d).i] # NoValue
      BY <1>g, <3>1
    <3> HIDE DEF At, Drawn
    <3> QED
      BY <1>1, <3>1, <3>2, <3>3
  <2>2. ASSUME NEW i \in 1 .. n, vals[i] # NoValue PROVE \E d \in Drawn : At(d).i = i
    <3>1. PICK k \in 1 .. N : F[k] <= i /\ i <= L[k]
      BY <1>c, <2>2
    <3>2. i \in F[k] .. L[k]
      BY <1>b, <3>1
    <3> QED
      BY <1>7, <3>2
  <2> HIDE DEF At, Drawn
  <2> QED
    BY <2>1, <2>2
<1>9. ASSUME NEW d \in Drawn, NEW e \in Drawn, Before(d, e) PROVE At(d).i < At(e).i
  <2>1. /\ d[1] \in 1 .. N /\ d[2] \in Int /\ At(d).i = F[d[1]] + (d[2] - B(d[1])) - 1 /\ At(d).i \in F[d[1]] .. L[d[1]]
        /\ e[1] \in 1 .. N /\ e[2] \in Int /\ At(e).i = F[e[1]] + (e[2] - B(e[1])) - 1 /\ At(e).i \in F[e[1]] .. L[e[1]]
    BY <1>6
  <2>2. CASE d[1] < e[1]
    <3>1. L[d[1]] < F[e[1]]
      BY <1>o, <2>1, <2>2
    <3> HIDE DEF At
    <3> QED
      BY <1>b, <2>1, <3>1
  <2>3. CASE d[1] = e[1] /\ d[2] < e[2]
    <3>1. B(d[1]) \in Int /\ F[d[1]] \in Int
      BY <1>b, <2>1
    <3> HIDE DEF At
    <3> QED
      BY <2>1, <2>3, <3>1
  <2> QED
    BY <1>9, <2>2, <2>3
<1>10. ASSUME NEW d \in Drawn PROVE Sign(vals[At(d).i]) = rs[d[1]].sign
  BY <1>6, <1>g
<1>11. \A k \in DOMAIN rs : \A m \in 1 .. Len(rs[k].pts) - 1 : rs[k].pts[m + 1].i - rs[k].pts[m].i \in 0 .. 1
  BY <1>1, <1>5
<1>12. ASSUME NEW k \in 1 .. N - 1
       PROVE  LET end == rs[k].pts[Len(rs[k].pts)]
                  beg == rs[k + 1].pts[1]
              IN IF Meet(k) THEN end = beg /\ end.cross /\ rs[k].sign # rs[k + 1].sign
                 ELSE ~end.cross /\ ~beg.cross
  <2>1. k \in 1 .. N /\ k + 1 \in 1 .. N /\ k < N /\ k < k + 1 /\ k + 1 > 1 /\ (k + 1) - 1 = k
    BY <1>1
  <2>2. Meet(k) => L[k] + 1 = F[k + 1]
    <3>1. SUFFICES ASSUME NEW d \in Drawn, NEW e \in Drawn, d[1] = k, e[1] = k + 1, At(e).i = At(d).i + 1
                   PROVE  L[k] + 1 = F[k + 1]
      OBVIOUS
    <3>2. At(d).i \in F[k] .. L[k] /\ At(e).i \in F[k + 1] .. L[k + 1]
      BY <1>6, <3>1
    <3>3. L[k] < F[k + 1] /\ L[k] \in Int /\ F[k] \in Int /\ F[k + 1] \in Int /\ L[k + 1] \in Int
      BY <1>b, <1>o, <2>1
    <3> HIDE DEF At
    <3> QED
      BY <3>1, <3>2, <3>3
  <2>3. L[k] + 1 = F[k + 1] => Meet(k)
    <3>1. SUFFICES ASSUME L[k] + 1 = F[k + 1] PROVE Meet(k)
      OBVIOUS
    <3>2. L[k] \in F[k] .. L[k] /\ F[k + 1] \in F[k + 1] .. L[k + 1]
      BY <1>b, <1>s, <2>1
    <3>3. PICK d \in Drawn : d[1] = k /\ At(d).i = L[k]
      BY <1>7, <2>1, <3>2
    <3>4. PICK e \in Drawn : e[1] = k + 1 /\ At(e).i = F[k + 1]
      BY <1>7, <2>1, <3>2
    <3> HIDE DEF At, Drawn
    <3> QED
      BY <3>1, <3>3, <3>4
  <2> HIDE DEF Meet
  <2>4. CASE L[k] + 1 = F[k + 1]
    <3>1. T(k) = 1 /\ B(k + 1) = 1
      BY <2>1, <2>4 DEF T, B, Trail, Lead
    <3>2. rs[k].pts[Len(rs[k].pts)] = Pt(L[k] + 1, TRUE) /\ rs[k + 1].pts[1] = Pt(F[k + 1], TRUE)
      BY <1>5, <2>1, <3>1
    <3>3. Pt(L[k] + 1, TRUE).cross
      BY DEF Pt
    <3>4. rs[k].sign # rs[k + 1].sign
      BY <1>j, <2>4
    <3> QED
      BY <2>3, <2>4, <3>2, <3>3, <3>4
  <2>5. CASE L[k] + 1 # F[k + 1]
    <3>1. T(k) = 0 /\ B(k + 1) = 0
      BY <2>1, <2>5 DEF T, B, Trail, Lead
    <3>2. ~ rs[k].pts[Len(rs[k].pts)].cross /\ ~ rs[k + 1].pts[1].cross
      BY <1>5, <2>1, <3>1
    <3> QED
      BY <2>2, <2>5, <3>2
  <2> QED
    BY <2>4, <2>5
<1> QED
  BY <1>8, <1>9, <1>10, <1>11, <1>12 DEF DrawnBy, rs, N, n

LEMMA LineIsFaithful == ASSUME HourConsts, HourInv PROVE RunsFaithful
<1> DEFINE vals == [i \in 1 .. Len(lastHour) |-> lastHour[i].v]
<1>1. PICK since \in 1 .. Window + 1 :
           /\ Len(lastHour) = Window - since + 1
           /\ \A i \in 1 .. Len(lastHour) : since + i - 1 \in 1 .. Window /\ lastHour[i] = slot(since + i - 1)
  BY LastHourIs
<1>2. Len(lastHour) \in Nat
  BY <1>1 DEF HourConsts
<1>3. ASSUME NEW i \in 1 .. Len(lastHour) PROVE lastHour[i].v \in Int \cup {NoValue}
  <2>1. since + i - 1 \in 1 .. Window /\ lastHour[i] = slot(since + i - 1)
    BY <1>1
  <2> QED
    BY <2>1, SlotIs
<1>4. vals \in Seq(Int \cup {NoValue})
  BY <1>2, <1>3
<1> HIDE DEF vals
<1>5. PICK a \in RunState : runs(vals) = a.runs /\ \E F, L : Draws(a, vals, Len(vals), F, L)
  BY <1>4, RunsDraw
<1>6. DrawnBy(a.runs, vals)
  BY <1>4, <1>5, DrawsFaithfully
<1> QED
  BY <1>5, <1>6 DEF RunsFaithful, vals

\* hour.js, live-tab.js: each value of the last hour is what the meter said at that time,
\* or an average of what it said in that quarter hour, and the line goes through all of them.
THEOREM HourIsDrawn == HrSpec => [](HrTypeOK /\ HourTrue /\ RunsFaithful)
<1> SUFFICES ASSUME HourConsts PROVE HrSpec => [](HrTypeOK /\ HourTrue /\ RunsFaithful)
  BY HourChartAssumption DEF HourConsts
<1>1. HrInit => HourInv
  BY HourInvInit
<1>2. HourInv /\ [HrNext]_hrVars => HourInv'
  BY HourInvNext
<1>3. HourInv => HrTypeOK /\ HourTrue /\ RunsFaithful
  BY HourIsTrue, LineIsFaithful DEF HourInv
<1> QED
  BY <1>1, <1>2, <1>3, PTL DEF HrSpec
-----------------------------------------------------------------------------
(* HistChart: the history, and what is read of it.                         *)

\* A record, and what is known of one.
Recorded == [qh : {UnknownQh} \cup 1 .. MaxQh, wh : Nat, silent : BOOLEAN, fresh : BOOLEAN]
IsDated(i) == recs[i].qh # UnknownQh

\* The records are dated in the order of time, and all before the quarter hour it is.
DatesUp ==
  /\ \A i \in 1 .. Len(recs) : IsDated(i) => recs[i].qh < clock.qh
  /\ \A i, j \in 1 .. Len(recs) : i < j /\ IsDated(i) /\ IsDated(j) => recs[i].qh < recs[j].qh

\* What was last read is in the last record; a silent record repeats the one before.
ReadInv ==
  /\ meter.read # NoWh => Len(recs) >= 1 /\ meter.read = recs[Len(recs)].wh
  /\ meter.fresh => meter.read = NoWh
  /\ \A i \in 1 .. Len(recs) : recs[i].silent => i > 1 /\ recs[i].wh = recs[i - 1].wh

\* u[i] had gone through the meters when the counter of record i was read: a step of the
\* counter that is not to a new meter was paid for, and so is what the meter has counted since.
Paid(u) ==
  /\ \A i \in 1 .. Len(recs) : u[i] <= used
  /\ \A i \in 1 .. Len(recs) - 1 :
       /\ u[i] <= u[i + 1]
       /\ ~ recs[i + 1].fresh => recs[i + 1].wh - recs[i].wh <= u[i + 1] - u[i]
  /\ Len(recs) >= 1 /\ ~ meter.fresh => meter.wh - recs[Len(recs)].wh <= used - u[Len(recs)]

PaidFor == \E u \in [1 .. Len(recs) -> Nat] : Paid(u)

HcIInv == HcTypeOK /\ DatesUp /\ ReadInv

HcConsts ==
  /\ Ranges \subseteq Nat \ {0} /\ Energy \subseteq Nat /\ Plausible \in Nat /\ MaxBars \in Nat
  /\ MaxQh \in Nat \ {0} /\ MarkLost \in BOOLEAN

\* The constants, and the types, one by one.
LEMMA HcConstants == HcConsts
BY HistChartAssumption DEF HcConsts

LEMMA HcTypes ==
  ASSUME HcTypeOK
  PROVE  /\ recs \in Seq(Recorded) /\ Len(recs) \in Nat /\ DOMAIN recs = 1 .. Len(recs)
         /\ \A i \in 1 .. Len(recs) :
              /\ recs[i] \in Recorded /\ recs[i].qh \in {UnknownQh} \cup 1 .. MaxQh /\ recs[i].qh \in Int
              /\ recs[i].wh \in Nat /\ recs[i].silent \in BOOLEAN /\ recs[i].fresh \in BOOLEAN
         /\ clock.qh \in 1 .. MaxQh /\ clock.set \in BOOLEAN /\ step \in Nat /\ step >= 1
         /\ meter.wh \in Nat /\ meter.read \in Nat \cup {NoWh} /\ meter.fresh \in BOOLEAN
         /\ meter = [wh |-> meter.wh, read |-> meter.read, fresh |-> meter.fresh]
         /\ clock = [qh |-> clock.qh, set |-> clock.set]
         /\ used \in Nat /\ MaxQh \in Nat
<1>1. recs \in Seq(Recorded)
  BY DEF HcTypeOK, Recorded
<1>2. Len(recs) \in Nat /\ DOMAIN recs = 1 .. Len(recs) /\ \A i \in 1 .. Len(recs) : recs[i] \in Recorded
  BY <1>1
<1>3. MaxQh \in Nat
  BY HcConstants DEF HcConsts
<1>4. \A r \in Recorded : /\ r.qh \in {UnknownQh} \cup 1 .. MaxQh /\ r.qh \in Int
                          /\ r.wh \in Nat /\ r.silent \in BOOLEAN /\ r.fresh \in BOOLEAN
  BY <1>3 DEF Recorded, UnknownQh
<1>5. step \in Nat /\ step >= 1
  BY HcConstants DEF HcTypeOK, HcConsts
<1>6. clock.qh \in 1 .. MaxQh /\ clock.set \in BOOLEAN /\ clock = [qh |-> clock.qh, set |-> clock.set]
  BY DEF HcTypeOK
<1>7. /\ meter.wh \in Nat /\ meter.read \in Nat \cup {NoWh} /\ meter.fresh \in BOOLEAN
      /\ meter = [wh |-> meter.wh, read |-> meter.read, fresh |-> meter.fresh]
  BY DEF HcTypeOK
<1>8. used \in Nat
  BY DEF HcTypeOK
<1> QED
  BY <1>1, <1>2, <1>3, <1>4, <1>5, <1>6, <1>7, <1>8

\* A record more.
LEMMA RecordMore ==
  ASSUME HcTypeOK, NEW r \in Recorded, recs' = Append(recs, r)
  PROVE  /\ recs' \in Seq(Recorded) /\ Len(recs') = Len(recs) + 1 /\ Len(recs) \in Nat
         /\ \A i \in 1 .. Len(recs) : recs'[i] = recs[i]
         /\ recs'[Len(recs) + 1] = r
BY HcTypes

\* What an interval records.
IntervalOf(spoke, e, r) ==
  /\ recs' = Append(recs, r) /\ used' = used + e /\ e \in Nat
  /\ r.qh = (IF clock.set THEN clock.qh ELSE UnknownQh) /\ (r.silent <=> ~ spoke)
  /\ (r.fresh <=> meter.fresh) /\ r.wh \in Nat
  /\ r.wh = (IF spoke THEN meter.wh + e ELSE meter.read)
  /\ meter' = [wh |-> meter.wh + e, read |-> r.wh, fresh |-> FALSE]
  /\ clock' = [qh |-> clock.qh + 1, set |-> clock.set] /\ clock.qh < MaxQh
  /\ step' = step

LEMMA IntervalIs ==
  ASSUME HcIInv, Interval
  PROVE  \E spoke \in BOOLEAN, e \in Energy, r \in Recorded :
           IntervalOf(spoke, e, r)
<1>1. PICK spoke \in BOOLEAN, e \in Energy : closed(spoke, e) /\ counted(e)
  BY DEF Interval
<1>2. /\ clock.qh \in 1 .. MaxQh /\ clock.set \in BOOLEAN /\ meter.wh \in Nat
      /\ meter.read \in Nat \cup {NoWh} /\ meter.fresh \in BOOLEAN /\ used \in Nat /\ e \in Nat
      /\ clock = [qh |-> clock.qh, set |-> clock.set]
  BY HcTypes, HcConstants DEF HcIInv, HcConsts
<1> DEFINE rd == IF spoke THEN meter.wh + e ELSE meter.read
           r == [qh |-> IF clock.set THEN clock.qh ELSE UnknownQh, wh |-> rd,
                 silent |-> ~ spoke, fresh |-> meter.fresh]
<1>3. /\ rd # NoWh /\ recs' = Append(recs, r)
      /\ meter' = [wh |-> meter.wh + e, read |-> rd, fresh |-> FALSE]
  BY <1>1 DEF closed
<1>4. rd \in Nat
  BY <1>2, <1>3
<1>5. clock' = [qh |-> clock.qh + 1, set |-> clock.set] /\ clock.qh < MaxQh /\ step' = step
  BY <1>2 DEF Interval
<1>6. used' = used + e
  BY <1>1 DEF counted
<1> HIDE DEF rd
<1>7. r \in Recorded
  BY <1>2, <1>4 DEF Recorded
<1> DEFINE rr == r
<1>8. /\ rr.qh = (IF clock.set THEN clock.qh ELSE UnknownQh) /\ rr.silent = ~ spoke
      /\ rr.fresh = meter.fresh /\ rr.wh = rd
  OBVIOUS
<1>9. recs' = Append(recs, rr) /\ rr \in Recorded
  BY <1>3, <1>7
<1> HIDE DEF rr
<1>10. rr.wh = IF spoke THEN meter.wh + e ELSE meter.read
  BY <1>8 DEF rd
<1>11. meter' = [wh |-> meter.wh + e, read |-> rr.wh, fresh |-> FALSE] /\ rr.wh \in Nat
  BY <1>3, <1>4, <1>8
<1>12. IntervalOf(spoke, e, rr)
  BY <1>2, <1>5, <1>6, <1>8, <1>9, <1>10, <1>11 DEF IntervalOf
<1> QED
  BY <1>9, <1>12

LEMMA HcInitial == HcInit => HcIInv /\ PaidFor
<1> SUFFICES ASSUME HcInit PROVE HcIInv /\ PaidFor
  OBVIOUS
<1>1. recs = <<>> /\ Len(recs) = 0
  BY DEF HcInit
<1>2. HcTypeOK
  <2>1. MaxQh \in Nat /\ MaxQh >= 1
    BY HcConstants DEF HcConsts
  <2>2. 1 \in 1 .. MaxQh
    BY <2>1
  <2>3. recs \in Seq([qh : {UnknownQh} \cup 1..MaxQh, wh : Nat, silent : BOOLEAN, fresh : BOOLEAN])
    BY <1>1
  <2> QED
    BY <2>2, <2>3 DEF HcInit, HcTypeOK
<1>3. DatesUp
  BY <1>1 DEF DatesUp
<1>4. ReadInv
  BY <1>1 DEF ReadInv, HcInit
<1>5. PaidFor
  <2> DEFINE u == [i \in 1 .. Len(recs) |-> 0]
  <2>1. u \in [1 .. Len(recs) -> Nat]
    OBVIOUS
  <2>2. Paid(u)
    BY <1>1 DEF Paid
  <2> QED
    BY <2>1, <2>2 DEF PaidFor
<1> QED
  BY <1>2, <1>3, <1>4, <1>5 DEF HcIInv

\* The interval keeps it.
LEMMA IntervalKeeps ==
  ASSUME HcIInv, Interval
  PROVE  HcIInv' /\ (PaidFor => PaidFor')
<1>0. PICK spoke \in BOOLEAN, e \in Energy, r \in Recorded : IntervalOf(spoke, e, r)
  BY IntervalIs
<1>1. /\ recs' = Append(recs, r) /\ used' = used + e /\ e \in Nat
      /\ r.qh = (IF clock.set THEN clock.qh ELSE UnknownQh) /\ (r.silent <=> ~ spoke)
      /\ (r.fresh <=> meter.fresh) /\ r.wh \in Nat
      /\ r.wh = (IF spoke THEN meter.wh + e ELSE meter.read)
      /\ meter' = [wh |-> meter.wh + e, read |-> r.wh, fresh |-> FALSE]
      /\ clock' = [qh |-> clock.qh + 1, set |-> clock.set] /\ clock.qh < MaxQh
      /\ step' = step
  BY <1>0 DEF IntervalOf
<1> DEFINE N == Len(recs)
<1>2. HcTypeOK /\ DatesUp /\ ReadInv
  BY DEF HcIInv
<1>3. /\ recs' \in Seq(Recorded) /\ Len(recs') = N + 1 /\ N \in Nat
      /\ \A i \in 1 .. N : recs'[i] = recs[i]
      /\ recs'[N + 1] = r
  BY <1>1, <1>2, RecordMore
<1>4. /\ clock.qh \in 1 .. MaxQh /\ clock.set \in BOOLEAN /\ meter.wh \in Nat /\ used \in Nat
      /\ meter.read \in Nat \cup {NoWh} /\ meter.fresh \in BOOLEAN /\ MaxQh \in Nat
      /\ \A i \in 1 .. N : recs[i].qh \in Int /\ recs[i].wh \in Nat
  BY <1>2, HcTypes
<1>5. clock'.qh = clock.qh + 1 /\ clock'.set = clock.set /\ meter'.wh = meter.wh + e
      /\ meter'.read = r.wh /\ meter'.fresh = FALSE
  BY <1>1
<1>6. HcTypeOK'
  <2>1. clock' \in [qh : 1..MaxQh, set : BOOLEAN]
    BY <1>1, <1>4
  <2>2. meter' \in [wh : Nat, read : Nat \cup {NoWh}, fresh : BOOLEAN]
    BY <1>1, <1>4
  <2>3. used' \in Nat /\ step' \in Ranges
    BY <1>1, <1>2, <1>4 DEF HcTypeOK
  <2> QED
    BY <1>3, <2>1, <2>2, <2>3 DEF HcTypeOK, Recorded
<1> HIDE DEF N
<1>7. DatesUp'
  <2>1. ASSUME NEW i \in 1 .. N + 1, recs'[i].qh # UnknownQh PROVE recs'[i].qh < clock'.qh
    <3>1. CASE i = N + 1
      BY <1>1, <1>3, <1>4, <1>5, <2>1, <3>1
    <3>2. CASE i # N + 1
      <4>1. i \in 1 .. N
        BY <1>3, <3>2
      <4>2. recs[i].qh < clock.qh /\ recs'[i] = recs[i]
        BY <1>2, <1>3, <2>1, <4>1 DEF DatesUp, IsDated, N
      <4> QED
        BY <1>4, <1>5, <4>1, <4>2
    <3> QED
      BY <3>1, <3>2
  <2>2. ASSUME NEW i \in 1 .. N + 1, NEW j \in 1 .. N + 1, i < j, recs'[i].qh # UnknownQh,
               recs'[j].qh # UnknownQh
        PROVE  recs'[i].qh < recs'[j].qh
    <3>1. i \in 1 .. N /\ recs'[i] = recs[i]
      BY <1>3, <2>2
    <3>2. recs[i].qh < clock.qh
      BY <1>2, <2>2, <3>1 DEF DatesUp, IsDated, N
    <3>3. CASE j = N + 1
      BY <1>1, <1>3, <1>4, <2>2, <3>1, <3>2, <3>3
    <3>4. CASE j # N + 1
      <4>1. j \in 1 .. N /\ recs'[j] = recs[j]
        BY <1>3, <3>4
      <4> QED
        BY <1>2, <2>2, <3>1, <4>1 DEF DatesUp, IsDated, N
    <3> QED
      BY <3>3, <3>4
  <2> QED
    BY <1>3, <2>1, <2>2 DEF DatesUp, IsDated
<1>8. ReadInv'
  <2>1. ASSUME NEW i \in 1 .. N + 1, recs'[i].silent
        PROVE  i > 1 /\ recs'[i].wh = recs'[i - 1].wh
    <3>1. CASE i = N + 1
      <4>1. ~ spoke /\ r.wh = meter.read /\ meter.read # NoWh
        BY <1>1, <1>3, <2>1, <3>1 DEF NoWh
      <4>2. N >= 1 /\ meter.read = recs[N].wh
        BY <1>2, <4>1 DEF ReadInv, N
      <4>3. N \in 1 .. N /\ recs'[N] = recs[N] /\ i - 1 = N
        BY <1>3, <3>1, <4>2
      <4> QED
        BY <1>3, <3>1, <4>1, <4>2, <4>3
    <3>2. CASE i # N + 1
      <4>1. i \in 1 .. N /\ recs'[i] = recs[i]
        BY <1>3, <3>2
      <4>2. i > 1 /\ recs[i].wh = recs[i - 1].wh
        BY <1>2, <2>1, <4>1 DEF ReadInv, N
      <4>3. i - 1 \in 1 .. N /\ recs'[i - 1] = recs[i - 1]
        BY <1>3, <4>1, <4>2
      <4> QED
        BY <4>1, <4>2, <4>3
    <3> QED
      BY <3>1, <3>2
  <2>2. Len(recs') >= 1 /\ meter'.read = recs'[Len(recs')].wh
    BY <1>3, <1>5
  <2> QED
    BY <1>3, <1>5, <2>1, <2>2 DEF ReadInv
<1>9. ASSUME PaidFor PROVE PaidFor'
  <2>1. PICK u \in [1 .. N -> Nat] : Paid(u)
    BY <1>9 DEF PaidFor, N
  <2> DEFINE x == IF spoke THEN used + e ELSE u[N]
             v0 == [i \in 1 .. N + 1 |-> IF i = N + 1 THEN x ELSE u[i]]
  <2>2. ~ spoke => N >= 1 /\ r.wh = recs[N].wh /\ meter.read # NoWh
    <3>1. ~ spoke => meter.read # NoWh
      BY <1>1 DEF NoWh
    <3> QED
      BY <1>1, <1>2, <3>1 DEF ReadInv, N
  <2>3. \A i \in 1 .. N : u[i] \in Nat /\ u[i] <= used
    BY <2>1 DEF Paid, N
  <2>4. x \in Nat /\ x <= used + e /\ (N >= 1 => u[N] <= x)
    <3>1. N >= 1 => N \in 1 .. N
      BY <1>3
    <3>2. CASE spoke
      <4>1. x = used + e
        BY <3>2
      <4> HIDE DEF x
      <4> QED
        BY <1>1, <1>4, <2>3, <3>1, <4>1
    <3>3. CASE ~ spoke
      <4>1. x = u[N]
        BY <3>3
      <4> HIDE DEF x
      <4> QED
        BY <1>1, <1>4, <2>2, <2>3, <3>1, <3>3, <4>1
    <3> QED
      BY <3>2, <3>3
  <2>d. (spoke => x = used + e) /\ (~ spoke => x = u[N])
    OBVIOUS
  <2> HIDE DEF x
  <2>v. v0 \in [1 .. N + 1 -> Nat] /\ v0[N + 1] = x /\ \A i \in 1 .. N : v0[i] = u[i]
    BY <1>3, <2>3, <2>4
  <2> HIDE DEF v0
  <2>5. PICK v \in [1 .. N + 1 -> Nat] : v[N + 1] = x /\ \A i \in 1 .. N : v[i] = u[i]
    BY <2>v
  <2>6. \A i \in 1 .. N + 1 : v[i] <= used + e
    <3> TAKE i \in 1 .. N + 1
    <3>1. CASE i = N + 1
      BY <2>4, <2>5, <3>1
    <3>2. CASE i # N + 1
      <4>1. i \in 1 .. N
        BY <1>3, <3>2
      <4> QED
        BY <1>1, <1>4, <2>3, <2>5, <4>1
    <3> QED
      BY <3>1, <3>2
  <2>7. ASSUME NEW i \in 1 .. N
        PROVE  /\ v[i] <= v[i + 1]
               /\ ~ recs'[i + 1].fresh => recs'[i + 1].wh - recs'[i].wh <= v[i + 1] - v[i]
    <3>1. recs'[i] = recs[i] /\ v[i] = u[i] /\ u[i] \in Nat /\ recs[i].wh \in Nat
      BY <1>3, <1>4, <2>3, <2>5
    <3>2. CASE i = N
      <4>1. recs'[i + 1] = r /\ v[i + 1] = x /\ N >= 1
        BY <1>3, <2>5, <3>2
      <4>2. ASSUME ~ r.fresh PROVE r.wh - recs[N].wh <= x - u[N]
        <5>1. ~ meter.fresh
          BY <1>1, <4>2
        <5>2. meter.wh - recs[N].wh <= used - u[N]
          BY <2>1, <4>1, <5>1 DEF Paid, N
        <5>3. CASE spoke
          <6>1. r.wh = meter.wh + e /\ x = used + e
            BY <1>1, <2>d, <5>3
          <6>2. recs[N].wh \in Nat /\ u[N] \in Nat /\ e \in Nat /\ used \in Nat /\ meter.wh \in Nat
            BY <1>1, <1>4, <3>1, <3>2
          <6> QED
            BY ONLY <5>2, <6>1, <6>2
        <5>4. CASE ~ spoke
          <6>1. r.wh = recs[N].wh /\ x = u[N]
            BY <2>2, <2>d, <5>4
          <6> QED
            BY <3>1, <3>2, <6>1
        <5> QED
          BY <5>3, <5>4
      <4> QED
        BY <2>4, <3>1, <3>2, <4>1, <4>2
    <3>3. CASE i # N
      <4>1. i \in 1 .. N - 1 /\ i + 1 \in 1 .. N
        BY <1>3, <3>3
      <4>2. recs'[i + 1] = recs[i + 1] /\ v[i + 1] = u[i + 1]
        BY <1>3, <2>5, <4>1
      <4>3. u[i] <= u[i + 1] /\ (~ recs[i + 1].fresh => recs[i + 1].wh - recs[i].wh <= u[i + 1] - u[i])
        BY <2>1, <4>1 DEF Paid, N
      <4> QED
        BY <3>1, <4>2, <4>3
    <3> QED
      BY <3>2, <3>3
  <2>8. meter'.wh - r.wh <= used' - x
    <3>1. CASE spoke
      <4>1. r.wh = meter.wh + e /\ x = used + e
        BY <1>1, <2>d, <3>1
      <4> QED
        BY <1>1, <1>4, <1>5, <4>1
    <3>2. CASE ~ spoke
      <4>1. ~ meter.fresh /\ N >= 1 /\ r.wh = recs[N].wh /\ x = u[N]
        BY <1>2, <2>2, <2>d, <3>2 DEF ReadInv
      <4>2. meter.wh - recs[N].wh <= used - u[N]
        BY <2>1, <4>1 DEF Paid, N
      <4>3. N \in 1 .. N
        BY <1>3, <4>1
      <4>4. u[N] \in Nat /\ recs[N].wh \in Nat
        BY <1>4, <2>3, <4>3
      <4>5. meter'.wh = meter.wh + e /\ used' = used + e /\ e \in Nat /\ used \in Nat /\ meter.wh \in Nat
        BY <1>1, <1>4, <1>5
      <4> QED
        BY ONLY <4>1, <4>2, <4>4, <4>5
    <3> QED
      BY <3>1, <3>2
  <2>9. Paid(v)'
    <3>1. Len(recs') = N + 1 /\ Len(recs') - 1 = N /\ recs'[Len(recs')] = r /\ v[Len(recs')] = x
      BY <1>3, <2>5
    <3>2. used' = used + e
      BY <1>1
    <3> QED
      BY <2>6, <2>7, <2>8, <3>1, <3>2 DEF Paid
  <2> QED
    BY <1>3, <2>5, <2>9 DEF PaidFor
<1> QED
  BY <1>6, <1>7, <1>8, <1>9 DEF HcIInv

\* So do the others, which make no record; a mark is lost only if MarkLost.
LEMMA HcStep ==
  ASSUME HcIInv, [HcNext]_hcVars
  PROVE  HcIInv' /\ (PaidFor /\ ~ MarkLost => PaidFor')
<1>1. CASE Interval
  BY <1>1, IntervalKeeps
<1>2. HcTypeOK /\ DatesUp /\ ReadInv
  BY DEF HcIInv
<1>3. /\ clock.qh \in 1 .. MaxQh /\ clock.set \in BOOLEAN /\ meter.wh \in Nat /\ used \in Nat
      /\ meter.read \in Nat \cup {NoWh} /\ meter.fresh \in BOOLEAN /\ MaxQh \in Nat
      /\ \A i \in 1 .. Len(recs) : recs[i].qh \in Int /\ recs[i].wh \in Nat
      /\ meter = [wh |-> meter.wh, read |-> meter.read, fresh |-> meter.fresh]
      /\ clock = [qh |-> clock.qh, set |-> clock.set] /\ Len(recs) \in Nat
  BY <1>2, HcTypes
<1>4. ASSUME recs' = recs, clock'.qh \in 1 .. MaxQh, clock'.qh >= clock.qh
      PROVE  DatesUp'
  <2>1. \A i \in 1 .. Len(recs) : IsDated(i) => recs[i].qh < clock'.qh
    BY <1>2, <1>3, <1>4 DEF DatesUp
  <2> QED
    BY <1>2, <1>4, <2>1 DEF DatesUp, IsDated
<1>5. CASE Missed
  <2>1. PICK e \in Energy : meter' = [meter EXCEPT !.wh = @ + e] /\ used' = used + e
    BY <1>5 DEF Missed, counted
  <2>2. e \in Nat
    BY HcConstants DEF HcConsts
  <2>3. clock' = [qh |-> clock.qh + 1, set |-> clock.set] /\ clock.qh < MaxQh /\ step' = step /\ recs' = recs
    BY <1>3, <1>5 DEF Missed
  <2>4. meter' = [wh |-> meter.wh + e, read |-> meter.read, fresh |-> meter.fresh]
    BY <1>3, <2>1
  <2>5. HcTypeOK'
    <3>1. clock' \in [qh : 1..MaxQh, set : BOOLEAN]
      BY <1>3, <2>3
    <3>2. meter' \in [wh : Nat, read : Nat \cup {NoWh}, fresh : BOOLEAN]
      BY <1>3, <2>2, <2>4
    <3> QED
      BY <1>2, <1>3, <2>1, <2>2, <2>3, <3>1, <3>2 DEF HcTypeOK
  <2>6. clock'.qh \in 1 .. MaxQh /\ clock'.qh >= clock.qh
    BY <1>3, <2>3
  <2>7. ReadInv'
    BY <1>2, <2>3, <2>4 DEF ReadInv
  <2>8. ASSUME PaidFor PROVE PaidFor'
    <3>1. PICK u \in [1 .. Len(recs) -> Nat] : Paid(u)
      BY <2>8 DEF PaidFor
    <3>2. meter'.wh = meter.wh + e /\ meter'.fresh = meter.fresh
      BY <2>4
    <3>3. \A i \in 1 .. Len(recs) : u[i] <= used /\ u[i] \in Nat
      BY <3>1 DEF Paid
    <3>4. \A i \in 1 .. Len(recs) : u[i] <= used'
      BY <1>3, <2>1, <2>2, <3>3
    <3>5. ASSUME Len(recs) >= 1, ~ meter.fresh
          PROVE  meter'.wh - recs[Len(recs)].wh <= used' - u[Len(recs)]
      <4>1. Len(recs) \in 1 .. Len(recs)
        BY <1>3, <3>5
      <4>2. meter.wh - recs[Len(recs)].wh <= used - u[Len(recs)]
        BY <3>1, <3>5 DEF Paid
      <4>3. recs[Len(recs)].wh \in Nat /\ u[Len(recs)] \in Nat
        BY <1>3, <3>3, <4>1
      <4> QED
        BY <1>3, <2>1, <2>2, <3>2, <4>2, <4>3
    <3>6. Paid(u)'
      BY <2>3, <3>1, <3>2, <3>4, <3>5 DEF Paid
    <3> QED
      BY <2>3, <3>6 DEF PaidFor
  <2> QED
    BY <1>4, <2>3, <2>5, <2>6, <2>7, <2>8 DEF HcIInv
<1>6. CASE ClockSet
  <2>1. /\ clock' = [qh |-> clock.qh, set |-> TRUE]
        /\ recs' = recs /\ meter' = meter /\ used' = used /\ step' = step
    BY <1>3, <1>6 DEF ClockSet
  <2>2. HcTypeOK' /\ clock'.qh \in 1 .. MaxQh /\ clock'.qh >= clock.qh
    BY <1>2, <1>3, <2>1 DEF HcTypeOK
  <2>3. ReadInv'
    BY <1>2, <2>1 DEF ReadInv
  <2>4. PaidFor => PaidFor'
    BY <2>1 DEF PaidFor, Paid
  <2> QED
    BY <1>4, <2>1, <2>2, <2>3, <2>4 DEF HcIInv
<1>7. CASE Reboots
  <2>1. /\ clock' = [qh |-> clock.qh, set |-> FALSE]
        /\ meter' = [wh |-> meter.wh, read |-> NoWh, fresh |-> FALSE]
        /\ recs' = recs /\ used' = used /\ step' = step /\ (MarkLost \/ ~ meter.fresh)
    BY <1>3, <1>7 DEF Reboots
  <2>2. HcTypeOK' /\ clock'.qh \in 1 .. MaxQh /\ clock'.qh >= clock.qh
    BY <1>2, <1>3, <2>1 DEF HcTypeOK
  <2>3. ReadInv'
    BY <1>2, <2>1 DEF ReadInv
  <2>4. PaidFor /\ ~ MarkLost => PaidFor'
    BY <2>1 DEF PaidFor, Paid
  <2> QED
    BY <1>4, <2>1, <2>2, <2>3, <2>4 DEF HcIInv
<1>8. CASE Replaced
  <2>1. PICK w \in Energy : meter' = [wh |-> w, read |-> NoWh, fresh |-> TRUE]
    BY <1>8 DEF Replaced
  <2>2. w \in Nat
    BY HcConstants DEF HcConsts
  <2>3. recs' = recs /\ used' = used /\ step' = step /\ clock' = clock
    BY <1>8 DEF Replaced
  <2>4. HcTypeOK' /\ clock'.qh \in 1 .. MaxQh /\ clock'.qh >= clock.qh
    BY <1>2, <1>3, <2>1, <2>2, <2>3 DEF HcTypeOK
  <2>5. ReadInv'
    BY <1>2, <2>1, <2>3 DEF ReadInv
  <2>6. PaidFor => PaidFor'
    BY <2>1, <2>3 DEF PaidFor, Paid
  <2> QED
    BY <1>4, <2>3, <2>4, <2>5, <2>6 DEF HcIInv
<1>9. CASE UNCHANGED hcVars
  <2>1. recs' = recs /\ meter' = meter /\ used' = used /\ clock' = clock /\ step' = step
    BY <1>9 DEF hcVars
  <2>2. HcTypeOK' /\ DatesUp' /\ ReadInv'
    BY <1>2, <2>1 DEF HcTypeOK, DatesUp, IsDated, ReadInv
  <2>3. PaidFor => PaidFor'
    BY <2>1 DEF PaidFor, Paid
  <2> QED
    BY <2>2, <2>3 DEF HcIInv
<1> QED
  BY <1>1, <1>5, <1>6, <1>7, <1>8, <1>9 DEF HcNext

\* hist-tab.js, gplug_smi.cpp: the records and the readings are of their types, dated in the
\* order of time.
THEOREM HcInvariant == HcSpec => []HcIInv
BY HcInitial, HcStep, PTL DEF HcSpec

-----------------------------------------------------------------------------
(* HistChart: the fold of the records into points.                         *)

PointOf  == [qh : Int, silent : BOOLEAN, fresh : BOOLEAN, e : Int]
BucketOf == [key : Nat, dated : BOOLEAN, qh : Int, wh : Nat, silent : BOOLEAN, fresh : BOOLEAN]
FoldOf   == [pts : Seq(PointOf), prev : Int, b : {NoBucket} \cup BucketOf, i : Nat]
JsonBase == [pts |-> <<>>, prev |-> NoWh, b |-> NoBucket, i |-> 0]
JsonEnd  == FoldLeft(folded, JsonBase, recs)

\* The point of a bucket, and the key a record goes to.
BucketPoint(a) == [qh |-> a.b.qh, silent |-> a.b.silent, fresh |-> a.b.fresh,
                   e |-> IF a.b.fresh THEN NoWh ELSE delta(a.prev, a.b.wh)]
KeyAt(n, r) == (IF r.qh # UnknownQh THEN r.qh ELSE n) \div step
Joins(a, r) == a.b.key = KeyAt(a.i, r) /\ (a.b.dated <=> r.qh # UnknownQh)

LEMMA NoBucketIs == NoBucket \notin BucketOf
<1>1. NoBucket.key = -1
  BY DEF NoBucket, UnknownQh
<1>2. \A b \in BucketOf : b.key >= 0
  BY DEF BucketOf
<1> QED
  BY <1>1, <1>2

LEMMA KeyAtIs == ASSUME HcTypeOK, NEW n \in Nat, NEW r \in Recorded PROVE KeyAt(n, r) \in Nat
<1>1. step \in Nat /\ step >= 1 /\ MaxQh \in Nat
  BY HcTypes
<1>2. r.qh # UnknownQh => r.qh \in Nat
  BY <1>1 DEF Recorded
<1>3. \A x \in Nat : x \div step \in Nat
  BY <1>1
<1> QED
  BY <1>2, <1>3 DEF KeyAt

LEMMA PointTyped == ASSUME HcTypeOK, NEW a \in FoldOf, a.b \in BucketOf PROVE BucketPoint(a) \in PointOf
<1>1. a.prev \in Int /\ a.b.wh \in Nat /\ a.b.qh \in Int /\ a.b.silent \in BOOLEAN /\ a.b.fresh \in BOOLEAN
  BY DEF FoldOf, BucketOf
<1>2. delta(a.prev, a.b.wh) \in Int
  BY <1>1 DEF delta, NoWh
<1> DEFINE e == IF a.b.fresh THEN NoWh ELSE delta(a.prev, a.b.wh)
<1>3. e \in Int
  BY <1>2 DEF NoWh
<1> HIDE DEF e
<1>4. [qh |-> a.b.qh, silent |-> a.b.silent, fresh |-> a.b.fresh, e |-> e] \in PointOf
  BY <1>1, <1>3 DEF PointOf
<1> QED
  BY <1>4 DEF BucketPoint, e

\* A record of the bucket, the first of another, the first of all.
LEMMA FoldedSame ==
  ASSUME HcTypeOK, NEW a \in FoldOf, NEW r \in Recorded, a.b \in BucketOf, Joins(a, r)
  PROVE  folded(a, r) = [pts |-> a.pts, prev |-> a.prev, b |-> add(a.b, r), i |-> a.i + 1]
<1>1. a.b # NoBucket
  BY NoBucketIs
<1>2. a.b.dated \in BOOLEAN /\ a = [pts |-> a.pts, prev |-> a.prev, b |-> a.b, i |-> a.i]
  BY DEF FoldOf, BucketOf
<1>3. a.b.dated = (r.qh # UnknownQh) /\ a.b.key = KeyAt(a.i, r)
  BY <1>2 DEF Joins
<1>4. folded(a, r) = [a EXCEPT !.b = add(@, r), !.i = a.i + 1]
  BY <1>1, <1>3 DEF folded, KeyAt
<1> QED
  BY <1>2, <1>4

LEMMA FoldedNew ==
  ASSUME HcTypeOK, NEW a \in FoldOf, NEW r \in Recorded, a.b \in BucketOf, ~ Joins(a, r)
  PROVE  folded(a, r) = [pts |-> Append(a.pts, BucketPoint(a)), prev |-> a.b.wh,
                         b |-> Begin(r, r.qh # UnknownQh, KeyAt(a.i, r)), i |-> a.i + 1]
<1>1. a.b # NoBucket
  BY NoBucketIs
<1>2. a.b.dated \in BOOLEAN
  BY DEF BucketOf
<1> DEFINE same == a.b # NoBucket /\ a.b.key = KeyAt(a.i, r) /\ a.b.dated = (r.qh # UnknownQh)
<1>3. ~ same
  BY <1>2 DEF Joins
<1>4. flush(a) = [pts |-> Append(a.pts, BucketPoint(a)), prev |-> a.b.wh, b |-> NoBucket, i |-> a.i]
  BY <1>1 DEF flush, BucketPoint
<1>5. folded(a, r) = [(IF same THEN a ELSE flush(a)) EXCEPT
                         !.b = IF same THEN add(@, r) ELSE Begin(r, r.qh # UnknownQh, KeyAt(a.i, r)),
                         !.i = a.i + 1]
  BY DEF folded, KeyAt
<1> HIDE DEF same
<1>6. folded(a, r) = [flush(a) EXCEPT !.b = Begin(r, r.qh # UnknownQh, KeyAt(a.i, r)), !.i = a.i + 1]
  BY <1>3, <1>5
<1> DEFINE f == flush(a)
<1>7. /\ f.pts = Append(a.pts, BucketPoint(a)) /\ f.prev = a.b.wh
      /\ f = [pts |-> f.pts, prev |-> f.prev, b |-> f.b, i |-> f.i]
  BY <1>4
<1> HIDE DEF f
<1>8. folded(a, r) = [f EXCEPT !.b = Begin(r, r.qh # UnknownQh, KeyAt(a.i, r)), !.i = a.i + 1]
  BY <1>6 DEF f
<1>9. folded(a, r) = [pts |-> f.pts, prev |-> f.prev, b |-> Begin(r, r.qh # UnknownQh, KeyAt(a.i, r)), i |-> a.i + 1]
  BY <1>7, <1>8
<1> QED
  BY <1>7, <1>9

LEMMA FoldedFirst ==
  ASSUME HcTypeOK, NEW a \in FoldOf, NEW r \in Recorded, a.b = NoBucket
  PROVE  folded(a, r) = [pts |-> a.pts, prev |-> a.prev,
                         b |-> Begin(r, r.qh # UnknownQh, KeyAt(a.i, r)), i |-> a.i + 1]
<1> DEFINE same == a.b # NoBucket /\ a.b.key = KeyAt(a.i, r) /\ a.b.dated = (r.qh # UnknownQh)
<1>3. ~ same
  OBVIOUS
<1>4. flush(a) = a /\ a = [pts |-> a.pts, prev |-> a.prev, b |-> a.b, i |-> a.i]
  BY DEF flush, FoldOf
<1>5. folded(a, r) = [(IF same THEN a ELSE flush(a)) EXCEPT
                         !.b = IF same THEN add(@, r) ELSE Begin(r, r.qh # UnknownQh, KeyAt(a.i, r)),
                         !.i = a.i + 1]
  BY DEF folded, KeyAt
<1> HIDE DEF same
<1>6. folded(a, r) = [a EXCEPT !.b = Begin(r, r.qh # UnknownQh, KeyAt(a.i, r)), !.i = a.i + 1]
  BY <1>3, <1>4, <1>5
<1> QED
  BY <1>4, <1>6

LEMMA BucketTyped ==
  ASSUME HcTypeOK, NEW r \in Recorded, NEW n \in Nat
  PROVE  /\ Begin(r, r.qh # UnknownQh, KeyAt(n, r)) \in BucketOf
         /\ \A b \in BucketOf : add(b, r) \in BucketOf
<1>1. r.qh \in Int /\ r.wh \in Nat /\ r.silent \in BOOLEAN /\ r.fresh \in BOOLEAN
  BY HcTypes DEF Recorded, UnknownQh
<1>2. KeyAt(n, r) \in Nat
  BY KeyAtIs
<1>3. Begin(r, r.qh # UnknownQh, KeyAt(n, r)) \in BucketOf
  BY <1>1, <1>2 DEF Begin, BucketOf
<1>4. \A b \in BucketOf : add(b, r) \in BucketOf
  BY <1>1 DEF add, BucketOf
<1> QED
  BY <1>3, <1>4

LEMMA FoldedTyped ==
  ASSUME HcTypeOK, NEW a \in FoldOf, NEW r \in Recorded
  PROVE  folded(a, r) \in FoldOf
<1>1. a.pts \in Seq(PointOf) /\ a.prev \in Int /\ a.i \in Nat /\ a.i + 1 \in Nat
      /\ (a.b = NoBucket \/ a.b \in BucketOf)
  BY DEF FoldOf
<1>2. Begin(r, r.qh # UnknownQh, KeyAt(a.i, r)) \in BucketOf
  BY <1>1, BucketTyped
<1>3. CASE a.b = NoBucket
  BY <1>1, <1>2, <1>3, FoldedFirst DEF FoldOf
<1>4. CASE a.b \in BucketOf /\ Joins(a, r)
  <2>1. add(a.b, r) \in BucketOf
    BY <1>1, <1>4, BucketTyped
  <2> QED
    BY <1>1, <1>4, <2>1, FoldedSame DEF FoldOf
<1>5. CASE a.b \in BucketOf /\ ~ Joins(a, r)
  <2>1. Append(a.pts, BucketPoint(a)) \in Seq(PointOf) /\ a.b.wh \in Int
    BY <1>1, <1>5, PointTyped DEF BucketOf
  <2>2. \A p \in Seq(PointOf), v \in Int, b \in BucketOf, n \in Nat :
          [pts |-> p, prev |-> v, b |-> b, i |-> n] \in FoldOf
    BY DEF FoldOf
  <2>3. [pts |-> Append(a.pts, BucketPoint(a)), prev |-> a.b.wh,
         b |-> Begin(r, r.qh # UnknownQh, KeyAt(a.i, r)), i |-> a.i + 1] \in FoldOf
    BY <1>1, <1>2, <2>1, <2>2
  <2> QED
    BY <1>5, <2>3, FoldedNew
<1> QED
  BY <1>1, <1>3, <1>4, <1>5

LEMMA BaseTyped == JsonBase \in FoldOf
BY DEF JsonBase, FoldOf, NoWh

\* What the records are folded to.
LEMMA JsonFold ==
  ASSUME HcTypeOK
  PROVE  \E pre \in [0 .. Len(recs) -> FoldOf] :
           /\ pre[0] = JsonBase
           /\ \A i \in 1 .. Len(recs) : pre[i] = folded(pre[i - 1], recs[i])
           /\ JsonEnd = pre[Len(recs)]
<1> DEFINE n == Len(recs)
           st == [p \in FoldOf \X Recorded |-> folded(p[1], p[2])]
           Step(f) == [t \in SUBSET DOMAIN recs |->
                         IF t = {} THEN JsonBase
                         ELSE folded(f[t \ {Max(t)}], recs[Max(t)])]
           it == CHOOSE f : f = Step(f)
<1>0. recs \in Seq(Recorded) /\ n \in Nat /\ DOMAIN recs = 1 .. n /\ \A i \in 1 .. n : recs[i] \in Recorded
  BY HcTypes
<1>1. JsonEnd = it[DOMAIN recs]
  BY Zenon DEF JsonEnd, FoldLeft, MapThenFoldSet
<1>2. st \in [FoldOf \X Recorded -> FoldOf] /\ JsonBase \in FoldOf
  <2>1. ASSUME NEW a \in FoldOf, NEW x \in Recorded PROVE folded(a, x) \in FoldOf
    BY FoldedTyped
  <2>2. JsonBase \in FoldOf
    BY BaseTyped
  <2> QED
    BY <2>1, <2>2
<1>3. \A a \in FoldOf, x \in Recorded : st[<<a, x>>] = folded(a, x)
  OBVIOUS
<1>4. it = Step(it)
  <2> HIDE DEF st
  <2>2. PICK f \in [SUBSET DOMAIN recs -> FoldOf] : Folds(f, st, JsonBase, recs, n)
    BY <1>0, <1>2, FoldExists
  <2>3. ASSUME NEW t \in SUBSET DOMAIN recs PROVE f[t] = Step(f)[t]
    <3>1. CASE t = {}
      BY <1>0, <2>2, <3>1 DEF Folds
    <3>2. CASE t # {}
      <4>1. Max(t) \in DOMAIN recs /\ t \ {Max(t)} \in SUBSET DOMAIN recs
        BY <1>0, <3>2, HasMax
      <4>2. recs[Max(t)] \in Recorded /\ f[t \ {Max(t)}] \in FoldOf
        BY <1>0, <2>2, <4>1
      <4>3. f[t] = st[<<f[t \ {Max(t)}], recs[Max(t)]>>]
        BY <1>0, <2>2, <3>2 DEF Folds
      <4>4. st[<<f[t \ {Max(t)}], recs[Max(t)]>>] = folded(f[t \ {Max(t)}], recs[Max(t)])
        BY <1>3, <4>2
      <4> QED
        BY <3>2, <4>3, <4>4
    <3> QED
      BY <3>1, <3>2
  <2>4. f = Step(f)
    BY <2>2, <2>3
  <2> QED
    BY <2>4
<1> DEFINE P == {i \in 0 .. n : it[1 .. i] \in FoldOf}
<1>5. it[1 .. 0] = JsonBase /\ 0 \in P
  <2>1. 1 .. 0 = {} /\ {} \in SUBSET DOMAIN recs
    OBVIOUS
  <2> HIDE DEF it, st
  <2>2. it[1 .. 0] = JsonBase
    BY <1>4, <2>1
  <2>3. it[1 .. 0] \in FoldOf /\ 0 \in 0 .. n
    BY <1>0, <1>2, <2>2
  <2> QED
    BY <2>2, <2>3
<1>6. ASSUME NEW i \in 1 .. n
      PROVE  it[1 .. i] = folded(it[1 .. (i - 1)], recs[i])
  <2> DEFINE t == 1 .. i
  <2>1. t \in SUBSET DOMAIN recs /\ t # {} /\ Max(t) = i /\ t \ {i} = 1 .. (i - 1)
    BY <1>0, Prefix
  <2> HIDE DEF it, t, st
  <2>2. it[t] = folded(it[1 .. (i - 1)], recs[i])
    BY <1>4, <2>1
  <2> QED
    BY <2>2 DEF t
<1>7. ASSUME NEW i \in 1 .. n, i - 1 \in P PROVE i \in P
  <2> HIDE DEF it, st
  <2>1. it[1 .. (i - 1)] \in FoldOf /\ recs[i] \in Recorded
    BY <1>0, <1>7
  <2>2. it[1 .. i] = st[<<it[1 .. (i - 1)], recs[i]>>]
    BY <1>3, <1>6, <2>1
  <2>3. it[1 .. i] \in FoldOf
    BY <1>2, <2>1, <2>2
  <2> QED
    BY <1>0, <2>3
<1> HIDE DEF P, n, it, st
<1>8. 0 .. n \subseteq P
  BY <1>0, <1>5, <1>7, UpTo
<1> DEFINE pre == [i \in 0 .. n |-> it[1 .. i]]
<1>9. pre \in [0 .. n -> FoldOf]
  BY <1>8 DEF P
<1>10. \A i \in 1 .. n : pre[i] = it[1 .. i] /\ pre[i - 1] = it[1 .. (i - 1)]
  BY <1>0
<1>11. pre[0] = it[1 .. 0] /\ pre[n] = it[1 .. n]
  BY <1>0
<1> HIDE DEF pre
<1>12. \A i \in 1 .. n : pre[i] = folded(pre[i - 1], recs[i])
  BY <1>6, <1>10
<1> QED
  BY <1>0, <1>1, <1>5, <1>9, <1>11, <1>12 DEF n


-----------------------------------------------------------------------------
(* HistChart: the buckets.                                                 *)

\* The key of record i, and records of the same bucket.
KeyNo(i) == (IF IsDated(i) THEN recs[i].qh ELSE i - 1) \div step
Alike(i, j) == (IsDated(i) <=> IsDated(j)) /\ KeyNo(i) = KeyNo(j)

LEMMA AlikeIs == \A i, j : Bucket(i) = Bucket(j) <=> Alike(i, j)
BY DEF Alike, Bucket, KeyNo, KeyOf, IsDated

\* The bucket after record i is of the records from f.
BucketFrom(a, i, f) ==
  /\ a \in FoldOf /\ a.b \in BucketOf /\ a.i = i /\ f \in 1 .. i
  /\ a.b.qh = recs[i].qh /\ a.b.wh = recs[i].wh /\ (a.b.dated <=> IsDated(i)) /\ a.b.key = KeyNo(i)
  /\ \A k \in f .. i : Alike(k, i)
  /\ f > 1 => ~ Alike(f - 1, f)
  /\ a.b.silent <=> \E k \in f .. i : recs[k].silent
  /\ a.b.fresh <=> \E k \in f .. i : recs[k].fresh
  /\ f = 1 => a.prev = NoWh
  /\ f > 1 => a.prev = recs[f - 1].wh

\* It ends with record i.
EndsAt(i) == i < Len(recs) => ~ Alike(i, i + 1)

LEMMA FirstBucket ==
  ASSUME HcTypeOK, Len(recs) >= 1
  PROVE  BucketFrom(folded(JsonBase, recs[1]), 1, 1) /\ folded(JsonBase, recs[1]).pts = <<>>
<1> DEFINE r == recs[1]
           a == folded(JsonBase, r)
           b == Begin(r, r.qh # UnknownQh, KeyAt(0, r))
<1>1. r \in Recorded /\ JsonBase \in FoldOf /\ r.silent \in BOOLEAN /\ r.fresh \in BOOLEAN
  BY HcTypes, BaseTyped
<1>2. a = [pts |-> <<>>, prev |-> NoWh, b |-> b, i |-> 1]
  <2>1. JsonBase.b = NoBucket /\ JsonBase.pts = <<>> /\ JsonBase.prev = NoWh /\ JsonBase.i = 0
    BY DEF JsonBase
  <2> HIDE DEF r
  <2> QED
    BY <1>1, <2>1, FoldedFirst
<1>3. a \in FoldOf /\ b \in BucketOf
  BY <1>1, FoldedTyped, BucketTyped
<1>4. /\ b.qh = r.qh /\ b.wh = r.wh /\ b.dated = (r.qh # UnknownQh) /\ b.key = KeyAt(0, r)
      /\ b.silent = r.silent /\ b.fresh = r.fresh
  BY DEF Begin
<1>5. KeyAt(0, r) = KeyNo(1) /\ (IsDated(1) <=> r.qh # UnknownQh)
  BY DEF KeyAt, KeyNo, IsDated
<1>6. a.b = b /\ a.i = 1 /\ a.prev = NoWh /\ a.pts = <<>>
  BY <1>2
<1> HIDE DEF a, b
<1>7. \A k \in 1 .. 1 : k = 1
  OBVIOUS
<1>8. (a.b.silent <=> \E k \in 1 .. 1 : recs[k].silent) /\ (a.b.fresh <=> \E k \in 1 .. 1 : recs[k].fresh)
  BY <1>4, <1>6, <1>7
<1>9. \A k \in 1 .. 1 : Alike(k, 1)
  BY <1>7 DEF Alike
<1>10. 1 \in 1 .. 1 /\ ~ (1 > 1)
  OBVIOUS
<1>11. a.b.qh = recs[1].qh /\ a.b.wh = recs[1].wh /\ (a.b.dated <=> IsDated(1)) /\ a.b.key = KeyNo(1)
  BY <1>4, <1>5, <1>6
<1>12. BucketFrom(a, 1, 1)
  BY <1>3, <1>6, <1>8, <1>9, <1>10, <1>11 DEF BucketFrom
<1> QED
  BY <1>6, <1>12 DEF a

LEMMA JoinsIs ==
  ASSUME HcTypeOK, NEW a, NEW i \in 1 .. Len(recs) - 1, NEW f, BucketFrom(a, i, f)
  PROVE  Joins(a, recs[i + 1]) <=> Alike(i, i + 1)
<1>1. /\ a.b.key = KeyNo(i) /\ (a.b.dated <=> IsDated(i)) /\ a.i = i
  BY DEF BucketFrom
<1>2. i + 1 - 1 = i
  BY HcTypes
<1>3. KeyAt(i, recs[i + 1]) = KeyNo(i + 1) /\ (IsDated(i + 1) <=> recs[i + 1].qh # UnknownQh)
  BY <1>2 DEF KeyAt, KeyNo, IsDated
<1> QED
  BY <1>1, <1>3 DEF Joins, Alike

LEMMA SameBucket ==
  ASSUME HcTypeOK, NEW a, NEW i \in 1 .. Len(recs) - 1, NEW f, BucketFrom(a, i, f), Alike(i, i + 1)
  PROVE  BucketFrom(folded(a, recs[i + 1]), i + 1, f) /\ folded(a, recs[i + 1]).pts = a.pts
<1> DEFINE r == recs[i + 1]
           c == folded(a, r)
           b == add(a.b, r)
<1>0. i \in Nat /\ i + 1 \in 1 .. Len(recs)
  BY HcTypes
<1>1. /\ i \in Nat /\ i + 1 \in 1 .. Len(recs) /\ r \in Recorded
      /\ r.silent \in BOOLEAN /\ r.fresh \in BOOLEAN
  BY <1>0, HcTypes
<1>2. a \in FoldOf /\ a.b \in BucketOf /\ a.i = i /\ f \in 1 .. i
  BY DEF BucketFrom
<1>3. c = [pts |-> a.pts, prev |-> a.prev, b |-> b, i |-> i + 1]
  BY <1>1, <1>2, JoinsIs, FoldedSame
<1>4. c \in FoldOf /\ b \in BucketOf
  BY <1>1, <1>2, FoldedTyped, BucketTyped
<1>5. /\ b.qh = r.qh /\ b.wh = r.wh /\ b.dated = a.b.dated /\ b.key = a.b.key
      /\ (b.silent <=> a.b.silent \/ r.silent) /\ (b.fresh <=> a.b.fresh \/ r.fresh)
  <2>1. /\ b.qh = r.qh /\ b.wh = r.wh /\ b.dated = a.b.dated /\ b.key = a.b.key
        /\ b.silent = (a.b.silent \/ r.silent) /\ b.fresh = (a.b.fresh \/ r.fresh)
    BY <1>2 DEF add, BucketOf
  <2> QED
    BY <2>1
<1>6. c.b = b /\ c.i = i + 1 /\ c.prev = a.prev /\ c.pts = a.pts
  BY <1>3
<1> HIDE DEF c, b
<1>7. \A k \in f .. i + 1 : k \in f .. i \/ k = i + 1
  BY <1>1, <1>2
<1>8. f \in 1 .. i + 1 /\ i + 1 \in f .. i + 1 /\ f .. i \subseteq f .. i + 1
  BY <1>1, <1>2
<1>9. \A k \in f .. i + 1 : Alike(k, i + 1)
  <2>1. \A k \in f .. i : Alike(k, i)
    BY DEF BucketFrom
  <2> QED
    BY <1>7, <2>1 DEF Alike
<1>10. c.b.silent <=> \E k \in f .. i + 1 : recs[k].silent
  <2>1. a.b.silent <=> \E k \in f .. i : recs[k].silent
    BY DEF BucketFrom
  <2> QED
    BY <1>5, <1>6, <1>7, <1>8, <2>1
<1>11. c.b.fresh <=> \E k \in f .. i + 1 : recs[k].fresh
  <2>1. a.b.fresh <=> \E k \in f .. i : recs[k].fresh
    BY DEF BucketFrom
  <2> QED
    BY <1>5, <1>6, <1>7, <1>8, <2>1
<1>12. (c.b.dated <=> IsDated(i + 1)) /\ c.b.key = KeyNo(i + 1)
  <2>1. (a.b.dated <=> IsDated(i)) /\ a.b.key = KeyNo(i)
    BY DEF BucketFrom
  <2> QED
    BY <1>5, <1>6, <2>1 DEF Alike
<1>13. (f > 1 => ~ Alike(f - 1, f)) /\ (f = 1 => c.prev = NoWh) /\ (f > 1 => c.prev = recs[f - 1].wh)
  BY <1>6 DEF BucketFrom
<1>14. BucketFrom(c, i + 1, f)
  BY <1>4, <1>5, <1>6, <1>8, <1>9, <1>10, <1>11, <1>12, <1>13 DEF BucketFrom
<1> QED
  BY <1>6, <1>14 DEF c

LEMMA NewBucket ==
  ASSUME HcTypeOK, NEW a, NEW i \in 1 .. Len(recs) - 1, NEW f, BucketFrom(a, i, f), ~ Alike(i, i + 1)
  PROVE  /\ BucketFrom(folded(a, recs[i + 1]), i + 1, i + 1)
         /\ folded(a, recs[i + 1]).pts = Append(a.pts, BucketPoint(a))
<1> DEFINE r == recs[i + 1]
           c == folded(a, r)
           b == Begin(r, r.qh # UnknownQh, KeyAt(i, r))
<1>0. i \in Nat /\ i + 1 \in 1 .. Len(recs)
  BY HcTypes
<1>1. /\ i \in Nat /\ i + 1 \in 1 .. Len(recs) /\ r \in Recorded
      /\ r.silent \in BOOLEAN /\ r.fresh \in BOOLEAN
  BY <1>0, HcTypes
<1>2. a \in FoldOf /\ a.b \in BucketOf /\ a.i = i /\ f \in 1 .. i /\ a.b.wh = recs[i].wh
  BY DEF BucketFrom
<1>3. c = [pts |-> Append(a.pts, BucketPoint(a)), prev |-> a.b.wh, b |-> b, i |-> i + 1]
  BY <1>1, <1>2, JoinsIs, FoldedNew
<1>4. c \in FoldOf /\ b \in BucketOf
  BY <1>1, <1>2, FoldedTyped, BucketTyped
<1>5. /\ b.qh = r.qh /\ b.wh = r.wh /\ b.dated = (r.qh # UnknownQh) /\ b.key = KeyAt(i, r)
      /\ b.silent = r.silent /\ b.fresh = r.fresh
  BY DEF Begin
<1>6. c.b = b /\ c.i = i + 1 /\ c.prev = recs[i].wh /\ c.pts = Append(a.pts, BucketPoint(a))
  BY <1>2, <1>3
<1>7. KeyAt(i, r) = KeyNo(i + 1) /\ (IsDated(i + 1) <=> r.qh # UnknownQh)
  <2>1. i + 1 - 1 = i
    BY <1>1
  <2> QED
    BY <2>1 DEF KeyAt, KeyNo, IsDated
<1> HIDE DEF c, b
<1>8. /\ \A k \in i + 1 .. i + 1 : k = i + 1
      /\ i + 1 \in i + 1 .. i + 1 /\ i + 1 \in 1 .. i + 1 /\ i + 1 > 1 /\ i + 1 # 1 /\ i + 1 - 1 = i
  BY <1>1
<1>9. (c.b.silent <=> \E k \in i + 1 .. i + 1 : recs[k].silent) /\ (c.b.fresh <=> \E k \in i + 1 .. i + 1 : recs[k].fresh)
  BY <1>5, <1>6, <1>8
<1>10. \A k \in i + 1 .. i + 1 : Alike(k, i + 1)
  BY <1>8 DEF Alike
<1>11. (c.b.dated <=> IsDated(i + 1)) /\ c.b.key = KeyNo(i + 1) /\ c.b.qh = recs[i + 1].qh /\ c.b.wh = recs[i + 1].wh
  BY <1>5, <1>6, <1>7
<1>12. BucketFrom(c, i + 1, i + 1)
  BY <1>4, <1>6, <1>8, <1>9, <1>10, <1>11 DEF BucketFrom
<1> QED
  BY <1>6, <1>12 DEF c

-----------------------------------------------------------------------------
(* HistChart: what points and bars add up to.                              *)

\* What a point adds to the total, and a bar.
PtWorth(p) == IF p.e = NoWh \/ p.silent THEN 0 ELSE p.e
AddPoint(a, p) == a + PtWorth(p)
PtSum(ps) == FoldLeft(AddPoint, 0, ps)

BarOf == [qh : Int, v : Int, missing : BOOLEAN]
AddBar(a, b) == IF b.missing THEN a ELSE a + b.v
BarSum(bs) == FoldLeft(AddBar, 0, bs)

LEMMA AddPointTyped == ASSUME NEW a \in Int, NEW p \in PointOf PROVE AddPoint(a, p) \in Int
<1>1. PtWorth(p) \in Int
  BY DEF PtWorth, PointOf
<1> QED
  BY <1>1 DEF AddPoint

LEMMA AddBarTyped == ASSUME NEW a \in Int, NEW b \in BarOf PROVE AddBar(a, b) \in Int
BY DEF AddBar, BarOf

\* What PtSum computes.
LEMMA PtSumFold ==
  ASSUME NEW s0 \in Seq(PointOf)
  PROVE  \E pre \in [0 .. Len(s0) -> Int] :
           /\ pre[0] = 0
           /\ \A i \in 1 .. Len(s0) : pre[i] = AddPoint(pre[i - 1], s0[i])
           /\ PtSum(s0) = pre[Len(s0)]
<1> DEFINE n == Len(s0)
           st == [p \in Int \X PointOf |-> AddPoint(p[1], p[2])]
           Step(f) == [t \in SUBSET DOMAIN s0 |->
                         IF t = {} THEN 0
                         ELSE AddPoint(f[t \ {Max(t)}], s0[Max(t)])]
           it == CHOOSE f : f = Step(f)
<1>0. s0 \in Seq(PointOf) /\ n \in Nat /\ DOMAIN s0 = 1 .. n /\ \A i \in 1 .. n : s0[i] \in PointOf
  OBVIOUS
<1>1. PtSum(s0) = it[DOMAIN s0]
  BY Zenon DEF PtSum, FoldLeft, MapThenFoldSet
<1>2. st \in [Int \X PointOf -> Int] /\ 0 \in Int
  <2>1. ASSUME NEW a \in Int, NEW x \in PointOf PROVE AddPoint(a, x) \in Int
    BY AddPointTyped
  <2>2. 0 \in Int
    OBVIOUS
  <2> QED
    BY <2>1, <2>2
<1>3. \A a \in Int, x \in PointOf : st[<<a, x>>] = AddPoint(a, x)
  OBVIOUS
<1>4. it = Step(it)
  <2> HIDE DEF st
  <2>2. PICK f \in [SUBSET DOMAIN s0 -> Int] : Folds(f, st, 0, s0, n)
    BY <1>0, <1>2, FoldExists
  <2>3. ASSUME NEW t \in SUBSET DOMAIN s0 PROVE f[t] = Step(f)[t]
    <3>1. CASE t = {}
      BY <1>0, <2>2, <3>1 DEF Folds
    <3>2. CASE t # {}
      <4>1. Max(t) \in DOMAIN s0 /\ t \ {Max(t)} \in SUBSET DOMAIN s0
        BY <1>0, <3>2, HasMax
      <4>2. s0[Max(t)] \in PointOf /\ f[t \ {Max(t)}] \in Int
        BY <1>0, <2>2, <4>1
      <4>3. f[t] = st[<<f[t \ {Max(t)}], s0[Max(t)]>>]
        BY <1>0, <2>2, <3>2 DEF Folds
      <4>4. st[<<f[t \ {Max(t)}], s0[Max(t)]>>] = AddPoint(f[t \ {Max(t)}], s0[Max(t)])
        BY <1>3, <4>2
      <4> QED
        BY <3>2, <4>3, <4>4
    <3> QED
      BY <3>1, <3>2
  <2>4. f = Step(f)
    BY <2>2, <2>3
  <2> QED
    BY <2>4
<1> DEFINE P == {i \in 0 .. n : it[1 .. i] \in Int}
<1>5. it[1 .. 0] = 0 /\ 0 \in P
  <2>1. 1 .. 0 = {} /\ {} \in SUBSET DOMAIN s0
    OBVIOUS
  <2> HIDE DEF it, st
  <2>2. it[1 .. 0] = 0
    BY <1>4, <2>1
  <2>3. it[1 .. 0] \in Int /\ 0 \in 0 .. n
    BY <1>0, <1>2, <2>2
  <2> QED
    BY <2>2, <2>3
<1>6. ASSUME NEW i \in 1 .. n
      PROVE  it[1 .. i] = AddPoint(it[1 .. (i - 1)], s0[i])
  <2> DEFINE t == 1 .. i
  <2>1. t \in SUBSET DOMAIN s0 /\ t # {} /\ Max(t) = i /\ t \ {i} = 1 .. (i - 1)
    BY <1>0, Prefix
  <2> HIDE DEF it, t, st
  <2>2. it[t] = AddPoint(it[1 .. (i - 1)], s0[i])
    BY <1>4, <2>1
  <2> QED
    BY <2>2 DEF t
<1>7. ASSUME NEW i \in 1 .. n, i - 1 \in P PROVE i \in P
  <2> HIDE DEF it, st
  <2>1. it[1 .. (i - 1)] \in Int /\ s0[i] \in PointOf
    BY <1>0, <1>7
  <2>2. it[1 .. i] = st[<<it[1 .. (i - 1)], s0[i]>>]
    BY <1>3, <1>6, <2>1
  <2>3. it[1 .. i] \in Int
    BY <1>2, <2>1, <2>2
  <2> QED
    BY <1>0, <2>3
<1> HIDE DEF P, n, it, st
<1>8. 0 .. n \subseteq P
  BY <1>0, <1>5, <1>7, UpTo
<1> DEFINE pre == [i \in 0 .. n |-> it[1 .. i]]
<1>9. pre \in [0 .. n -> Int]
  BY <1>8 DEF P
<1>10. \A i \in 1 .. n : pre[i] = it[1 .. i] /\ pre[i - 1] = it[1 .. (i - 1)]
  BY <1>0
<1>11. pre[0] = it[1 .. 0] /\ pre[n] = it[1 .. n]
  BY <1>0
<1> HIDE DEF pre
<1>12. \A i \in 1 .. n : pre[i] = AddPoint(pre[i - 1], s0[i])
  BY <1>6, <1>10
<1> QED
  BY <1>0, <1>1, <1>5, <1>9, <1>11, <1>12 DEF n

\* One more.
LEMMA PtSumMore ==
  ASSUME NEW s0 \in Seq(PointOf), NEW x \in PointOf
  PROVE  PtSum(Append(s0, x)) = AddPoint(PtSum(s0), x)
<1> DEFINE n == Len(s0)
           t0 == Append(s0, x)
<1>1. t0 \in Seq(PointOf) /\ Len(t0) = n + 1 /\ n \in Nat /\ t0[n + 1] = x /\ \A i \in 1 .. n : t0[i] = s0[i]
  OBVIOUS
<1>2. PICK p \in [0 .. Len(s0) -> Int] :
           /\ p[0] = 0 /\ \A i \in 1 .. Len(s0) : p[i] = AddPoint(p[i - 1], s0[i])
           /\ PtSum(s0) = p[Len(s0)]
  BY PtSumFold
<1> HIDE DEF t0
<1>3. PICK q \in [0 .. Len(t0) -> Int] :
           /\ q[0] = 0 /\ \A i \in 1 .. Len(t0) : q[i] = AddPoint(q[i - 1], t0[i])
           /\ PtSum(t0) = q[Len(t0)]
  BY <1>1, PtSumFold
<1> DEFINE P == {i \in 0 .. n : q[i] = p[i]}
<1>4. 0 \in P
  BY <1>1, <1>2, <1>3
<1>5. ASSUME NEW i \in 1 .. n, i - 1 \in P PROVE i \in P
  <2>1. q[i - 1] = p[i - 1] /\ t0[i] = s0[i] /\ i \in 1 .. Len(t0) /\ i \in 1 .. Len(s0)
    BY <1>1, <1>5
  <2>2. q[i] = AddPoint(q[i - 1], t0[i])
    BY <1>3, <2>1
  <2>3. p[i] = AddPoint(p[i - 1], s0[i])
    BY <1>2, <2>1
  <2> QED
    BY <2>1, <2>2, <2>3
<1> HIDE DEF P
<1>6. n \in P
  <2>1. 0 .. n \subseteq P
    BY <1>1, <1>4, <1>5, UpTo
  <2> QED
    BY <1>1, <2>1
<1>7. q[n] = p[n]
  BY <1>6 DEF P
<1>8. q[n + 1] = AddPoint(q[n], x)
  <2> DEFINE k == n + 1
  <2>1. k \in 1 .. Len(t0) /\ k - 1 = n /\ t0[k] = x
    BY <1>1
  <2> HIDE DEF k
  <2>2. q[k] = AddPoint(q[k - 1], t0[k])
    BY <1>3, <2>1
  <2>3. q[k] = AddPoint(q[n], x)
    BY <2>1, <2>2
  <2> QED
    BY <2>3 DEF k
<1>9. PtSum(t0) = q[n + 1] /\ PtSum(s0) = p[n]
  BY <1>1, <1>2, <1>3
<1> QED
  BY <1>7, <1>8, <1>9 DEF t0

\* Of none, and its type.
LEMMA PtSumType ==
  /\ PtSum(<<>>) = 0
  /\ \A s0 \in Seq(PointOf) : PtSum(s0) \in Int
<1>1. ASSUME NEW s0 \in Seq(PointOf)
      PROVE  PtSum(s0) \in Int /\ (s0 = <<>> => PtSum(s0) = 0)
  <2>1. PICK p \in [0 .. Len(s0) -> Int] : p[0] = 0 /\ PtSum(s0) = p[Len(s0)]
    BY PtSumFold
  <2>2. Len(s0) \in 0 .. Len(s0) /\ (s0 = <<>> => Len(s0) = 0)
    OBVIOUS
  <2> QED
    BY <2>1, <2>2
<1>2. <<>> \in Seq(PointOf)
  OBVIOUS
<1> QED
  BY <1>1, <1>2

\* What BarSum computes.
LEMMA BarSumFold ==
  ASSUME NEW s0 \in Seq(BarOf)
  PROVE  \E pre \in [0 .. Len(s0) -> Int] :
           /\ pre[0] = 0
           /\ \A i \in 1 .. Len(s0) : pre[i] = AddBar(pre[i - 1], s0[i])
           /\ BarSum(s0) = pre[Len(s0)]
<1> DEFINE n == Len(s0)
           st == [p \in Int \X BarOf |-> AddBar(p[1], p[2])]
           Step(f) == [t \in SUBSET DOMAIN s0 |->
                         IF t = {} THEN 0
                         ELSE AddBar(f[t \ {Max(t)}], s0[Max(t)])]
           it == CHOOSE f : f = Step(f)
<1>0. s0 \in Seq(BarOf) /\ n \in Nat /\ DOMAIN s0 = 1 .. n /\ \A i \in 1 .. n : s0[i] \in BarOf
  OBVIOUS
<1>1. BarSum(s0) = it[DOMAIN s0]
  BY Zenon DEF BarSum, FoldLeft, MapThenFoldSet
<1>2. st \in [Int \X BarOf -> Int] /\ 0 \in Int
  <2>1. ASSUME NEW a \in Int, NEW x \in BarOf PROVE AddBar(a, x) \in Int
    BY AddBarTyped
  <2>2. 0 \in Int
    OBVIOUS
  <2> QED
    BY <2>1, <2>2
<1>3. \A a \in Int, x \in BarOf : st[<<a, x>>] = AddBar(a, x)
  OBVIOUS
<1>4. it = Step(it)
  <2> HIDE DEF st
  <2>2. PICK f \in [SUBSET DOMAIN s0 -> Int] : Folds(f, st, 0, s0, n)
    BY <1>0, <1>2, FoldExists
  <2>3. ASSUME NEW t \in SUBSET DOMAIN s0 PROVE f[t] = Step(f)[t]
    <3>1. CASE t = {}
      BY <1>0, <2>2, <3>1 DEF Folds
    <3>2. CASE t # {}
      <4>1. Max(t) \in DOMAIN s0 /\ t \ {Max(t)} \in SUBSET DOMAIN s0
        BY <1>0, <3>2, HasMax
      <4>2. s0[Max(t)] \in BarOf /\ f[t \ {Max(t)}] \in Int
        BY <1>0, <2>2, <4>1
      <4>3. f[t] = st[<<f[t \ {Max(t)}], s0[Max(t)]>>]
        BY <1>0, <2>2, <3>2 DEF Folds
      <4>4. st[<<f[t \ {Max(t)}], s0[Max(t)]>>] = AddBar(f[t \ {Max(t)}], s0[Max(t)])
        BY <1>3, <4>2
      <4> QED
        BY <3>2, <4>3, <4>4
    <3> QED
      BY <3>1, <3>2
  <2>4. f = Step(f)
    BY <2>2, <2>3
  <2> QED
    BY <2>4
<1> DEFINE P == {i \in 0 .. n : it[1 .. i] \in Int}
<1>5. it[1 .. 0] = 0 /\ 0 \in P
  <2>1. 1 .. 0 = {} /\ {} \in SUBSET DOMAIN s0
    OBVIOUS
  <2> HIDE DEF it, st
  <2>2. it[1 .. 0] = 0
    BY <1>4, <2>1
  <2>3. it[1 .. 0] \in Int /\ 0 \in 0 .. n
    BY <1>0, <1>2, <2>2
  <2> QED
    BY <2>2, <2>3
<1>6. ASSUME NEW i \in 1 .. n
      PROVE  it[1 .. i] = AddBar(it[1 .. (i - 1)], s0[i])
  <2> DEFINE t == 1 .. i
  <2>1. t \in SUBSET DOMAIN s0 /\ t # {} /\ Max(t) = i /\ t \ {i} = 1 .. (i - 1)
    BY <1>0, Prefix
  <2> HIDE DEF it, t, st
  <2>2. it[t] = AddBar(it[1 .. (i - 1)], s0[i])
    BY <1>4, <2>1
  <2> QED
    BY <2>2 DEF t
<1>7. ASSUME NEW i \in 1 .. n, i - 1 \in P PROVE i \in P
  <2> HIDE DEF it, st
  <2>1. it[1 .. (i - 1)] \in Int /\ s0[i] \in BarOf
    BY <1>0, <1>7
  <2>2. it[1 .. i] = st[<<it[1 .. (i - 1)], s0[i]>>]
    BY <1>3, <1>6, <2>1
  <2>3. it[1 .. i] \in Int
    BY <1>2, <2>1, <2>2
  <2> QED
    BY <1>0, <2>3
<1> HIDE DEF P, n, it, st
<1>8. 0 .. n \subseteq P
  BY <1>0, <1>5, <1>7, UpTo
<1> DEFINE pre == [i \in 0 .. n |-> it[1 .. i]]
<1>9. pre \in [0 .. n -> Int]
  BY <1>8 DEF P
<1>10. \A i \in 1 .. n : pre[i] = it[1 .. i] /\ pre[i - 1] = it[1 .. (i - 1)]
  BY <1>0
<1>11. pre[0] = it[1 .. 0] /\ pre[n] = it[1 .. n]
  BY <1>0
<1> HIDE DEF pre
<1>12. \A i \in 1 .. n : pre[i] = AddBar(pre[i - 1], s0[i])
  BY <1>6, <1>10
<1> QED
  BY <1>0, <1>1, <1>5, <1>9, <1>11, <1>12 DEF n

\* One more.
LEMMA BarSumMore ==
  ASSUME NEW s0 \in Seq(BarOf), NEW x \in BarOf
  PROVE  BarSum(Append(s0, x)) = AddBar(BarSum(s0), x)
<1> DEFINE n == Len(s0)
           t0 == Append(s0, x)
<1>1. t0 \in Seq(BarOf) /\ Len(t0) = n + 1 /\ n \in Nat /\ t0[n + 1] = x /\ \A i \in 1 .. n : t0[i] = s0[i]
  OBVIOUS
<1>2. PICK p \in [0 .. Len(s0) -> Int] :
           /\ p[0] = 0 /\ \A i \in 1 .. Len(s0) : p[i] = AddBar(p[i - 1], s0[i])
           /\ BarSum(s0) = p[Len(s0)]
  BY BarSumFold
<1> HIDE DEF t0
<1>3. PICK q \in [0 .. Len(t0) -> Int] :
           /\ q[0] = 0 /\ \A i \in 1 .. Len(t0) : q[i] = AddBar(q[i - 1], t0[i])
           /\ BarSum(t0) = q[Len(t0)]
  BY <1>1, BarSumFold
<1> DEFINE P == {i \in 0 .. n : q[i] = p[i]}
<1>4. 0 \in P
  BY <1>1, <1>2, <1>3
<1>5. ASSUME NEW i \in 1 .. n, i - 1 \in P PROVE i \in P
  <2>1. q[i - 1] = p[i - 1] /\ t0[i] = s0[i] /\ i \in 1 .. Len(t0) /\ i \in 1 .. Len(s0)
    BY <1>1, <1>5
  <2>2. q[i] = AddBar(q[i - 1], t0[i])
    BY <1>3, <2>1
  <2>3. p[i] = AddBar(p[i - 1], s0[i])
    BY <1>2, <2>1
  <2> QED
    BY <2>1, <2>2, <2>3
<1> HIDE DEF P
<1>6. n \in P
  <2>1. 0 .. n \subseteq P
    BY <1>1, <1>4, <1>5, UpTo
  <2> QED
    BY <1>1, <2>1
<1>7. q[n] = p[n]
  BY <1>6 DEF P
<1>8. q[n + 1] = AddBar(q[n], x)
  <2> DEFINE k == n + 1
  <2>1. k \in 1 .. Len(t0) /\ k - 1 = n /\ t0[k] = x
    BY <1>1
  <2> HIDE DEF k
  <2>2. q[k] = AddBar(q[k - 1], t0[k])
    BY <1>3, <2>1
  <2>3. q[k] = AddBar(q[n], x)
    BY <2>1, <2>2
  <2> QED
    BY <2>3 DEF k
<1>9. BarSum(t0) = q[n + 1] /\ BarSum(s0) = p[n]
  BY <1>1, <1>2, <1>3
<1> QED
  BY <1>7, <1>8, <1>9 DEF t0

\* Of none, and its type.
LEMMA BarSumType ==
  /\ BarSum(<<>>) = 0
  /\ \A s0 \in Seq(BarOf) : BarSum(s0) \in Int
<1>1. ASSUME NEW s0 \in Seq(BarOf)
      PROVE  BarSum(s0) \in Int /\ (s0 = <<>> => BarSum(s0) = 0)
  <2>1. PICK p \in [0 .. Len(s0) -> Int] : p[0] = 0 /\ BarSum(s0) = p[Len(s0)]
    BY BarSumFold
  <2>2. Len(s0) \in 0 .. Len(s0) /\ (s0 = <<>> => Len(s0) = 0)
    OBVIOUS
  <2> QED
    BY <2>1, <2>2
<1>2. <<>> \in Seq(BarOf)
  OBVIOUS
<1> QED
  BY <1>1, <1>2


-----------------------------------------------------------------------------
(* HistChart: what the records say from one to another.                    *)

\* Steps add up; and a quotient.
LEMMA StepsAdd ==
  \A a, b, c, x, y, z \in Int : b - a <= y - x /\ c - b <= z - y => c - a <= z - x
OBVIOUS

LEMMA StepsBound ==
  \A a, b, c, x, y, p \in Int : a <= b /\ b - a <= y /\ c - b \in 0 .. p /\ y = x - p => a <= c /\ c - a <= x
OBVIOUS

LEMMA QuotientIs ==
  ASSUME NEW s \in Nat, s >= 1, NEW x \in Int
  PROVE  x \div s \in Int /\ s * (x \div s) \in Int /\ s * (x \div s) <= x /\ x < s * (x \div s) + s
<1> DEFINE q == x \div s
<1>1. q \in Int /\ s * q <= x /\ x < s * (q + 1)
  BY Z3
<1> HIDE DEF q
<1>2. s * q \in Int /\ s * (q + 1) = s * q + s
  BY <1>1
<1> QED
  BY <1>1, <1>2 DEF q

\* What has gone through the meters does not get less.
LEMMA PaidMore ==
  ASSUME HcTypeOK, NEW u \in [1 .. Len(recs) -> Nat], Paid(u),
         NEW g \in 1 .. Len(recs), NEW i \in g .. Len(recs)
  PROVE  u[g] <= u[i]
<1> DEFINE P == {k \in 0 .. i - g : u[g] <= u[g + k]}
<1>1. Len(recs) \in Nat /\ g \in Nat /\ i \in Nat /\ i - g \in Nat
  BY HcTypes
<1>2. 0 \in P
  BY <1>1
<1>3. ASSUME NEW k \in 1 .. i - g, k - 1 \in P PROVE k \in P
  <2> DEFINE j == g + (k - 1)
  <2>1. j \in 1 .. Len(recs) - 1 /\ j + 1 = g + k /\ j + 1 \in 1 .. Len(recs) /\ j \in 1 .. Len(recs)
    BY <1>1
  <2>2. u[g] <= u[j]
    BY <1>3
  <2> HIDE DEF j
  <2>3. u[j] <= u[j + 1] /\ u[j] \in Nat /\ u[j + 1] \in Nat /\ u[g] \in Nat
    BY <2>1 DEF Paid
  <2>4. u[g] <= u[j + 1]
    BY <2>2, <2>3
  <2>5. u[g] <= u[g + k]
    BY <2>1, <2>4
  <2> QED
    BY <2>5
<1> HIDE DEF P
<1>4. i - g \in P
  <2>1. 0 .. i - g \subseteq P
    BY <1>1, <1>2, <1>3, UpTo
  <2> QED
    BY <1>1, <2>1
<1>5. u[g] <= u[g + (i - g)] /\ g + (i - g) = i
  BY <1>1, <1>4 DEF P
<1> QED
  BY <1>5

\* Without a new meter, the counter did not count more.
LEMMA PaidSteps ==
  ASSUME HcTypeOK, NEW u \in [1 .. Len(recs) -> Nat], Paid(u),
         NEW g \in 1 .. Len(recs), NEW i \in g .. Len(recs),
         \A k \in g + 1 .. i : ~ recs[k].fresh
  PROVE  recs[i].wh - recs[g].wh <= u[i] - u[g]
<1> DEFINE P == {k \in 0 .. i - g : recs[g + k].wh - recs[g].wh <= u[g + k] - u[g]}
<1>1. Len(recs) \in Nat /\ g \in Nat /\ i \in Nat /\ i - g \in Nat
      /\ \A j \in 1 .. Len(recs) : recs[j].wh \in Nat /\ u[j] \in Nat
  BY HcTypes
<1>2. 0 \in P
  <2>1. g + 0 = g /\ recs[g].wh \in Nat /\ u[g] \in Nat
    BY <1>1
  <2> QED
    BY <1>1, <2>1
<1>3. ASSUME NEW k \in 1 .. i - g, k - 1 \in P PROVE k \in P
  <2> DEFINE j == g + (k - 1)
  <2>1. j \in 1 .. Len(recs) - 1 /\ j + 1 = g + k /\ j + 1 \in 1 .. Len(recs) /\ j \in 1 .. Len(recs)
        /\ j + 1 \in g + 1 .. i
    BY <1>1
  <2>2. recs[j].wh - recs[g].wh <= u[j] - u[g]
    BY <1>3
  <2> HIDE DEF j
  <2>3. recs[j + 1].wh - recs[j].wh <= u[j + 1] - u[j]
    BY <2>1 DEF Paid
  <2>4. /\ recs[j].wh \in Nat /\ recs[j + 1].wh \in Nat /\ recs[g].wh \in Nat
        /\ u[j] \in Nat /\ u[j + 1] \in Nat /\ u[g] \in Nat
    BY <1>1, <2>1
  <2>5. recs[j + 1].wh - recs[g].wh <= u[j + 1] - u[g]
    <3> DEFINE a == recs[g].wh
               b == recs[j].wh
               c == recs[j + 1].wh
               x == u[g]
               y == u[j]
               z == u[j + 1]
    <3>1. a \in Int /\ b \in Int /\ c \in Int
      BY <2>4
    <3>2. x \in Int /\ y \in Int /\ z \in Int
      BY <2>4
    <3>3. b - a <= y - x /\ c - b <= z - y
      BY <2>2, <2>3
    <3> HIDE DEF a, b, c, x, y, z
    <3>4. c - a <= z - x
      BY ONLY <3>1, <3>2, <3>3, StepsAdd
    <3> QED
      BY <3>4 DEF a, c, x, z
  <2>6. recs[g + k].wh - recs[g].wh <= u[g + k] - u[g]
    BY <2>1, <2>5
  <2> QED
    BY <2>6
<1> HIDE DEF P
<1>4. i - g \in P
  <2>1. 0 .. i - g \subseteq P
    BY <1>1, <1>2, <1>3, UpTo
  <2> QED
    BY <1>1, <2>1
<1>5. recs[g + (i - g)].wh - recs[g].wh <= u[g + (i - g)] - u[g] /\ g + (i - g) = i
  BY <1>1, <1>4 DEF P
<1> QED
  BY <1>5

\* With one meter, a record's counter is at most Plausible ahead of the one before.
LEMMA OneMeterSteps ==
  ASSUME HcTypeOK, OneMeter, NEW g \in 1 .. Len(recs), NEW i \in g .. Len(recs)
  PROVE  recs[g].wh <= recs[i].wh /\ recs[i].wh - recs[g].wh <= (i - g) * Plausible
<1> DEFINE P == {k \in 0 .. i - g : recs[g].wh <= recs[g + k].wh /\ recs[g + k].wh - recs[g].wh <= k * Plausible}
<1>1. Len(recs) \in Nat /\ g \in Nat /\ i \in Nat /\ i - g \in Nat /\ Plausible \in Nat
      /\ \A j \in 1 .. Len(recs) : recs[j].wh \in Nat
  BY HcTypes, HcConstants DEF HcConsts
<1>2. 0 \in P
  <2>1. g + 0 = g /\ recs[g].wh \in Nat /\ 0 * Plausible = 0
    BY <1>1
  <2> QED
    BY <1>1, <2>1
<1>3. ASSUME NEW k \in 1 .. i - g, k - 1 \in P PROVE k \in P
  <2> DEFINE j == g + (k - 1)
  <2>1. j + 1 = g + k /\ j + 1 \in 1 .. Len(recs) /\ j \in 1 .. Len(recs) /\ j + 1 > 1 /\ j + 1 - 1 = j
    BY <1>1
  <2>2. recs[g].wh <= recs[j].wh /\ recs[j].wh - recs[g].wh <= (k - 1) * Plausible
    BY <1>3
  <2> HIDE DEF j
  <2> DEFINE l == j + 1
  <2>3. l \in 1 .. Len(recs) /\ l > 1 /\ l - 1 = j
    BY <2>1
  <2> HIDE DEF l
  <2>4. recs[l].wh - recs[l - 1].wh \in 0 .. Plausible
    BY <2>3 DEF OneMeter
  <2>5. recs[l].wh \in Nat /\ recs[j].wh \in Nat /\ recs[g].wh \in Nat
    BY <1>1, <2>1, <2>3
  <2>6. (k - 1) * Plausible = k * Plausible - Plausible /\ k * Plausible \in Int /\ (k - 1) * Plausible \in Int
    BY <1>1
  <2>7. recs[g].wh <= recs[l].wh /\ recs[l].wh - recs[g].wh <= k * Plausible
    <3> DEFINE x == k * Plausible
               y == (k - 1) * Plausible
    <3>1. x \in Int /\ y = x - Plausible
      BY <2>6
    <3>2. recs[j].wh - recs[g].wh <= y
      BY <2>2
    <3>3. recs[l].wh - recs[j].wh \in 0 .. Plausible
      BY <2>3, <2>4
    <3> DEFINE a == recs[g].wh
               b == recs[j].wh
               c == recs[l].wh
    <3>4. a \in Int /\ b \in Int /\ c \in Int /\ Plausible \in Int
      BY <1>1, <2>5
    <3>5. a <= b /\ b - a <= y /\ c - b \in 0 .. Plausible
      BY <2>2, <3>2, <3>3
    <3> HIDE DEF a, b, c, x, y
    <3>6. a <= c /\ c - a <= x
      BY ONLY <3>1, <3>4, <3>5, StepsBound
    <3> QED
      BY <3>6 DEF a, c, x
  <2>8. recs[g].wh <= recs[g + k].wh /\ recs[g + k].wh - recs[g].wh <= k * Plausible
    BY <2>1, <2>7 DEF l
  <2> QED
    BY <2>8
<1> HIDE DEF P
<1>4. i - g \in P
  <2>1. 0 .. i - g \subseteq P
    BY <1>1, <1>2, <1>3, UpTo
  <2> QED
    BY <1>1, <2>1
<1>5. recs[g].wh <= recs[g + (i - g)].wh /\ recs[g + (i - g)].wh - recs[g].wh <= (i - g) * Plausible /\ g + (i - g) = i
  BY <1>1, <1>4 DEF P
<1> QED
  BY <1>5

\* Silent records repeat the counter.
LEMMA SilentSteps ==
  ASSUME HcTypeOK, ReadInv, NEW g \in 1 .. Len(recs), NEW i \in g .. Len(recs),
         \A k \in g + 1 .. i : recs[k].silent
  PROVE  recs[i].wh = recs[g].wh
<1> DEFINE P == {k \in 0 .. i - g : recs[g + k].wh = recs[g].wh}
<1>1. Len(recs) \in Nat /\ g \in Nat /\ i \in Nat /\ i - g \in Nat
  BY HcTypes
<1>2. 0 \in P
  BY <1>1
<1>3. ASSUME NEW k \in 1 .. i - g, k - 1 \in P PROVE k \in P
  <2> DEFINE j == g + (k - 1)
             l == g + k
  <2>1. l \in 1 .. Len(recs) /\ l \in g + 1 .. i /\ l - 1 = j
    BY <1>1
  <2>2. recs[j].wh = recs[g].wh
    BY <1>3
  <2> HIDE DEF j, l
  <2>3. recs[l].silent
    BY <2>1
  <2>4. recs[l].wh = recs[l - 1].wh
    BY <2>1, <2>3 DEF ReadInv
  <2>5. recs[l].wh = recs[g].wh
    BY <2>1, <2>2, <2>4
  <2> QED
    BY <2>5 DEF l
<1> HIDE DEF P
<1>4. i - g \in P
  <2>1. 0 .. i - g \subseteq P
    BY <1>1, <1>2, <1>3, UpTo
  <2> QED
    BY <1>1, <2>1
<1>5. recs[g + (i - g)].wh = recs[g].wh /\ g + (i - g) = i
  BY <1>1, <1>4 DEF P
<1> QED
  BY <1>5

\* Dated records are at least a quarter hour apart.
LEMMA DatedSteps ==
  ASSUME HcTypeOK, DatesUp, NEW g \in 1 .. Len(recs), NEW i \in g .. Len(recs),
         \A k \in g .. i : IsDated(k)
  PROVE  recs[i].qh - recs[g].qh >= i - g
<1> DEFINE P == {k \in 0 .. i - g : recs[g + k].qh - recs[g].qh >= k}
<1>1. Len(recs) \in Nat /\ g \in Nat /\ i \in Nat /\ i - g \in Nat
      /\ \A j \in 1 .. Len(recs) : recs[j].qh \in Int
  BY HcTypes
<1>2. 0 \in P
  <2>1. g + 0 = g /\ recs[g].qh \in Int
    BY <1>1
  <2> QED
    BY <1>1, <2>1
<1>3. ASSUME NEW k \in 1 .. i - g, k - 1 \in P PROVE k \in P
  <2> DEFINE j == g + (k - 1)
             l == g + k
  <2>1. /\ l \in 1 .. Len(recs) /\ j \in 1 .. Len(recs) /\ j < l
        /\ l \in g .. i /\ j \in g .. i
    BY <1>1
  <2>2. recs[j].qh - recs[g].qh >= k - 1
    BY <1>3
  <2> HIDE DEF j, l
  <2>3. recs[j].qh < recs[l].qh
    BY <2>1 DEF DatesUp
  <2>4. recs[j].qh \in Int /\ recs[l].qh \in Int /\ recs[g].qh \in Int /\ k \in Int
    BY <1>1, <2>1
  <2>5. recs[l].qh - recs[g].qh >= k
    BY ONLY <2>2, <2>3, <2>4
  <2> QED
    BY <2>5 DEF l
<1> HIDE DEF P
<1>4. i - g \in P
  <2>1. 0 .. i - g \subseteq P
    BY <1>1, <1>2, <1>3, UpTo
  <2> QED
    BY <1>1, <2>1
<1>5. recs[g + (i - g)].qh - recs[g].qh >= i - g /\ g + (i - g) = i
  BY <1>1, <1>4 DEF P
<1> QED
  BY <1>5

\* Numbers with the same quotient are less than step apart.
LEMMA SameQuotient ==
  ASSUME NEW s \in Nat, s >= 1, NEW x \in Nat, NEW y \in Nat, x \div s = y \div s
  PROVE  y - x < s
<1> DEFINE q == s * (x \div s)
<1>1. q \in Int /\ q <= x
  BY QuotientIs
<1>2. y < q + s
  BY QuotientIs
<1> HIDE DEF q
<1> QED
  BY <1>1, <1>2

-----------------------------------------------------------------------------
(* HistChart: what the points of the buckets up to record g have.          *)

\* They are dated in the order of time, by records up to g.
PtsDated(ps, g) ==
  /\ ps \in Seq(PointOf)
  /\ \A k \in 1 .. Len(ps) : ps[k].qh # UnknownQh => \E j \in 1 .. g : IsDated(j) /\ ps[k].qh = recs[j].qh
  /\ \A k, l \in 1 .. Len(ps) : k < l /\ ps[k].qh # UnknownQh /\ ps[l].qh # UnknownQh => ps[k].qh < ps[l].qh

\* They add up to no more than what had gone through the meters.
PaidAt(u, g) == IF g = 0 THEN 0 ELSE u[g]
Paying(ps, g, u) == PtSum(ps) <= PaidAt(u, g)

\* They add up to what the meter says was used since the first of them.
UsedAt(g) == IF g = 0 THEN 0 ELSE recs[g].wh - recs[FirstEnd].wh
Balanced(ps, g) == PtSum(ps) = UsedAt(g)

LEMMA BucketIs ==
  ASSUME HcTypeOK, NEW a, NEW i \in 1 .. Len(recs), NEW f, BucketFrom(a, i, f)
  PROVE  /\ a \in FoldOf /\ a.b \in BucketOf /\ f \in 1 .. i /\ BucketPoint(a) \in PointOf
         /\ BucketPoint(a).qh = recs[i].qh
         /\ BucketPoint(a).silent = a.b.silent
         /\ BucketPoint(a).e = IF a.b.fresh THEN NoWh ELSE delta(a.prev, recs[i].wh)
         /\ a.pts \in Seq(PointOf) /\ i \in Nat /\ f \in Nat
<1>1. a \in FoldOf /\ a.b \in BucketOf /\ f \in 1 .. i /\ a.b.qh = recs[i].qh /\ a.b.wh = recs[i].wh
  BY DEF BucketFrom
<1>2. BucketPoint(a) \in PointOf
  BY <1>1, PointTyped
<1>3. a.pts \in Seq(PointOf)
  BY <1>1 DEF FoldOf
<1>4. i \in Nat /\ f \in Nat
  BY <1>1, HcTypes
<1>5. /\ BucketPoint(a).qh = a.b.qh /\ BucketPoint(a).silent = a.b.silent
      /\ BucketPoint(a).e = IF a.b.fresh THEN NoWh ELSE delta(a.prev, a.b.wh)
  BY DEF BucketPoint
<1> QED
  BY <1>1, <1>2, <1>3, <1>4, <1>5

LEMMA OneMoreDated ==
  ASSUME HcTypeOK, DatesUp, NEW a, NEW i \in 1 .. Len(recs), NEW f, BucketFrom(a, i, f),
         PtsDated(a.pts, f - 1)
  PROVE  PtsDated(Append(a.pts, BucketPoint(a)), i)
<1> DEFINE p == BucketPoint(a)
           s == a.pts
           t == Append(s, p)
           n == Len(s)
<1>1. p \in PointOf /\ p.qh = recs[i].qh /\ s \in Seq(PointOf) /\ i \in Nat /\ f \in 1 .. i /\ f \in Nat
  BY BucketIs
<1>2. t \in Seq(PointOf) /\ Len(t) = n + 1 /\ n \in Nat /\ t[n + 1] = p /\ \A k \in 1 .. n : t[k] = s[k]
  BY <1>1
<1>3. /\ \A k \in 1 .. n : s[k].qh # UnknownQh => \E j \in 1 .. f - 1 : IsDated(j) /\ s[k].qh = recs[j].qh
      /\ \A k, l \in 1 .. n : k < l /\ s[k].qh # UnknownQh /\ s[l].qh # UnknownQh => s[k].qh < s[l].qh
  BY DEF PtsDated
<1> HIDE DEF p, s, t, n
<1>4. ASSUME NEW k \in 1 .. n + 1, t[k].qh # UnknownQh
      PROVE  \E j \in 1 .. i : IsDated(j) /\ t[k].qh = recs[j].qh
  <2>1. CASE k = n + 1
    <3>1. t[k].qh = recs[i].qh /\ i \in 1 .. i
      BY <1>1, <1>2, <2>1
    <3> QED
      BY <1>4, <3>1 DEF IsDated
  <2>2. CASE k # n + 1
    <3>1. k \in 1 .. n /\ t[k] = s[k]
      BY <1>2, <2>2
    <3>2. PICK j \in 1 .. f - 1 : IsDated(j) /\ s[k].qh = recs[j].qh
      BY <1>3, <1>4, <3>1
    <3>3. j \in 1 .. i
      BY <1>1
    <3> QED
      BY <3>1, <3>2, <3>3
  <2> QED
    BY <2>1, <2>2
<1>5. ASSUME NEW k \in 1 .. n + 1, NEW l \in 1 .. n + 1, k < l, t[k].qh # UnknownQh, t[l].qh # UnknownQh
      PROVE  t[k].qh < t[l].qh
  <2>1. k \in 1 .. n /\ t[k] = s[k]
    BY <1>2, <1>5
  <2>2. CASE l = n + 1
    <3>1. t[l].qh = recs[i].qh /\ IsDated(i)
      BY <1>1, <1>2, <1>5, <2>2 DEF IsDated
    <3>2. PICK j \in 1 .. f - 1 : IsDated(j) /\ s[k].qh = recs[j].qh
      BY <1>3, <1>5, <2>1
    <3>3. j \in 1 .. Len(recs) /\ j < i /\ i \in 1 .. Len(recs)
      BY <1>1, HcTypes
    <3>4. recs[j].qh < recs[i].qh
      BY <3>1, <3>2, <3>3 DEF DatesUp
    <3> QED
      BY <2>1, <3>1, <3>2, <3>4
  <2>3. CASE l # n + 1
    <3>1. l \in 1 .. n /\ t[l] = s[l]
      BY <1>2, <2>3
    <3> QED
      BY <1>3, <1>5, <2>1, <3>1
  <2> QED
    BY <2>2, <2>3
<1>6. PtsDated(t, i)
  BY <1>2, <1>4, <1>5 DEF PtsDated
<1> QED
  BY <1>6 DEF t, s, p

LEMMA OneMorePaying ==
  ASSUME HcTypeOK, NEW u \in [1 .. Len(recs) -> Nat], Paid(u),
         NEW a, NEW i \in 1 .. Len(recs), NEW f, BucketFrom(a, i, f), Paying(a.pts, f - 1, u)
  PROVE  Paying(Append(a.pts, BucketPoint(a)), i, u)
<1> DEFINE p == BucketPoint(a)
           w == PtWorth(p)
           m == PtSum(a.pts)
           c == PaidAt(u, f - 1)
<1>1. /\ p \in PointOf /\ p.silent = a.b.silent /\ a.pts \in Seq(PointOf) /\ i \in Nat /\ f \in 1 .. i /\ f \in Nat
      /\ p.e = IF a.b.fresh THEN NoWh ELSE delta(a.prev, recs[i].wh)
  BY BucketIs
<1>2. PtSum(Append(a.pts, p)) = m + w
  BY <1>1, PtSumMore DEF AddPoint
<1>3. m \in Int /\ m <= c /\ w \in Int
  BY <1>1, PtSumType DEF Paying, PtWorth, PointOf
<1>4. PaidAt(u, i) = u[i] /\ u[i] \in Nat
  BY <1>1 DEF PaidAt
<1>5. c \in Nat /\ c <= u[i]
  <2>1. CASE f = 1
    <3>1. f - 1 = 0
      BY <2>1
    <3> QED
      BY <1>4, <3>1 DEF PaidAt
  <2>2. CASE f > 1
    <3> DEFINE g == f - 1
    <3>1. g \in 1 .. Len(recs) /\ i \in g .. Len(recs) /\ g # 0
      BY <1>1, <2>2, HcTypes
    <3> HIDE DEF g
    <3>2. PaidAt(u, g) = u[g] /\ u[g] \in Nat /\ u[g] <= u[i]
      BY <3>1, PaidMore DEF PaidAt
    <3> QED
      BY <3>2 DEF g
  <2> QED
    BY <1>1, <2>1, <2>2
<1>6. c + w <= u[i]
  <2>1. CASE w = 0
    BY <1>4, <1>5, <2>1
  <2>2. CASE w # 0
    <3>1. w = p.e /\ p.e # NoWh /\ ~ p.silent
      BY <2>2 DEF PtWorth
    <3>2. ~ a.b.fresh /\ p.e = delta(a.prev, recs[i].wh)
      BY <1>1, <3>1
    <3>3. a.prev # NoWh /\ w = recs[i].wh - a.prev
      BY <3>1, <3>2 DEF delta
    <3> DEFINE g == f - 1
    <3>4. f > 1 /\ a.prev = recs[g].wh
      BY <1>1, <3>3 DEF BucketFrom
    <3>a. f > 1 /\ f \in 1 .. i /\ f \in Nat /\ i \in Nat /\ Len(recs) \in Nat
      BY <1>1, <3>4, HcTypes
    <3>5. g \in 1 .. Len(recs) /\ i \in g .. Len(recs) /\ g # 0 /\ g + 1 = f /\ i \in 1 .. Len(recs)
      BY <3>a
    <3>6. \A k \in f .. i : ~ recs[k].fresh
      BY <3>2 DEF BucketFrom
    <3> HIDE DEF g
    <3>7. recs[i].wh - recs[g].wh <= u[i] - u[g]
      BY <3>5, <3>6, PaidSteps
    <3>8. c = u[g] /\ u[g] \in Nat
      BY <3>5 DEF PaidAt, g
    <3> HIDE DEF w, c
    <3>9. w <= u[i] - c /\ w \in Int
      BY <1>3, <3>3, <3>4, <3>7, <3>8
    <3> QED
      BY <1>4, <1>5, <3>9
  <2> QED
    BY <2>1, <2>2
<1> HIDE DEF w, m, c, p
<1>7. m + w <= u[i]
  BY <1>3, <1>4, <1>5, <1>6
<1> QED
  BY <1>2, <1>4, <1>7 DEF Paying, p

\* The first bucket ends where FirstEnd says.
LEMMA FirstEndIs ==
  ASSUME HcTypeOK, NEW a, NEW i \in 1 .. Len(recs), BucketFrom(a, i, 1), EndsAt(i)
  PROVE  FirstEnd = i
<1> DEFINE Ends(g) == /\ \A k \in 1 .. g : Bucket(k) = Bucket(1)
                      /\ g < Len(recs) => Bucket(g + 1) # Bucket(1)
<1>1. Len(recs) \in Nat /\ i \in Nat
  BY HcTypes
<1>2. \A k \in 1 .. i : Alike(k, i)
  BY DEF BucketFrom
<1>3. Alike(1, i)
  BY <1>1, <1>2
<1>4. \A k \in 1 .. i : Bucket(k) = Bucket(1)
  <2>1. Bucket(1) = Bucket(i)
    BY <1>3, AlikeIs
  <2>2. ASSUME NEW k \in 1 .. i PROVE Bucket(k) = Bucket(i)
    BY <1>2, AlikeIs
  <2> QED
    BY <2>1, <2>2
<1>5. i < Len(recs) => Bucket(i + 1) # Bucket(1)
  <2>1. ASSUME i < Len(recs), Bucket(i + 1) = Bucket(1) PROVE FALSE
    <3>1. Bucket(i) = Bucket(1) /\ ~ Alike(i, i + 1)
      BY <1>1, <1>4, <2>1 DEF EndsAt
    <3>2. Bucket(i) = Bucket(i + 1)
      BY <2>1, <3>1
    <3> QED
      BY <3>1, <3>2, AlikeIs
  <2> QED
    BY <2>1
<1>6. Ends(i)
  BY <1>4, <1>5
<1>7. ASSUME NEW g \in 1 .. Len(recs), Ends(g) PROVE g = i
  <2>1. CASE g < i
    <3>1. g + 1 \in 1 .. i /\ g < Len(recs)
      BY <1>1, <2>1
    <3>2. Bucket(g + 1) = Bucket(1)
      BY <1>4, <3>1
    <3> QED
      BY <1>7, <3>1, <3>2
  <2>2. CASE i < g
    <3>1. i + 1 \in 1 .. g /\ i < Len(recs)
      BY <1>1, <2>2
    <3>2. Bucket(i + 1) = Bucket(1)
      BY <1>7, <3>1
    <3> QED
      BY <1>5, <3>1, <3>2
  <2> QED
    BY <1>1, <2>1, <2>2
<1>8. FirstEnd = CHOOSE g \in 1 .. Len(recs) : Ends(g)
  BY DEF FirstEnd
<1> HIDE DEF Ends
<1> QED
  BY <1>6, <1>7, <1>8

\* A bucket is of no more records than step.
LEMMA BucketLength ==
  ASSUME HcTypeOK, DatesUp, NEW a, NEW i \in 1 .. Len(recs), NEW f, BucketFrom(a, i, f)
  PROVE  i - f + 1 <= step
<1>1. Len(recs) \in Nat /\ i \in Nat /\ f \in 1 .. i /\ f \in Nat /\ step \in Nat /\ step >= 1
  BY HcTypes, BucketIs
<1>2. \A k \in f .. i : Alike(k, i)
  BY DEF BucketFrom
<1>3. f \in f .. i
  BY <1>1
<1>4. KeyNo(f) = KeyNo(i) /\ (IsDated(f) <=> IsDated(i))
  BY <1>2, <1>3 DEF Alike
<1>5. CASE IsDated(i)
  <2>1. \A k \in f .. i : IsDated(k)
    BY <1>2, <1>5 DEF Alike
  <2>2. f \in 1 .. Len(recs) /\ i \in f .. Len(recs)
    BY <1>1
  <2>3. recs[i].qh - recs[f].qh >= i - f
    BY <2>1, <2>2, DatedSteps
  <2>4. recs[f].qh \div step = recs[i].qh \div step
    BY <1>4, <1>5 DEF KeyNo
  <2> DEFINE x == recs[f].qh
             y == recs[i].qh
  <2>5. x \in Nat /\ y \in Nat
    <3>1. IsDated(f) /\ IsDated(i)
      BY <1>4, <1>5
    <3>2. \A k \in 1 .. Len(recs) : IsDated(k) => recs[k].qh \in Nat
      <4>1. ASSUME NEW k \in 1 .. Len(recs), IsDated(k) PROVE recs[k].qh \in Nat
        <5>1. recs[k].qh \in {UnknownQh} \cup 1 .. MaxQh /\ MaxQh \in Nat
          BY HcTypes
        <5>2. recs[k].qh # UnknownQh
          BY <4>1 DEF IsDated
        <5> QED
          BY <5>1, <5>2
      <4> QED
        BY <4>1
    <3> QED
      BY <2>2, <3>1, <3>2
  <2>6. x \div step = y \div step /\ y - x >= i - f
    BY <2>3, <2>4
  <2> HIDE DEF x, y
  <2>7. y - x < step
    BY <1>1, <2>5, <2>6, SameQuotient
  <2> QED
    BY <1>1, <2>5, <2>6, <2>7
<1>6. CASE ~ IsDated(i)
  <2> DEFINE x == f - 1
             y == i - 1
  <2>1. x \in Nat /\ y \in Nat /\ y - x = i - f
    BY <1>1
  <2>2. x \div step = y \div step
    BY <1>4, <1>6 DEF KeyNo
  <2> HIDE DEF x, y
  <2>3. y - x < step
    BY <1>1, <2>1, <2>2, SameQuotient
  <2> QED
    BY <1>1, <2>1, <2>3
<1> QED
  BY <1>5, <1>6

\* The energy of a bucket, when it is one meter and the bucket is not mixed.
LEMMA BucketWorth ==
  ASSUME HcTypeOK, DatesUp, ReadInv, OneMeter, ~ Mixed,
         NEW a, NEW i \in 1 .. Len(recs), NEW f, BucketFrom(a, i, f)
  PROVE  PtWorth(BucketPoint(a)) = IF f = 1 THEN 0 ELSE recs[i].wh - recs[f - 1].wh
<1> DEFINE p == BucketPoint(a)
<1>1. /\ p.silent = a.b.silent /\ i \in Nat /\ f \in 1 .. i /\ f \in Nat
      /\ p.e = IF a.b.fresh THEN NoWh ELSE delta(a.prev, recs[i].wh)
  BY BucketIs
<1>2. Len(recs) \in Nat /\ step \in Nat /\ step >= 1 /\ Plausible \in Nat
  BY HcTypes, HcConstants DEF HcConsts
<1>3. ~ a.b.fresh
  <2>1. a.b.fresh <=> \E k \in f .. i : recs[k].fresh
    BY DEF BucketFrom
  <2>2. \A k \in f .. i : k \in 1 .. Len(recs)
    BY <1>1, <1>2
  <2>3. \A k \in 1 .. Len(recs) : ~ recs[k].fresh
    BY DEF OneMeter
  <2> QED
    BY <2>1, <2>2, <2>3
<1>4. p.e = delta(a.prev, recs[i].wh)
  BY <1>1, <1>3
<1>5. CASE f = 1
  <2>1. a.prev = NoWh
    BY <1>5 DEF BucketFrom
  <2>2. p.e = NoWh
    BY <1>4, <2>1 DEF delta
  <2> QED
    BY <1>5, <2>2 DEF PtWorth
<1>6. CASE f # 1
  <2> DEFINE g == f - 1
  <2>1. g \in 1 .. Len(recs) /\ i \in g .. Len(recs) /\ f > 1 /\ g + 1 = f /\ i - g = i - f + 1 /\ g \in Nat
    BY <1>1, <1>2, <1>6
  <2>2. a.prev = recs[g].wh
    BY <2>1 DEF BucketFrom
  <2> HIDE DEF g
  <2>3. recs[i].wh \in Nat /\ recs[g].wh \in Nat
    BY <2>1, HcTypes
  <2>4. CASE p.silent
    <3>1. PICK k \in f .. i : recs[k].silent
      BY <1>1, <2>4 DEF BucketFrom
    <3>2. ASSUME NEW j \in f .. i PROVE recs[j].silent
      <4>1. Alike(k, i) /\ Alike(j, i)
        BY DEF BucketFrom
      <4>2. Bucket(k) = Bucket(j)
        <5>1. Bucket(k) = Bucket(i) /\ Bucket(j) = Bucket(i)
          BY <4>1, AlikeIs
        <5> QED
          BY <5>1
      <4>3. k \in 1 .. Len(recs) /\ j \in 1 .. Len(recs)
        BY <1>1, <1>2
      <4> QED
        BY <3>1, <4>2, <4>3 DEF Mixed
    <3>3. recs[i].wh = recs[g].wh
      BY <2>1, <3>2, SilentSteps
    <3>4. recs[i].wh - recs[g].wh = 0
      BY <2>3, <3>3
    <3>5. PtWorth(p) = 0
      BY <2>4 DEF PtWorth
    <3> QED
      BY <1>6, <3>4, <3>5 DEF g
  <2>5. CASE ~ p.silent
    <3> DEFINE x == recs[g].wh
               y == recs[i].wh
               b == step * Plausible
               c == (i - g) * Plausible
    <3>1. x <= y /\ y - x <= c
      BY <2>1, OneMeterSteps
    <3>2. i - g <= step
      BY <2>1, BucketLength
    <3>3. c <= b /\ c \in Int /\ b \in Int
      <4> DEFINE l == i - g
      <4>1. l \in Int /\ l <= step
        BY <1>1, <2>1, <3>2
      <4> HIDE DEF l
      <4>2. l * Plausible <= step * Plausible /\ l * Plausible \in Int /\ step * Plausible \in Int
        BY <1>2, <4>1
      <4> QED
        BY <4>2 DEF l
    <3>4. x \in Nat /\ y \in Nat /\ x # NoWh
      BY <2>3 DEF NoWh
    <3>5. delta(x, y) = IF x = NoWh \/ y < x \/ y - x > b THEN NoWh ELSE y - x
      BY DEF delta
    <3> HIDE DEF x, y, b, c
    <3>6. ~ (y < x) /\ ~ (y - x > b) /\ y - x \in Nat
      BY <3>1, <3>3, <3>4
    <3>7. delta(x, y) = y - x /\ delta(x, y) # NoWh
      BY <3>4, <3>5, <3>6 DEF NoWh
    <3>8. p.e = delta(x, y)
      BY <1>4, <2>2 DEF x, y
    <3>9. PtWorth(p) = p.e
      BY <2>5, <3>7, <3>8 DEF PtWorth
    <3>10. PtWorth(p) = recs[i].wh - recs[g].wh
      BY <3>7, <3>8, <3>9 DEF x, y
    <3> QED
      BY <1>6, <3>10 DEF g
  <2> QED
    BY <2>4, <2>5
<1> QED
  BY <1>5, <1>6

LEMMA OneMoreBalanced ==
  ASSUME HcTypeOK, DatesUp, ReadInv, OneMeter, ~ Mixed,
         NEW a, NEW i \in 1 .. Len(recs), NEW f, BucketFrom(a, i, f), EndsAt(i),
         Balanced(a.pts, f - 1), f > 1 => FirstEnd \in 1 .. f - 1
  PROVE  Balanced(Append(a.pts, BucketPoint(a)), i) /\ FirstEnd \in 1 .. i
<1> DEFINE p == BucketPoint(a)
           w == PtWorth(p)
           m == PtSum(a.pts)
<1>1. /\ p \in PointOf /\ a.pts \in Seq(PointOf) /\ i \in Nat /\ f \in 1 .. i /\ f \in Nat
  BY BucketIs
<1>2. PtSum(Append(a.pts, p)) = m + w
  BY <1>1, PtSumMore DEF AddPoint
<1>3. m = UsedAt(f - 1) /\ w = IF f = 1 THEN 0 ELSE recs[i].wh - recs[f - 1].wh
  BY BucketWorth DEF Balanced
<1>4. UsedAt(i) = recs[i].wh - recs[FirstEnd].wh /\ recs[i].wh \in Nat
  BY <1>1, HcTypes DEF UsedAt
<1> HIDE DEF p, m, w
<1>5. CASE f = 1
  <2>1. FirstEnd = i
    BY <1>5, FirstEndIs
  <2>2. m = 0 /\ w = 0
    BY <1>3, <1>5 DEF UsedAt
  <2>3. UsedAt(i) = 0
    BY <1>4, <2>1
  <2>4. FirstEnd \in 1 .. i
    BY <1>1, <2>1
  <2> QED
    BY <1>2, <2>2, <2>3, <2>4 DEF Balanced, p
<1>6. CASE f # 1
  <2> DEFINE g == f - 1
             x == recs[g].wh
             y == recs[i].wh
             z == recs[FirstEnd].wh
  <2>1. g \in 1 .. Len(recs) /\ g # 0 /\ f > 1
    BY <1>1, <1>6, HcTypes
  <2>2. FirstEnd \in 1 .. g /\ FirstEnd \in 1 .. Len(recs) /\ FirstEnd \in 1 .. i
    BY <1>1, <2>1, HcTypes
  <2>3. x \in Nat /\ y \in Nat /\ z \in Nat
    BY <2>1, <2>2, HcTypes
  <2>4. m = x - z /\ w = y - x
    BY <1>3, <1>6, <2>1 DEF UsedAt
  <2> HIDE DEF x, y, z
  <2>5. m + w = y - z
    BY <2>3, <2>4
  <2> QED
    BY <1>2, <1>4, <2>2, <2>5 DEF Balanced, p, y, z
<1> QED
  BY <1>5, <1>6

\* All of it.
Good(ps, g) ==
  /\ PtsDated(ps, g)
  /\ \A u \in [1 .. Len(recs) -> Nat] : Paid(u) => Paying(ps, g, u)
  /\ OneMeter /\ ~ Mixed => Balanced(ps, g) /\ (g > 0 => FirstEnd \in 1 .. g)

LEMMA GoodNone == Good(<<>>, 0)
<1>1. PtsDated(<<>>, 0)
  BY DEF PtsDated
<1>2. PtSum(<<>>) = 0
  BY PtSumType
<1>3. \A u \in [1 .. Len(recs) -> Nat] : Paying(<<>>, 0, u)
  BY <1>2 DEF Paying, PaidAt
<1>4. Balanced(<<>>, 0)
  BY <1>2 DEF Balanced, UsedAt
<1> QED
  BY <1>1, <1>3, <1>4 DEF Good

LEMMA GoodMore ==
  ASSUME HcTypeOK, DatesUp, ReadInv, NEW a, NEW i \in 1 .. Len(recs), NEW f,
         BucketFrom(a, i, f), EndsAt(i), Good(a.pts, f - 1)
  PROVE  Good(Append(a.pts, BucketPoint(a)), i)
<1> DEFINE t == Append(a.pts, BucketPoint(a))
<1>1. PtsDated(t, i)
  BY OneMoreDated DEF Good
<1>2. ASSUME NEW u \in [1 .. Len(recs) -> Nat], Paid(u) PROVE Paying(t, i, u)
  <2>1. Paying(a.pts, f - 1, u)
    BY <1>2 DEF Good
  <2> QED
    BY <1>2, <2>1, OneMorePaying
<1>3. ASSUME OneMeter, ~ Mixed PROVE Balanced(t, i) /\ FirstEnd \in 1 .. i
  <2>1. Balanced(a.pts, f - 1) /\ (f - 1 > 0 => FirstEnd \in 1 .. f - 1)
    BY <1>3 DEF Good
  <2>2. f > 1 => f - 1 > 0
    <3>1. f \in Nat
      BY BucketIs
    <3> QED
      BY <3>1
  <2>3. f > 1 => FirstEnd \in 1 .. f - 1
    BY <2>1, <2>2
  <2> QED
    BY <1>3, <2>1, <2>3, OneMoreBalanced
<1> HIDE DEF t
<1>4. Good(t, i)
  BY <1>1, <1>2, <1>3 DEF Good
<1> QED
  BY <1>4 DEF t

\* Having folded i records.
Folded(a, i) == \E f \in 1 .. i : BucketFrom(a, i, f) /\ Good(a.pts, f - 1)

\* The points the device answers with.
LEMMA PointsAre ==
  ASSUME HcTypeOK, DatesUp, ReadInv
  PROVE  IF recs = <<>> THEN json_history_ = <<>> ELSE Good(json_history_, Len(recs))
<1> DEFINE n == Len(recs)
<1>0. n \in Nat /\ recs \in Seq(Recorded) /\ \A i \in 1 .. n : recs[i] \in Recorded
  BY HcTypes
<1>1. PICK pre \in [0 .. Len(recs) -> FoldOf] :
           /\ pre[0] = JsonBase
           /\ \A i \in 1 .. Len(recs) : pre[i] = folded(pre[i - 1], recs[i])
           /\ JsonEnd = pre[Len(recs)]
  BY JsonFold
<1>2. json_history_ = flush(pre[n]).pts
  BY <1>1 DEF json_history_, JsonEnd, JsonBase
<1>3. CASE recs = <<>>
  <2>1. pre[n] = JsonBase
    BY <1>1, <1>3
  <2>2. flush(JsonBase).pts = <<>>
    BY DEF flush, JsonBase
  <2> QED
    BY <1>2, <1>3, <2>1, <2>2
<1>4. CASE recs # <<>>
  <2>1. n >= 1
    BY <1>0, <1>4
  <2> DEFINE P == {k \in 0 .. n - 1 : Folded(pre[k + 1], k + 1)}
  <2>2. 0 \in P
    <3>1. 1 \in 1 .. n /\ pre[1] = folded(JsonBase, recs[1]) /\ 0 + 1 = 1
      BY <1>0, <1>1, <2>1
    <3>2. BucketFrom(pre[1], 1, 1) /\ pre[1].pts = <<>>
      BY <2>1, <3>1, FirstBucket
    <3>3. Good(pre[1].pts, 1 - 1)
      BY <3>2, GoodNone
    <3>4. Folded(pre[1], 1)
      BY <3>2, <3>3 DEF Folded
    <3>5. 0 \in 0 .. n - 1
      BY <1>0, <2>1
    <3> QED
      BY <3>1, <3>4, <3>5
  <2>3. ASSUME NEW k \in 1 .. n - 1, k - 1 \in P PROVE k \in P
    <3> DEFINE a == pre[k]
               c == pre[k + 1]
    <3>1. k \in Nat /\ k \in 1 .. Len(recs) - 1 /\ k \in 1 .. Len(recs) /\ k - 1 + 1 = k /\ k \in 0 .. n - 1
          /\ k + 1 \in 1 .. n /\ k + 1 \in Nat
      BY <1>0
    <3>2. Folded(a, k)
      BY <2>3, <3>1
    <3>3. PICK f \in 1 .. k : BucketFrom(a, k, f) /\ Good(a.pts, f - 1)
      BY <3>2 DEF Folded
    <3>4. c = folded(a, recs[k + 1])
      <4> DEFINE j == k + 1
      <4>1. j \in 1 .. Len(recs) /\ j - 1 = k
        BY <3>1
      <4> HIDE DEF j
      <4>2. pre[j] = folded(pre[j - 1], recs[j])
        BY <1>1, <4>1
      <4>3. pre[j] = folded(pre[k], recs[j])
        BY <4>1, <4>2
      <4> QED
        BY <4>3 DEF j
    <3> HIDE DEF a, c
    <3>5. CASE Alike(k, k + 1)
      <4>1. BucketFrom(c, k + 1, f) /\ c.pts = a.pts
        BY <3>1, <3>3, <3>4, <3>5, SameBucket
      <4>2. f \in 1 .. k + 1 /\ Good(c.pts, f - 1)
        BY <3>1, <3>3, <4>1
      <4>3. Folded(c, k + 1)
        BY <4>1, <4>2 DEF Folded
      <4> QED
        BY <3>1, <4>3 DEF c
    <3>6. CASE ~ Alike(k, k + 1)
      <4>1. BucketFrom(c, k + 1, k + 1) /\ c.pts = Append(a.pts, BucketPoint(a))
        BY <3>1, <3>3, <3>4, <3>6, NewBucket
      <4>2. EndsAt(k)
        BY <3>6 DEF EndsAt
      <4>3. Good(c.pts, k)
        BY <3>1, <3>3, <4>1, <4>2, GoodMore
      <4>4. k + 1 \in 1 .. k + 1 /\ Good(c.pts, k + 1 - 1)
        BY <3>1, <4>3
      <4>5. Folded(c, k + 1)
        BY <4>1, <4>4 DEF Folded
      <4> QED
        BY <3>1, <4>5 DEF c
    <3> QED
      BY <3>5, <3>6
  <2> HIDE DEF P
  <2>4. n - 1 \in P
    <3>1. n - 1 \in Nat /\ n - 1 \in 0 .. n - 1
      BY <1>0, <2>1
    <3>2. 0 .. n - 1 \subseteq P
      BY <2>2, <2>3, <3>1, UpTo
    <3> QED
      BY <3>1, <3>2
  <2> DEFINE a == pre[n]
  <2>5. Folded(a, n)
    <3>1. Folded(pre[n - 1 + 1], n - 1 + 1) /\ n - 1 + 1 = n
      BY <1>0, <2>4 DEF P
    <3> QED
      BY <3>1
  <2>6. PICK f \in 1 .. n : BucketFrom(a, n, f) /\ Good(a.pts, f - 1)
    BY <2>5 DEF Folded
  <2>7. n \in 1 .. Len(recs) /\ EndsAt(n)
    BY <1>0, <2>1 DEF EndsAt
  <2>8. Good(Append(a.pts, BucketPoint(a)), n)
    BY <2>6, <2>7, GoodMore
  <2>9. flush(a).pts = Append(a.pts, BucketPoint(a))
    <3>1. a.b # NoBucket
      BY <2>6, <2>7, BucketIs, NoBucketIs
    <3> HIDE DEF a
    <3>2. flush(a) = [pts |-> Append(a.pts, BucketPoint(a)), prev |-> a.b.wh, b |-> NoBucket, i |-> a.i]
      BY <3>1 DEF flush, BucketPoint
    <3> QED
      BY <3>2
  <2> QED
    BY <1>2, <1>4, <2>8, <2>9
<1> QED
  BY <1>3, <1>4

-----------------------------------------------------------------------------
(* HistChart: the bars.                                                    *)

OnDay(bars, i) == bars[i].qh # UnknownQh
Follows(bars, i, j) ==
  /\ i < j /\ OnDay(bars, i) /\ OnDay(bars, j)
  /\ \A k \in 1 .. Len(bars) : OnDay(bars, k) => k <= i \/ j <= k

\* The bars drawn so far: the last dated one is of last, and they add up to total.
LastIs(bars, late) ==
  /\ late = UnknownQh => \A k \in 1 .. Len(bars) : ~ OnDay(bars, k)
  /\ late # UnknownQh => late > 0 /\ \E k \in 1 .. Len(bars) : bars[k].qh = late
  /\ \A k \in 1 .. Len(bars) : OnDay(bars, k) => bars[k].qh <= late
BarsRise(bars) ==
  \A i, j \in 1 .. Len(bars) : i < j /\ OnDay(bars, i) /\ OnDay(bars, j) => bars[i].qh < bars[j].qh
NoHole(bars) ==
  Len(bars) < MaxBars => \A i, j \in 1 .. Len(bars) : Follows(bars, i, j) => bars[j].qh - bars[i].qh <= step
BarsUp(bars, late, total) ==
  /\ bars \in Seq(BarOf) /\ late \in Int /\ BarSum(bars) = total
  /\ LastIs(bars, late) /\ BarsRise(bars) /\ NoHole(bars)

LEMMA BarMore ==
  ASSUME NEW bars \in Seq(BarOf), NEW b \in BarOf
  PROVE  /\ Append(bars, b) \in Seq(BarOf) /\ Len(Append(bars, b)) = Len(bars) + 1 /\ Len(bars) \in Nat
         /\ Append(bars, b)[Len(bars) + 1] = b
         /\ \A k \in 1 .. Len(bars) : Append(bars, b)[k] = bars[k]
         /\ \A k \in 1 .. Len(bars) : bars[k] \in BarOf /\ bars[k].qh \in Int
         /\ b.qh \in Int
<1>1. \A x \in BarOf : x.qh \in Int
  BY DEF BarOf
<1>2. \A k \in 1 .. Len(bars) : bars[k] \in BarOf
  OBVIOUS
<1>3. \A k \in 1 .. Len(bars) : bars[k].qh \in Int
  BY <1>1, <1>2
<1>4. /\ Append(bars, b) \in Seq(BarOf) /\ Len(Append(bars, b)) = Len(bars) + 1 /\ Len(bars) \in Nat
      /\ Append(bars, b)[Len(bars) + 1] = b
      /\ \A k \in 1 .. Len(bars) : Append(bars, b)[k] = bars[k]
  OBVIOUS
<1> QED
  BY <1>1, <1>2, <1>3, <1>4

\* A bar without a time.
LEMMA UndatedBar ==
  ASSUME MaxBars \in Nat, NEW bars, NEW late, NEW total, BarsUp(bars, late, total),
         NEW b \in BarOf, b.qh = UnknownQh
  PROVE  BarsUp(Append(bars, b), late, AddBar(total, b))
<1> DEFINE t == Append(bars, b)
           n == Len(bars)
<1>1. /\ bars \in Seq(BarOf) /\ late \in Int /\ BarSum(bars) = total
      /\ LastIs(bars, late) /\ BarsRise(bars) /\ NoHole(bars)
  BY DEF BarsUp
<1>2. /\ t \in Seq(BarOf) /\ Len(t) = n + 1 /\ n \in Nat /\ t[n + 1] = b
      /\ \A k \in 1 .. n : t[k] = bars[k]
  BY <1>1, BarMore
<1>3. BarSum(t) = AddBar(total, b)
  BY <1>1, BarSumMore
<1> HIDE DEF t, n
<1>4. ASSUME NEW k \in 1 .. n + 1, OnDay(t, k) PROVE k \in 1 .. n /\ t[k] = bars[k] /\ OnDay(bars, k)
  <2>1. k # n + 1
    BY <1>2, <1>4 DEF OnDay
  <2>2. k \in 1 .. n
    BY <1>2, <2>1
  <2> QED
    BY <1>2, <1>4, <2>2 DEF OnDay
<1>5. LastIs(t, late)
  <2>1. ASSUME late = UnknownQh, NEW k \in 1 .. n + 1 PROVE ~ OnDay(t, k)
    BY <1>1, <1>4, <2>1 DEF LastIs, n
  <2>2. ASSUME late # UnknownQh PROVE late > 0 /\ \E k \in 1 .. n + 1 : t[k].qh = late
    <3>1. PICK k \in 1 .. n : bars[k].qh = late
      BY <1>1, <2>2 DEF LastIs, n
    <3>2. k \in 1 .. n + 1 /\ t[k].qh = late
      BY <1>2, <3>1
    <3> QED
      BY <1>1, <2>2, <3>2 DEF LastIs
  <2>3. ASSUME NEW k \in 1 .. n + 1, OnDay(t, k) PROVE t[k].qh <= late
    BY <1>1, <1>4, <2>3 DEF LastIs, n
  <2> QED
    BY <1>2, <2>1, <2>2, <2>3 DEF LastIs
<1>6. BarsRise(t)
  <2>1. ASSUME NEW i \in 1 .. n + 1, NEW j \in 1 .. n + 1, i < j, OnDay(t, i), OnDay(t, j)
        PROVE  t[i].qh < t[j].qh
    <3>1. i \in 1 .. n /\ j \in 1 .. n /\ t[i] = bars[i] /\ t[j] = bars[j] /\ OnDay(bars, i) /\ OnDay(bars, j)
      BY <1>4, <2>1
    <3> QED
      BY <1>1, <2>1, <3>1 DEF BarsRise, n
  <2> QED
    BY <1>2, <2>1 DEF BarsRise
<1>7. NoHole(t)
  <2>1. ASSUME n + 1 < MaxBars, NEW i \in 1 .. n + 1, NEW j \in 1 .. n + 1, Follows(t, i, j)
        PROVE  t[j].qh - t[i].qh <= step
    <3>1. i < j /\ OnDay(t, i) /\ OnDay(t, j) /\ \A k \in 1 .. n + 1 : OnDay(t, k) => k <= i \/ j <= k
      BY <1>2, <2>1 DEF Follows
    <3>2. i \in 1 .. n /\ j \in 1 .. n /\ t[i] = bars[i] /\ t[j] = bars[j] /\ OnDay(bars, i) /\ OnDay(bars, j)
      BY <1>4, <3>1
    <3>3. ASSUME NEW k \in 1 .. n, OnDay(bars, k) PROVE k <= i \/ j <= k
      <4>1. k \in 1 .. n + 1 /\ OnDay(t, k)
        BY <1>2, <3>3 DEF OnDay
      <4> QED
        BY <3>1, <4>1
    <3>4. Follows(bars, i, j)
      BY <3>1, <3>2, <3>3 DEF Follows, n
    <3>5. n < MaxBars
      BY <1>2, <2>1
    <3>6. bars[j].qh - bars[i].qh <= step
      BY <1>1, <3>2, <3>4, <3>5 DEF NoHole, n
    <3> QED
      BY <3>2, <3>6
  <2> QED
    BY <1>2, <2>1 DEF NoHole
<1>8. BarsUp(t, late, AddBar(total, b))
  BY <1>1, <1>2, <1>3, <1>5, <1>6, <1>7 DEF BarsUp
<1> QED
  BY <1>8 DEF t

\* A bar of a later time: not more than step later, or there are enough bars.
LEMMA DatedBar ==
  ASSUME MaxBars \in Nat, step \in Nat, NEW bars, NEW late, NEW total, BarsUp(bars, late, total),
         NEW b \in BarOf, b.qh > 0, b.qh > late,
         late # UnknownQh /\ Len(bars) + 1 < MaxBars => b.qh - late <= step
  PROVE  BarsUp(Append(bars, b), b.qh, AddBar(total, b))
<1> DEFINE t == Append(bars, b)
           n == Len(bars)
<1>1. /\ bars \in Seq(BarOf) /\ late \in Int /\ BarSum(bars) = total
      /\ LastIs(bars, late) /\ BarsRise(bars) /\ NoHole(bars)
  BY DEF BarsUp
<1>2. /\ t \in Seq(BarOf) /\ Len(t) = n + 1 /\ n \in Nat /\ t[n + 1] = b /\ b.qh \in Int
      /\ \A k \in 1 .. n : t[k] = bars[k] /\ bars[k].qh \in Int
  BY <1>1, BarMore
<1>3. BarSum(t) = AddBar(total, b)
  BY <1>1, BarSumMore
<1>4. b.qh # UnknownQh
  BY <1>2 DEF UnknownQh
<1>5. late # UnknownQh /\ n + 1 < MaxBars => b.qh - late <= step
  OBVIOUS
<1> HIDE DEF t, n
<1>6. ASSUME NEW k \in 1 .. n + 1, k # n + 1
      PROVE k \in 1 .. n /\ t[k] = bars[k] /\ t[k].qh \in Int /\ (OnDay(t, k) <=> OnDay(bars, k))
  <2>1. k \in 1 .. n
    BY <1>2, <1>6
  <2> QED
    BY <1>2, <2>1 DEF OnDay
<1>7. ASSUME NEW k \in 1 .. n + 1, k # n + 1, OnDay(t, k) PROVE t[k].qh <= late /\ t[k].qh < b.qh
  <2>1. k \in 1 .. n /\ t[k] = bars[k] /\ OnDay(bars, k) /\ t[k].qh \in Int
    BY <1>6, <1>7
  <2>2. t[k].qh <= late
    BY <1>1, <2>1 DEF LastIs, n
  <2> QED
    BY <1>1, <1>2, <2>1, <2>2
<1>8. LastIs(t, b.qh)
  <2>1. n + 1 \in 1 .. n + 1 /\ t[n + 1].qh = b.qh
    BY <1>2
  <2>2. ASSUME NEW k \in 1 .. n + 1, OnDay(t, k) PROVE t[k].qh <= b.qh
    <3>1. CASE k = n + 1
      BY <1>2, <3>1
    <3>2. CASE k # n + 1
      BY <1>2, <1>6, <1>7, <2>2, <3>2
    <3> QED
      BY <3>1, <3>2
  <2> QED
    BY <1>2, <1>4, <2>1, <2>2 DEF LastIs
<1>9. BarsRise(t)
  <2>1. ASSUME NEW i \in 1 .. n + 1, NEW j \in 1 .. n + 1, i < j, OnDay(t, i), OnDay(t, j)
        PROVE  t[i].qh < t[j].qh
    <3>1. i # n + 1
      BY <1>2, <2>1
    <3>2. CASE j = n + 1
      BY <1>2, <1>7, <2>1, <3>1, <3>2
    <3>3. CASE j # n + 1
      <4>1. i \in 1 .. n /\ j \in 1 .. n /\ t[i] = bars[i] /\ t[j] = bars[j] /\ OnDay(bars, i) /\ OnDay(bars, j)
        BY <1>6, <2>1, <3>1, <3>3
      <4> QED
        BY <1>1, <2>1, <4>1 DEF BarsRise, n
    <3> QED
      BY <3>2, <3>3
  <2> QED
    BY <1>2, <2>1 DEF BarsRise
<1>10. NoHole(t)
  <2>1. ASSUME n + 1 < MaxBars, NEW i \in 1 .. n + 1, NEW j \in 1 .. n + 1, Follows(t, i, j)
        PROVE  t[j].qh - t[i].qh <= step
    <3>1. i < j /\ OnDay(t, i) /\ OnDay(t, j) /\ \A k \in 1 .. n + 1 : OnDay(t, k) => k <= i \/ j <= k
      BY <1>2, <2>1 DEF Follows
    <3>2. i # n + 1
      BY <1>2, <3>1
    <3>i. i \in 1 .. n /\ t[i] = bars[i] /\ OnDay(bars, i) /\ t[i].qh \in Int
      BY <1>6, <3>1, <3>2
    <3>3. CASE j # n + 1
      <4>2. j \in 1 .. n /\ t[j] = bars[j] /\ OnDay(bars, j)
        BY <1>6, <3>1, <3>3
      <4>3. ASSUME NEW k \in 1 .. n, OnDay(bars, k) PROVE k <= i \/ j <= k
        <5>1. k \in 1 .. n + 1 /\ OnDay(t, k)
          BY <1>2, <4>3 DEF OnDay
        <5> QED
          BY <3>1, <5>1
      <4>4. Follows(bars, i, j)
        BY <3>1, <3>i, <4>2, <4>3 DEF Follows, n
      <4>5. n < MaxBars
        BY <1>2, <2>1
      <4>6. bars[j].qh - bars[i].qh <= step
        BY <1>1, <3>i, <4>2, <4>4, <4>5 DEF NoHole, n
      <4> QED
        BY <3>i, <4>2, <4>6
    <3>4. CASE j = n + 1
      <4>1. t[j].qh = b.qh
        BY <1>2, <3>4
      <4>2. late # UnknownQh
        BY <1>1, <3>i DEF LastIs, n
      <4>3. PICK k \in 1 .. n : bars[k].qh = late
        BY <1>1, <4>2 DEF LastIs, n
      <4>4. k \in 1 .. n + 1 /\ OnDay(t, k) /\ OnDay(bars, k) /\ k < n + 1
        BY <1>2, <4>2, <4>3 DEF OnDay
      <4>5. k <= i
        <5>1. k <= i \/ j <= k
          BY <3>1, <4>4
        <5> QED
          BY <1>2, <3>4, <4>4, <5>1
      <4>6. bars[k].qh <= bars[i].qh
        <5>1. CASE k = i
          BY <1>2, <3>i, <5>1
        <5>2. CASE k # i
          <6>1. k < i
            BY <3>i, <4>5, <5>2
          <6>2. bars[k].qh < bars[i].qh
            BY <1>1, <3>i, <4>4, <6>1 DEF BarsRise, n
          <6> QED
            BY <1>2, <3>i, <6>2
        <5> QED
          BY <5>1, <5>2
      <4>7. late <= t[i].qh
        BY <3>i, <4>3, <4>6
      <4>8. b.qh - late <= step
        BY <1>5, <2>1, <4>2
      <4> QED
        BY <1>1, <1>2, <3>i, <4>1, <4>7, <4>8
    <3> QED
      BY <3>3, <3>4
  <2> QED
    BY <1>2, <2>1 DEF NoHole
<1>11. BarsUp(t, b.qh, AddBar(total, b))
  BY <1>2, <1>3, <1>8, <1>9, <1>10 DEF BarsUp
<1> QED
  BY <1>11 DEF t

\* The gap bars, one more each time.
GapBar(prev, k) == Bar(prev + k * step, 0, TRUE)
GapBars(prev, m) == [k \in 1 .. m |-> GapBar(prev, k)]

LEMMA GapBarIs ==
  ASSUME HcTypeOK, NEW prev \in Int, NEW k \in Int
  PROVE  /\ GapBar(prev, k) \in BarOf /\ GapBar(prev, k).qh = prev + k * step
         /\ \A a : AddBar(a, GapBar(prev, k)) = a
<1>1. step \in Nat
  BY HcTypes
<1>2. k * step \in Int
  BY <1>1
<1>3. prev + k * step \in Int
  BY <1>2
<1>4. GapBar(prev, k) = [qh |-> prev + k * step, v |-> 0, missing |-> TRUE]
  BY DEF GapBar, Bar
<1>5. GapBar(prev, k).missing = TRUE
  BY <1>4
<1> QED
  BY <1>3, <1>4, <1>5 DEF BarOf, AddBar

LEMMA GapsGrow ==
  ASSUME HcTypeOK, NEW bars \in Seq(BarOf), NEW prev \in Int, NEW k \in Nat
  PROVE  bars \o GapBars(prev, k + 1) = Append(bars \o GapBars(prev, k), GapBar(prev, k + 1))
<1> DEFINE g == GapBars(prev, k)
           h == GapBars(prev, k + 1)
           b == GapBar(prev, k + 1)
           j == k + 1
<1>1. \A x \in Int : GapBar(prev, x) \in BarOf
  BY GapBarIs
<1>2. g \in Seq(BarOf) /\ Len(g) = k /\ \A x \in 1 .. k : g[x] = GapBar(prev, x)
  BY <1>1 DEF GapBars
<1>3. j \in Nat /\ h \in Seq(BarOf) /\ Len(h) = j /\ \A x \in 1 .. j : h[x] = GapBar(prev, x)
  BY <1>1 DEF GapBars
<1>4. b \in BarOf /\ b = GapBar(prev, j)
  BY <1>1
<1> HIDE DEF g, h, b
<1>5. j = k + 1
  OBVIOUS
<1> HIDE DEF j
<1>6. h = Append(g, b)
  <2> DEFINE t == Append(g, b)
  <2>1. t \in Seq(BarOf) /\ Len(t) = j /\ t[j] = b /\ \A x \in 1 .. k : t[x] = g[x]
    BY <1>2, <1>4, <1>5
  <2>2. ASSUME NEW x \in 1 .. j PROVE h[x] = t[x]
    <3>1. CASE x = j
      BY <1>3, <1>4, <2>1, <3>1
    <3>2. CASE x # j
      <4>1. x \in 1 .. k
        BY <1>5, <3>2
      <4> QED
        BY <1>2, <1>3, <2>1, <4>1
    <3> QED
      BY <3>1, <3>2
  <2> HIDE DEF t
  <2>3. h = t
    BY <1>3, <2>1, <2>2, SeqEqual
  <2> QED
    BY <2>3 DEF t
<1>7. bars \o Append(g, b) = Append(bars \o g, b)
  BY <1>2, <1>4
<1>8. bars \o h = Append(bars \o g, b)
  BY <1>6, <1>7
<1> QED
  BY <1>8 DEF g, h, b, j

\* The gaps after the bar of prev, at least while there are less than m.
LEMMA GapsAdded ==
  ASSUME HcTypeOK, NEW bars, NEW prev, NEW total, BarsUp(bars, prev, total), prev > 0, NEW m \in Nat
  PROVE  BarsUp(bars \o GapBars(prev, m), prev + m * step, total) /\ Len(bars \o GapBars(prev, m)) = Len(bars) + m
<1> DEFINE Ok(k) == BarsUp(bars \o GapBars(prev, k), prev + k * step, total) /\ Len(bars \o GapBars(prev, k)) = Len(bars) + k
           P == {k \in Nat : Ok(k)}
<1>1. bars \in Seq(BarOf) /\ prev \in Int /\ step \in Nat /\ step >= 1 /\ MaxBars \in Nat /\ Len(bars) \in Nat
  BY HcTypes, HcConstants DEF BarsUp, HcConsts
<1>2. 0 \in P
  <2>1. GapBars(prev, 0) = <<>>
    BY DEF GapBars
  <2>2. bars \o GapBars(prev, 0) = bars
    BY <1>1, <2>1
  <2>3. prev + 0 * step = prev
    BY <1>1
  <2>4. Len(bars) = Len(bars) + 0
    BY <1>1
  <2>5. Ok(0)
    BY <2>2, <2>3, <2>4
  <2> HIDE DEF Ok
  <2> QED
    BY <2>5
<1>3. ASSUME NEW k \in Nat, k \in P PROVE k + 1 \in P
  <2> DEFINE s == bars \o GapBars(prev, k)
             late == prev + k * step
             b == GapBar(prev, k + 1)
  <2>1. BarsUp(s, late, total) /\ Len(s) = Len(bars) + k
    BY <1>3
  <2>2. k + 1 \in Int /\ k + 1 \in Nat
    OBVIOUS
  <2>3. b \in BarOf /\ b.qh = prev + (k + 1) * step /\ AddBar(total, b) = total
    BY <1>1, <2>2, GapBarIs
  <2>4. /\ late \in Int /\ prev + (k + 1) * step = late + step /\ late > 0
    <3> DEFINE x == k * step
    <3>1. x \in Nat /\ (k + 1) * step = x + step
      BY <1>1
    <3> HIDE DEF x
    <3>2. prev + x \in Int /\ prev + (x + step) = prev + x + step /\ prev + x > 0
      BY <1>1, <3>1
    <3> QED
      BY <3>1, <3>2 DEF x
  <2>5. bars \o GapBars(prev, k + 1) = Append(s, b)
    BY <1>1, GapsGrow
  <2> HIDE DEF s, late, b
  <2>6. b.qh > 0 /\ b.qh > late /\ b.qh - late <= step
    BY <1>1, <2>3, <2>4
  <2>7. BarsUp(Append(s, b), b.qh, total)
    <3>1. BarsUp(Append(s, b), b.qh, AddBar(total, b))
      BY <1>1, <2>1, <2>3, <2>6, DatedBar
    <3> QED
      BY <2>3, <3>1
  <2>8. Len(Append(s, b)) = Len(bars) + (k + 1)
    <3>1. s \in Seq(BarOf)
      BY <2>1 DEF BarsUp
    <3> QED
      BY <1>1, <2>1, <2>3, <3>1
  <2>9. Ok(k + 1)
    BY <2>3, <2>5, <2>7, <2>8
  <2> HIDE DEF Ok
  <2> QED
    BY <2>2, <2>9
<1> HIDE DEF P
<1>4. m \in P
  BY <1>2, <1>3, NatInd
<1>5. Ok(m)
  BY <1>4 DEF P
<1> QED
  BY <1>5

\* As many gaps as there are, or as there is room for.
LEMMA GapsIs ==
  ASSUME HcTypeOK, NEW prev \in Int, NEW qh \in Int, qh > prev, NEW room \in Nat
  PROVE  \E m \in Nat : /\ Gaps(prev, qh, room) = GapBars(prev, m) /\ m * step <= qh - prev - 1
                        /\ m < room => qh - (prev + m * step) <= step
<1> DEFINE d == qh - prev - 1
           n == d \div step
           m == IF n < room THEN n ELSE room
<1>1. step \in Nat /\ step >= 1
  BY HcTypes
<1>2. d \in Nat
  OBVIOUS
<1> HIDE DEF d
<1>3. n \in Int /\ step * n \in Int /\ step * n <= d /\ d < step * n + step
  BY <1>1, <1>2, QuotientIs
<1>4. Gaps(prev, qh, room) = [k \in 1 .. m |-> Bar(prev + k * step, 0, TRUE)]
  BY DEF Gaps, d
<1>5. GapBars(prev, m) = [k \in 1 .. m |-> Bar(prev + k * step, 0, TRUE)]
  BY DEF GapBars, GapBar
<1>6. Gaps(prev, qh, room) = GapBars(prev, m)
  BY <1>4, <1>5
<1> DEFINE q == n
<1>7. (q < room => m = q) /\ (~ (q < room) => m = room) /\ q \in Int
  BY <1>3
<1>8. step * q \in Int /\ step * q <= d /\ d < step * q + step
  BY <1>3
<1> HIDE DEF q
<1>9. q \in Nat
  <2>1. ASSUME q < 0 PROVE FALSE
    <3>1. q + 1 <= 0
      BY <1>7, <2>1
    <3>2. step * (q + 1) <= 0
      BY <1>1, <1>7, <3>1
    <3>3. step * (q + 1) = step * q + step
      BY <1>1, <1>7
    <3> QED
      BY <1>1, <1>2, <1>8, <3>2, <3>3
  <2> QED
    BY <1>7, <2>1
<1> HIDE DEF m, n
<1>10. m \in Nat /\ m <= q
  BY <1>7, <1>9
<1>11. m * step <= d /\ m * step \in Int
  <2>1. step * m <= step * q /\ m * step = step * m /\ step * m \in Int
    BY <1>1, <1>9, <1>10
  <2> QED
    BY <1>2, <1>8, <2>1
<1>12. ASSUME m < room PROVE d + 1 - m * step <= step
  <2>1. m = q
    BY <1>7, <1>10, <1>12
  <2>2. m * step = step * q
    BY <1>1, <1>9, <2>1
  <2> QED
    BY <1>1, <1>2, <1>8, <2>2
<1>13. m * step <= qh - prev - 1
  BY <1>11 DEF d
<1>14. m < room => qh - (prev + m * step) <= step
  <2>1. qh - (prev + m * step) = d + 1 - m * step
    BY <1>11 DEF d
  <2> QED
    BY <1>12, <2>1
<1> QED
  BY <1>6, <1>10, <1>13, <1>14

BarsOf == [bars : Seq(BarOf), prev : Int]
BarOfPoint(p) == Bar(p.qh, IF p.e = NoWh THEN 0 ELSE p.e, p.e = NoWh \/ p.silent)

LEMMA BarOfPointIs ==
  ASSUME NEW p \in PointOf
  PROVE  /\ BarOfPoint(p) \in BarOf /\ BarOfPoint(p).qh = p.qh
         /\ \A a \in Int : AddBar(a, BarOfPoint(p)) = AddPoint(a, p)
<1> DEFINE v == IF p.e = NoWh THEN 0 ELSE p.e
           x == p.e = NoWh \/ p.silent
<1>1. p.qh \in Int /\ p.e \in Int /\ p.silent \in BOOLEAN
  BY DEF PointOf
<1>2. v \in Int /\ x \in BOOLEAN
  BY <1>1
<1>3. BarOfPoint(p) = [qh |-> p.qh, v |-> v, missing |-> x]
  BY DEF BarOfPoint, Bar
<1> HIDE DEF v, x
<1>4. BarOfPoint(p) \in BarOf /\ BarOfPoint(p).qh = p.qh /\ BarOfPoint(p).v = v /\ BarOfPoint(p).missing = x
  BY <1>1, <1>2, <1>3 DEF BarOf
<1>5. CASE p.e = NoWh \/ p.silent
  <2>1. BarOfPoint(p).missing /\ PtWorth(p) = 0
    BY <1>4, <1>5 DEF x, PtWorth
  <2> QED
    BY <1>4, <1>5, <2>1 DEF AddBar, AddPoint
<1>6. CASE ~ (p.e = NoWh \/ p.silent)
  <2>1. ~ BarOfPoint(p).missing /\ PtWorth(p) = p.e /\ BarOfPoint(p).v = p.e
    BY <1>4, <1>6 DEF x, v, PtWorth
  <2> QED
    BY <1>4, <2>1 DEF AddBar, AddPoint
<1> QED
  BY <1>5, <1>6

GapsOf(a, p) == IF UnknownQh \in {p.qh, a.prev} THEN <<>> ELSE Gaps(a.prev, p.qh, Room(a.bars))

LEMMA BarredIs ==
  ASSUME NEW a, NEW p
  PROVE  barred(a, p) = [bars |-> a.bars \o GapsOf(a, p) \o <<BarOfPoint(p)>>,
                         prev |-> IF p.qh = UnknownQh THEN a.prev ELSE p.qh]
BY DEF barred, GapsOf, BarOfPoint

LEMMA RoomIs == ASSUME MaxBars \in Nat, NEW bars \in Seq(BarOf) PROVE Room(bars) \in Nat
BY DEF Room

LEMMA GapsTyped ==
  ASSUME HcTypeOK, NEW a \in BarsOf, NEW p \in PointOf
  PROVE  GapsOf(a, p) \in Seq(BarOf)
<1>1. a.bars \in Seq(BarOf) /\ a.prev \in Int /\ p.qh \in Int
  BY DEF BarsOf, PointOf
<1>2. Room(a.bars) \in Nat
  BY <1>1, RoomIs, HcConstants DEF HcConsts
<1>3. \A m \in Nat : GapBars(a.prev, m) \in Seq(BarOf)
  <2>1. \A x \in Int : GapBar(a.prev, x) \in BarOf
    BY <1>1, GapBarIs
  <2> QED
    BY <2>1 DEF GapBars
<1>4. CASE UnknownQh \in {p.qh, a.prev}
  BY <1>4 DEF GapsOf
<1>5. CASE ~ (UnknownQh \in {p.qh, a.prev})
  <2>1. GapsOf(a, p) = Gaps(a.prev, p.qh, Room(a.bars))
    BY <1>5 DEF GapsOf
  <2>2. CASE p.qh > a.prev
    <3>1. \E m \in Nat : Gaps(a.prev, p.qh, Room(a.bars)) = GapBars(a.prev, m)
      BY <1>1, <1>2, <2>2, GapsIs
    <3> QED
      BY <1>3, <2>1, <3>1
  <2>3. CASE ~ (p.qh > a.prev)
    <3> DEFINE z == IF 0 < Room(a.bars) THEN 0 ELSE Room(a.bars)
    <3>1. Gaps(a.prev, p.qh, Room(a.bars)) = GapBars(a.prev, z)
      BY <2>3 DEF Gaps, GapBars, GapBar
    <3>2. z = 0
      BY <1>2
    <3> HIDE DEF z
    <3>3. Gaps(a.prev, p.qh, Room(a.bars)) = <<>>
      BY <3>1, <3>2 DEF GapBars
    <3> QED
      BY <2>1, <3>3
  <2> QED
    BY <2>2, <2>3
<1> QED
  BY <1>4, <1>5

LEMMA BarredTyped ==
  ASSUME HcTypeOK, NEW a \in BarsOf, NEW p \in PointOf
  PROVE  barred(a, p) \in BarsOf
<1>1. a.bars \in Seq(BarOf) /\ a.prev \in Int /\ p.qh \in Int
  BY DEF BarsOf, PointOf
<1>2. GapsOf(a, p) \in Seq(BarOf) /\ BarOfPoint(p) \in BarOf
  BY GapsTyped, BarOfPointIs
<1>3. a.bars \o GapsOf(a, p) \o <<BarOfPoint(p)>> \in Seq(BarOf)
  BY <1>1, <1>2
<1>4. (IF p.qh = UnknownQh THEN a.prev ELSE p.qh) \in Int
  BY <1>1
<1> QED
  BY <1>3, <1>4, BarredIs DEF BarsOf

\* The bars of a point.
LEMMA OneMorePoint ==
  ASSUME HcTypeOK, NEW a \in BarsOf, NEW total \in Int, BarsUp(a.bars, a.prev, total), NEW p \in PointOf,
         p.qh # UnknownQh => p.qh > 0 /\ p.qh > a.prev
  PROVE  /\ BarsUp(barred(a, p).bars, barred(a, p).prev, AddPoint(total, p))
         /\ barred(a, p).prev = IF p.qh = UnknownQh THEN a.prev ELSE p.qh
<1> DEFINE b == BarOfPoint(p)
           g == GapsOf(a, p)
           c == barred(a, p)
<1>1. a.bars \in Seq(BarOf) /\ a.prev \in Int /\ p.qh \in Int
  BY DEF BarsOf, PointOf
<1>2. g \in Seq(BarOf) /\ b \in BarOf /\ b.qh = p.qh /\ AddBar(total, b) = AddPoint(total, p)
  BY GapsTyped, BarOfPointIs
<1>3. c.bars = Append(a.bars \o g, b) /\ c.prev = IF p.qh = UnknownQh THEN a.prev ELSE p.qh
  <2>1. c.bars = a.bars \o g \o <<b>> /\ c.prev = IF p.qh = UnknownQh THEN a.prev ELSE p.qh
    BY BarredIs
  <2> HIDE DEF b, c, g
  <2>2. a.bars \o g \in Seq(BarOf)
    BY <1>1, <1>2
  <2>3. (a.bars \o g) \o <<b>> = Append(a.bars \o g, b)
    BY <1>2, <2>2
  <2> QED
    BY <2>1, <2>3
<1>4. MaxBars \in Nat /\ step \in Nat /\ step >= 1
  BY HcTypes, HcConstants DEF HcConsts
<1>5. UnknownQh \in {p.qh, a.prev} => a.bars \o g = a.bars
  <2>1. UnknownQh \in {p.qh, a.prev} => g = <<>>
    BY DEF GapsOf
  <2> HIDE DEF g
  <2> QED
    BY <1>1, <2>1
<1> HIDE DEF b, c, g
<1>6. CASE p.qh = UnknownQh
  <2>1. c.bars = Append(a.bars, b) /\ c.prev = a.prev
    BY <1>3, <1>5, <1>6
  <2>2. BarsUp(Append(a.bars, b), a.prev, AddBar(total, b))
    BY <1>2, <1>4, <1>6, UndatedBar
  <2> QED
    BY <1>2, <1>3, <2>1, <2>2 DEF c
<1>7. CASE p.qh # UnknownQh /\ a.prev = UnknownQh
  <2>1. c.bars = Append(a.bars, b) /\ c.prev = b.qh
    BY <1>2, <1>3, <1>5, <1>7
  <2>2. BarsUp(Append(a.bars, b), b.qh, AddBar(total, b))
    BY <1>2, <1>4, <1>7, DatedBar
  <2> QED
    BY <1>2, <1>3, <2>1, <2>2 DEF c
<1>8. CASE p.qh # UnknownQh /\ a.prev # UnknownQh
  <2>1. a.prev > 0
    BY <1>8 DEF BarsUp, LastIs
  <2>2. Room(a.bars) \in Nat /\ g = Gaps(a.prev, p.qh, Room(a.bars))
    BY <1>1, <1>4, <1>8, RoomIs DEF g, GapsOf
  <2>3. PICK m \in Nat : /\ g = GapBars(a.prev, m) /\ m * step <= p.qh - a.prev - 1
                         /\ m < Room(a.bars) => p.qh - (a.prev + m * step) <= step
    BY <1>1, <1>8, <2>2, GapsIs
  <2> DEFINE s == a.bars \o g
             late == a.prev + m * step
             x == m * step
  <2>4. BarsUp(s, late, total) /\ Len(s) = Len(a.bars) + m
    BY <2>1, <2>3, GapsAdded
  <2>5. c.bars = Append(s, b) /\ c.prev = b.qh
    BY <1>2, <1>3, <1>8
  <2>6. x \in Int /\ late = a.prev + x /\ x <= p.qh - a.prev - 1 /\ (m < Room(a.bars) => p.qh - late <= step)
    BY <1>4, <2>3
  <2> HIDE DEF s, late, x
  <2>7. b.qh > 0 /\ b.qh > late
    BY <1>1, <1>2, <1>8, <2>6
  <2>8. ASSUME Len(s) + 1 < MaxBars PROVE b.qh - late <= step
    <3>1. m < Room(a.bars)
      <4>1. Len(a.bars) \in Nat /\ Len(a.bars) + m + 1 < MaxBars
        BY <1>1, <2>4, <2>8
      <4>2. Len(a.bars) < MaxBars /\ m < MaxBars - Len(a.bars)
        BY <1>4, <4>1
      <4> QED
        BY <4>2 DEF Room
    <3> QED
      BY <1>2, <2>6, <3>1
  <2>9. BarsUp(Append(s, b), b.qh, AddBar(total, b))
    BY <1>2, <1>4, <2>4, <2>7, <2>8, DatedBar
  <2> QED
    BY <1>2, <1>3, <2>5, <2>9 DEF c
<1> QED
  BY <1>6, <1>7, <1>8

\* What the points are drawn as.
BarsBase == [bars |-> <<>>, prev |-> UnknownQh]
BarsEnd(ps) == FoldLeft(barred, BarsBase, ps)

LEMMA BarsBaseIs == BarsBase \in BarsOf /\ BarsBase.bars = <<>> /\ BarsBase.prev = UnknownQh
<1>1. <<>> \in Seq(BarOf) /\ UnknownQh \in Int
  BY DEF UnknownQh
<1> QED
  BY <1>1 DEF BarsBase, BarsOf

\* What BarsEnd computes.
LEMMA BarsFold ==
  ASSUME HcTypeOK, NEW s0 \in Seq(PointOf)
  PROVE  \E pre \in [0 .. Len(s0) -> BarsOf] :
           /\ pre[0] = BarsBase
           /\ \A i \in 1 .. Len(s0) : pre[i] = barred(pre[i - 1], s0[i])
           /\ BarsEnd(s0) = pre[Len(s0)]
<1> DEFINE n == Len(s0)
           st == [p \in BarsOf \X PointOf |-> barred(p[1], p[2])]
           Step(f) == [t \in SUBSET DOMAIN s0 |->
                         IF t = {} THEN BarsBase
                         ELSE barred(f[t \ {Max(t)}], s0[Max(t)])]
           it == CHOOSE f : f = Step(f)
<1>0. s0 \in Seq(PointOf) /\ n \in Nat /\ DOMAIN s0 = 1 .. n /\ \A i \in 1 .. n : s0[i] \in PointOf
  OBVIOUS
<1>1. BarsEnd(s0) = it[DOMAIN s0]
  BY Zenon DEF BarsEnd, FoldLeft, MapThenFoldSet
<1>2. st \in [BarsOf \X PointOf -> BarsOf] /\ BarsBase \in BarsOf
  <2>1. ASSUME NEW a \in BarsOf, NEW x \in PointOf PROVE barred(a, x) \in BarsOf
    BY BarredTyped
  <2>2. BarsBase \in BarsOf
    BY BarsBaseIs
  <2> QED
    BY <2>1, <2>2
<1>3. \A a \in BarsOf, x \in PointOf : st[<<a, x>>] = barred(a, x)
  OBVIOUS
<1>4. it = Step(it)
  <2> HIDE DEF st
  <2>2. PICK f \in [SUBSET DOMAIN s0 -> BarsOf] : Folds(f, st, BarsBase, s0, n)
    BY <1>0, <1>2, FoldExists
  <2>3. ASSUME NEW t \in SUBSET DOMAIN s0 PROVE f[t] = Step(f)[t]
    <3>1. CASE t = {}
      BY <1>0, <2>2, <3>1 DEF Folds
    <3>2. CASE t # {}
      <4>1. Max(t) \in DOMAIN s0 /\ t \ {Max(t)} \in SUBSET DOMAIN s0
        BY <1>0, <3>2, HasMax
      <4>2. s0[Max(t)] \in PointOf /\ f[t \ {Max(t)}] \in BarsOf
        BY <1>0, <2>2, <4>1
      <4>3. f[t] = st[<<f[t \ {Max(t)}], s0[Max(t)]>>]
        BY <1>0, <2>2, <3>2 DEF Folds
      <4>4. st[<<f[t \ {Max(t)}], s0[Max(t)]>>] = barred(f[t \ {Max(t)}], s0[Max(t)])
        BY <1>3, <4>2
      <4> QED
        BY <3>2, <4>3, <4>4
    <3> QED
      BY <3>1, <3>2
  <2>4. f = Step(f)
    BY <2>2, <2>3
  <2> QED
    BY <2>4
<1> DEFINE P == {i \in 0 .. n : it[1 .. i] \in BarsOf}
<1>5. it[1 .. 0] = BarsBase /\ 0 \in P
  <2>1. 1 .. 0 = {} /\ {} \in SUBSET DOMAIN s0
    OBVIOUS
  <2> HIDE DEF it, st
  <2>2. it[1 .. 0] = BarsBase
    BY <1>4, <2>1
  <2>3. it[1 .. 0] \in BarsOf /\ 0 \in 0 .. n
    BY <1>0, <1>2, <2>2
  <2> QED
    BY <2>2, <2>3
<1>6. ASSUME NEW i \in 1 .. n
      PROVE  it[1 .. i] = barred(it[1 .. (i - 1)], s0[i])
  <2> DEFINE t == 1 .. i
  <2>1. t \in SUBSET DOMAIN s0 /\ t # {} /\ Max(t) = i /\ t \ {i} = 1 .. (i - 1)
    BY <1>0, Prefix
  <2> HIDE DEF it, t, st
  <2>2. it[t] = barred(it[1 .. (i - 1)], s0[i])
    BY <1>4, <2>1
  <2> QED
    BY <2>2 DEF t
<1>7. ASSUME NEW i \in 1 .. n, i - 1 \in P PROVE i \in P
  <2> HIDE DEF it, st
  <2>1. it[1 .. (i - 1)] \in BarsOf /\ s0[i] \in PointOf
    BY <1>0, <1>7
  <2>2. it[1 .. i] = st[<<it[1 .. (i - 1)], s0[i]>>]
    BY <1>3, <1>6, <2>1
  <2>3. it[1 .. i] \in BarsOf
    BY <1>2, <2>1, <2>2
  <2> QED
    BY <1>0, <2>3
<1> HIDE DEF P, n, it, st
<1>8. 0 .. n \subseteq P
  BY <1>0, <1>5, <1>7, UpTo
<1> DEFINE pre == [i \in 0 .. n |-> it[1 .. i]]
<1>9. pre \in [0 .. n -> BarsOf]
  BY <1>8 DEF P
<1>10. \A i \in 1 .. n : pre[i] = it[1 .. i] /\ pre[i - 1] = it[1 .. (i - 1)]
  BY <1>0
<1>11. pre[0] = it[1 .. 0] /\ pre[n] = it[1 .. n]
  BY <1>0
<1> HIDE DEF pre
<1>12. \A i \in 1 .. n : pre[i] = barred(pre[i - 1], s0[i])
  BY <1>6, <1>10
<1> QED
  BY <1>0, <1>1, <1>5, <1>9, <1>11, <1>12 DEF n


\* The bars: in the order of time, without a hole, and adding up to what the points do.
LEMMA BarsAre ==
  ASSUME HcTypeOK, NEW ps, NEW g, PtsDated(ps, g), g <= Len(recs), g \in Nat
  PROVE  \E late : BarsUp(BarsEnd(ps).bars, late, PtSum(ps))
<1> DEFINE n == Len(ps)
<1>1. /\ ps \in Seq(PointOf) /\ n \in Nat /\ \A k \in 1 .. n : ps[k] \in PointOf
  BY DEF PtsDated
<1>2. PICK pre \in [0 .. Len(ps) -> BarsOf] :
           /\ pre[0] = BarsBase
           /\ \A i \in 1 .. Len(ps) : pre[i] = barred(pre[i - 1], ps[i])
           /\ BarsEnd(ps) = pre[Len(ps)]
  BY <1>1, BarsFold
<1>3. PICK q \in [0 .. Len(ps) -> Int] :
           /\ q[0] = 0 /\ \A i \in 1 .. Len(ps) : q[i] = AddPoint(q[i - 1], ps[i])
           /\ PtSum(ps) = q[Len(ps)]
  BY <1>1, PtSumFold
<1>4. ASSUME NEW k \in 1 .. n, ps[k].qh # UnknownQh PROVE ps[k].qh > 0
  <2>1. PICK j \in 1 .. g : IsDated(j) /\ ps[k].qh = recs[j].qh
    BY <1>4 DEF PtsDated
  <2>2. j \in 1 .. Len(recs) /\ MaxQh \in Nat
    BY HcTypes
  <2>3. recs[j].qh \in {UnknownQh} \cup 1 .. MaxQh
    BY <2>2, HcTypes
  <2>4. recs[j].qh \in 1 .. MaxQh
    BY <2>1, <2>3 DEF IsDated
  <2> QED
    BY <2>1, <2>2, <2>4
<1> DEFINE Ok(a, t, k) == /\ BarsUp(a.bars, a.prev, t)
                          /\ a.prev # UnknownQh => \E j \in 1 .. k : ps[j].qh = a.prev
           P == {k \in 0 .. n : Ok(pre[k], q[k], k)}
<1>5. 0 \in P
  <2>1. BarsUp(<<>>, UnknownQh, 0)
    <3>1. BarSum(<<>>) = 0 /\ UnknownQh \in Int /\ <<>> \in Seq(BarOf)
      BY BarSumType DEF UnknownQh
    <3> QED
      BY <3>1 DEF BarsUp, LastIs, BarsRise, NoHole
  <2>2. Ok(BarsBase, 0, 0)
    BY <2>1, BarsBaseIs
  <2>3. pre[0] = BarsBase /\ q[0] = 0 /\ 0 \in 0 .. n
    BY <1>1, <1>2, <1>3
  <2> HIDE DEF Ok
  <2> QED
    BY <2>2, <2>3
<1>6. ASSUME NEW k \in 1 .. n, k - 1 \in P PROVE k \in P
  <2> DEFINE a == pre[k - 1]
             t == q[k - 1]
             p == ps[k]
  <2>1. Ok(a, t, k - 1)
    BY <1>6
  <2>2. k - 1 \in 0 .. n /\ k \in 0 .. n /\ k \in Nat
    BY <1>1
  <2>3. a \in BarsOf /\ t \in Int /\ p \in PointOf
    BY <1>1, <1>2, <1>3, <2>2
  <2>4. pre[k] = barred(a, p) /\ q[k] = AddPoint(t, p)
    BY <1>2, <1>3
  <2>5. ASSUME p.qh # UnknownQh PROVE p.qh > 0 /\ p.qh > a.prev
    <3>1. p.qh > 0 /\ p.qh \in Int
      BY <1>4, <2>3, <2>5 DEF PointOf
    <3>2. CASE a.prev = UnknownQh
      BY <3>1, <3>2 DEF UnknownQh
    <3>3. CASE a.prev # UnknownQh
      <4>1. PICK j \in 1 .. k - 1 : ps[j].qh = a.prev
        BY <2>1, <3>3
      <4>2. j \in 1 .. n /\ j < k
        BY <1>1, <2>2
      <4>3. ps[j].qh < ps[k].qh
        BY <2>5, <3>3, <4>1, <4>2 DEF PtsDated
      <4>4. a.prev \in Int /\ a.prev < p.qh
        BY <2>3, <4>1, <4>3 DEF BarsOf
      <4> QED
        BY <3>1, <4>4
    <3> QED
      BY <3>2, <3>3
  <2>6. p.qh = ps[k].qh /\ k \in 1 .. k
    BY <2>2
  <2> HIDE DEF a, t, p
  <2>7. BarsUp(a.bars, a.prev, t)
    BY <2>1
  <2>8. /\ BarsUp(barred(a, p).bars, barred(a, p).prev, AddPoint(t, p))
        /\ barred(a, p).prev = IF p.qh = UnknownQh THEN a.prev ELSE p.qh
    BY <2>3, <2>5, <2>7, OneMorePoint
  <2>9. barred(a, p).prev # UnknownQh => \E j \in 1 .. k : ps[j].qh = barred(a, p).prev
    <3>1. CASE p.qh = UnknownQh
      <4>1. a.prev # UnknownQh => \E j \in 1 .. k - 1 : ps[j].qh = a.prev
        BY <2>1
      <4>2. \A j \in 1 .. k - 1 : j \in 1 .. k
        BY <2>2
      <4> QED
        BY <2>8, <3>1, <4>1, <4>2
    <3>2. CASE p.qh # UnknownQh
      BY <2>6, <2>8, <3>2
    <3> QED
      BY <3>1, <3>2
  <2>10. Ok(barred(a, p), AddPoint(t, p), k)
    BY <2>8, <2>9
  <2> HIDE DEF Ok
  <2> QED
    BY <2>2, <2>4, <2>10
<1> HIDE DEF P
<1>7. n \in P
  <2>1. 0 .. n \subseteq P
    BY <1>1, <1>5, <1>6, UpTo
  <2> QED
    BY <1>1, <2>1
<1>8. Ok(pre[n], q[n], n)
  BY <1>7 DEF P
<1>9. BarsUp(pre[n].bars, pre[n].prev, q[n])
  BY <1>8
<1> QED
  BY <1>2, <1>3, <1>9

\* What is drawn, and what it adds up to.
LEMMA DrawnIs ==
  ASSUME HcTypeOK, DatesUp, ReadInv
  PROVE  \E late : BarsUp(histBars, late, PtSum(json_history_))
<1>1. histBars = BarsEnd(json_history_).bars
  BY DEF histBars, BarsEnd, BarsBase
<1>2. Len(recs) \in Nat
  BY HcTypes
<1>3. \E g \in Nat : g <= Len(recs) /\ PtsDated(json_history_, g)
  <2>1. CASE recs = <<>>
    <3>1. PtsDated(<<>>, 0)
      BY GoodNone DEF Good
    <3> QED
      BY <1>2, <2>1, <3>1, PointsAre
  <2>2. CASE recs # <<>>
    <3>1. PtsDated(json_history_, Len(recs))
      BY <2>2, PointsAre DEF Good
    <3> QED
      BY <1>2, <3>1
  <2> QED
    BY <2>1, <2>2
<1> QED
  BY <1>1, <1>3, BarsAre

LEMMA TotalIs ==
  ASSUME HcTypeOK, DatesUp, ReadInv
  PROVE  EnergyStats = PtSum(json_history_)
<1>1. EnergyStats = BarSum(histBars)
  BY Zenon DEF EnergyStats, BarSum, AddBar
<1> QED
  BY <1>1, DrawnIs DEF BarsUp


\* Not more than step later is not more than a bucket later.
LEMMA NextBucket ==
  ASSUME NEW s \in Nat, s >= 1, NEW x \in Int, NEW y \in Int, y - x <= s
  PROVE  y \div s <= x \div s + 1
<1> DEFINE p == x \div s
           q == y \div s
<1>1. p \in Int /\ s * p \in Int /\ x < s * p + s
  BY QuotientIs
<1>2. q \in Int /\ s * q \in Int /\ s * q <= y
  BY QuotientIs
<1> HIDE DEF p, q
<1>3. ASSUME q > p + 1 PROVE FALSE
  <2>1. p + 2 <= q
    BY <1>1, <1>2, <1>3
  <2>2. s * (p + 2) <= s * q
    BY <1>1, <1>2, <2>1
  <2>3. s * (p + 2) = s * p + s + s
    BY <1>1
  <2> QED
    BY <1>1, <1>2, <2>2, <2>3
<1>4. q <= p + 1
  BY <1>1, <1>2, <1>3
<1> QED
  BY <1>4 DEF p, q

LEMMA GapsAreShown == ASSUME HcTypeOK, DatesUp, ReadInv PROVE GapShown
<1> DEFINE all == histBars
           days == {i \in DOMAIN all : all[i].qh # UnknownQh}
           next(i, j) == i < j /\ \A k \in days : k <= i \/ j <= k
<1>1. PICK late : BarsUp(histBars, late, PtSum(json_history_))
  BY DrawnIs
<1>2. all \in Seq(BarOf) /\ BarsRise(all) /\ NoHole(all)
  BY <1>1 DEF BarsUp
<1>3. DOMAIN all = 1 .. Len(all) /\ \A i \in 1 .. Len(all) : all[i].qh \in Int
  <2>1. \A x \in BarOf : x.qh \in Int
    BY DEF BarOf
  <2>2. DOMAIN all = 1 .. Len(all) /\ \A i \in 1 .. Len(all) : all[i] \in BarOf
    BY <1>2
  <2> QED
    BY <2>1, <2>2
<1> HIDE DEF all
<1>4. ASSUME NEW i \in days, NEW j \in days, i < j PROVE all[i].qh < all[j].qh
  BY <1>2, <1>3, <1>4 DEF BarsRise, OnDay
<1>5. ASSUME Len(all) < MaxBars, NEW i \in days, NEW j \in days, next(i, j)
      PROVE  KeyOf(all[j].qh) <= KeyOf(all[i].qh) + 1
  <2>1. i \in 1 .. Len(all) /\ j \in 1 .. Len(all) /\ OnDay(all, i) /\ OnDay(all, j)
    BY <1>3 DEF OnDay
  <2>2. ASSUME NEW k \in 1 .. Len(all), OnDay(all, k) PROVE k <= i \/ j <= k
    <3>1. k \in days
      BY <1>3, <2>2 DEF OnDay
    <3> QED
      BY <1>5, <3>1
  <2>3. Follows(all, i, j)
    BY <1>5, <2>1, <2>2 DEF Follows
  <2>4. all[j].qh - all[i].qh <= step
    BY <1>2, <1>5, <2>1, <2>3 DEF NoHole
  <2> DEFINE x == all[i].qh
             y == all[j].qh
  <2>5. x \in Int /\ y \in Int /\ step \in Nat /\ step >= 1 /\ y - x <= step
    BY <1>3, <2>1, <2>4, HcTypes
  <2> HIDE DEF x, y
  <2>6. y \div step <= x \div step + 1
    BY <2>5, NextBucket
  <2> QED
    BY <2>6 DEF x, y, KeyOf
<1> QED
  BY <1>4, <1>5 DEF GapShown, all

LEMMA TotalIsTrue == ASSUME HcTypeOK, DatesUp, ReadInv PROVE EnergyTotal
<1> SUFFICES ASSUME recs # <<>>, OneMeter, ~ Mixed
             PROVE  EnergyStats = recs[Len(recs)].wh - recs[FirstEnd].wh
  BY DEF EnergyTotal
<1>1. Balanced(json_history_, Len(recs))
  BY PointsAre DEF Good
<1>2. Len(recs) # 0
  BY HcTypes
<1>3. UsedAt(Len(recs)) = recs[Len(recs)].wh - recs[FirstEnd].wh
  BY <1>2 DEF UsedAt
<1> QED
  BY <1>1, <1>3, TotalIs DEF Balanced

LEMMA TotalIsPaid == ASSUME HcTypeOK, DatesUp, ReadInv, PaidFor PROVE NothingInvented
<1> DEFINE total == PtSum(json_history_)
<1>1. EnergyStats = total
  BY TotalIs
<1>2. used \in Nat /\ Len(recs) \in Nat
  BY HcTypes
<1>3. CASE recs = <<>>
  <2>1. total = 0
    BY <1>3, PointsAre, PtSumType
  <2> HIDE DEF total
  <2> QED
    BY <1>1, <1>2, <2>1 DEF NothingInvented
<1>4. CASE recs # <<>>
  <2> DEFINE n == Len(recs)
  <2>0. n # 0 /\ n \in 1 .. Len(recs)
    <3>1. recs \in Seq(Recorded)
      BY HcTypes
    <3> QED
      BY <1>4, <3>1
  <2>1. PICK u \in [1 .. Len(recs) -> Nat] : Paid(u)
    BY DEF PaidFor
  <2>2. Good(json_history_, n)
    BY <1>4, PointsAre
  <2>3. total <= PaidAt(u, n)
    BY <2>1, <2>2 DEF Good, Paying
  <2>4. PaidAt(u, n) = u[n] /\ u[n] <= used /\ u[n] \in Nat
    BY <2>0, <2>1 DEF PaidAt, Paid
  <2>5. total \in Int
    <3>1. json_history_ \in Seq(PointOf)
      BY <2>2 DEF Good, PtsDated
    <3> QED
      BY <3>1, PtSumType
  <2> HIDE DEF total, n
  <2>6. total <= used
    BY <1>2, <2>3, <2>4, <2>5
  <2> QED
    BY <1>1, <2>6 DEF NothingInvented
<1> QED
  BY <1>3, <1>4

\* The energy counted between the records was paid for, with the mark of a new meter kept.
LEMMA PaidInvariant == ASSUME ~ MarkLost PROVE HcSpec => [](HcIInv /\ PaidFor)
<1>1. HcIInv /\ PaidFor /\ [HcNext]_hcVars => (HcIInv /\ PaidFor)'
  BY HcStep
<1> QED
  BY <1>1, HcInitial, PTL DEF HcSpec

\* hist-tab.js: the bars are in the order of time and a hole is drawn as a gap; the total
\* under them is what one meter says was used since the first of them.
THEOREM BarsAreTrue == HcSpec => [](HcTypeOK /\ GapShown /\ EnergyTotal)
<1>1. HcIInv => HcTypeOK /\ GapShown /\ EnergyTotal
  BY GapsAreShown, TotalIsTrue DEF HcIInv
<1> QED
  BY <1>1, HcInvariant, PTL

\* HF_CONFIG_CHANGE (history_store.h:46): with the mark kept, the total is never more than
\* what has gone through the meters.
THEOREM NothingIsInvented == ASSUME ~ MarkLost PROVE HcSpec => []NothingInvented
<1>1. HcIInv /\ PaidFor => NothingInvented
  BY TotalIsPaid DEF HcIInv
<1> QED
  BY <1>1, PaidInvariant, PTL

-----------------------------------------------------------------------------
(* The instances of MCHistory.                                             *)

\* A behaviour of the instance is one of each of its parts: the one in focus takes its own
\* steps, the others take none.
LEMMA HistoryIsItself == HistorySpec => Spec /\ HtSpec /\ HcSpec /\ HrSpec
<1>1. HistoryInit => Init /\ HtInit /\ HcInit /\ HrInit
  BY DEF HistoryInit
<1>2. ASSUME [HistoryNext]_<<focus, vars, htVars, hcVars, hrVars>>
      PROVE  [Next]_vars /\ [HtNext]_htVars /\ [HcNext]_hcVars /\ [HrNext]_hrVars
  <2>1. CASE Next /\ UNCHANGED <<htVars, hcVars, hrVars>>
    BY <2>1
  <2>2. CASE HtNext /\ UNCHANGED <<vars, hcVars, hrVars>>
    BY <2>2
  <2>3. CASE HcNext /\ UNCHANGED <<vars, htVars, hrVars>>
    BY <2>3
  <2>4. CASE HrNext /\ UNCHANGED <<vars, htVars, hcVars>>
    BY <2>4
  <2>5. CASE UNCHANGED <<vars, htVars, hcVars, hrVars>>
    BY <2>5
  <2> QED
    BY <1>2, <2>1, <2>2, <2>3, <2>4, <2>5 DEF HistoryNext, Ended
<1> QED
  BY <1>1, <1>2, PTL DEF HistorySpec, Spec, HtSpec, HcSpec, HrSpec

\* hour.js, live-tab.js: beside the records and the other charts, each value of the last hour
\* is what the meter said at that time, and the line goes through all of them.
THEOREM HourStaysDrawn == HistorySpec => []HourDrawn
<1>1. HrTypeOK /\ HourTrue /\ RunsFaithful => HourDrawn
  BY DEF HourDrawn
<1> QED
  BY <1>1, HistoryIsItself, HourIsDrawn, PTL

\* hist-tab.js: beside the records and the other charts, a hole in the record is drawn as a gap.
THEOREM GapsStayDrawn == HistorySpec => []GapsDrawn
<1>1. HcTypeOK /\ GapShown /\ EnergyTotal => GapsDrawn
  BY DEF GapsDrawn
<1> QED
  BY <1>1, HistoryIsItself, BarsAreTrue, PTL

\* hist-tab.js: the total under the bars is what the meters counted, and never a step between
\* two meters, when no restart comes before the mark of a new profile is stored.
THEOREM EnergyStaysTrue == ASSUME ~ MarkLost PROVE HistorySpec => []EnergyTrue
<1>1. (HcTypeOK /\ GapShown /\ EnergyTotal) /\ NothingInvented => EnergyTrue
  BY DEF EnergyTrue
<1> QED
  BY <1>1, HistoryIsItself, BarsAreTrue, NothingIsInvented, PTL
=============================================================================

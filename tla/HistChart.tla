----------------------------- MODULE HistChart -----------------------------
(***************************************************************************)
(* From the stored quarter hours to the bars of the history tab: the       *)
(* device folds its records into buckets of Step quarter hours             *)
(* (GplugSmi::json_history_ and HistBucket in firmware/components/         *)
(* gplug_smi), the page draws a bar per bucket, one per bucket without a   *)
(* record, and sums them up (histBars, EnergyStats in                      *)
(* spa/src/live/hist-tab.js).                                              *)
(*                                                                         *)
(* One counter stands for import and export.  A record is                  *)
(* [qh, wh, silent, fresh]: its quarter hour or Unknown, the counter at its*)
(* end, no sample of the meter in it, first of a new meter configuration.  *)
(* The counter the device integrates itself when it has no reading yet is  *)
(* left out: the first interval after a start hears the meter.             *)
(***************************************************************************)
EXTENDS Integers, SequencesExt

CONSTANTS
  Ranges,     \* quarter hours per bucket, of the ranges
  Energy,     \* what the meter may count in a quarter hour
  Plausible,  \* energy per quarter hour beyond which a bucket's is dropped
  MarkLost,   \* a restart may come before the mark of a new profile is stored
  MaxBars,    \* bars at which no more gaps are drawn
  MaxPoints,  \* bound: records
  MaxQh       \* bound: quarter hours

ASSUME HistChartAssumption ==
  /\ Ranges \subseteq Nat \ {0} /\ Energy \subseteq Nat
  /\ {Plausible, MaxBars, MaxPoints} \subseteq Nat /\ MaxQh \in Nat \ {0}
  /\ MarkLost \in BOOLEAN

VARIABLES
  recs,   \* the store's records, oldest first
  clock,  \* [qh, set]: the quarter hour it is, and whether the device knows
  meter,  \* [wh, read, fresh]: the counter, what was last read of it, a new profile
  used,   \* the energy that has gone through the meters so far
  step    \* the range on display, by its bucket

hcVars == <<recs, clock, meter, used, step>>

UnknownQh == -1
NoWh  == -1
NoBucket == [key |-> UnknownQh]

HcInit == /\ recs = <<>> /\ clock \in [qh : {1}, set : BOOLEAN]
          /\ meter = [wh |-> 0, read |-> NoWh, fresh |-> FALSE]
          /\ used = 0 /\ step \in Ranges

-----------------------------------------------------------------------------
(* The device: intervals are closed, or missed *)

counted(e) == used' = used + e

\* hist_close_interval_: what was last read of the counter goes into the record.
closed(heard, e) ==
  LET wh == meter.wh + e
      rd == IF heard THEN wh ELSE meter.read
  IN /\ rd # NoWh
     /\ recs' = Append(recs, [qh |-> IF clock.set THEN clock.qh ELSE UnknownQh, wh |-> rd,
                              silent |-> ~heard, fresh |-> meter.fresh])
     /\ meter' = [wh |-> wh, read |-> rd, fresh |-> FALSE]

Interval ==
  /\ Len(recs) < MaxPoints /\ clock.qh < MaxQh
  /\ \E heard \in BOOLEAN, e \in Energy : closed(heard, e) /\ counted(e)
  /\ clock' = [clock EXCEPT !.qh = @ + 1]
  /\ UNCHANGED step

\* No power, or the clock jumped: a quarter hour without a record, the meter counting.
Missed ==
  /\ clock.qh < MaxQh
  /\ \E e \in Energy : meter' = [meter EXCEPT !.wh = @ + e] /\ counted(e)
  /\ clock' = [clock EXCEPT !.qh = @ + 1]
  /\ UNCHANGED <<recs, step>>

ClockSet == /\ ~clock.set /\ clock' = [clock EXCEPT !.set = TRUE]
            /\ UNCHANGED <<recs, meter, used, step>>

\* setup(): the clock, the readings and the marks not yet stored are gone.
Reboots ==
  /\ MarkLost \/ ~meter.fresh
  /\ clock' = [clock EXCEPT !.set = FALSE]
  /\ meter' = [meter EXCEPT !.read = NoWh, !.fresh = FALSE]
  /\ UNCHANGED <<recs, used, step>>

\* apply_meter_json_: another meter or profile; its counter starts elsewhere.
Replaced ==
  /\ ~meter.fresh
  /\ \E w \in Energy : meter' = [wh |-> w, read |-> NoWh, fresh |-> TRUE]
  /\ UNCHANGED <<recs, clock, used, step>>

HcNext == Interval \/ Missed \/ ClockSet \/ Reboots \/ Replaced
HcSpec == HcInit /\ [][HcNext]_hcVars

-----------------------------------------------------------------------------
(* What the device answers *)

\* HistBucket::delta: none without a reading before, or when the counter went back or
\* further than it can have.
delta(prev, cur) == IF prev = NoWh \/ cur < prev \/ cur - prev > step * Plausible
                    THEN NoWh ELSE cur - prev

\* Mutant: the mark of a new meter is not looked at.
flush_Unmarked(a) ==
  IF a.b = NoBucket THEN a
  ELSE [pts  |-> Append(a.pts, [qh |-> a.b.qh, silent |-> a.b.silent, fresh |-> a.b.fresh,
                                e  |-> delta(a.prev, a.b.wh)]),
        prev |-> a.b.wh,
        b    |-> NoBucket, i |-> a.i]

\* A bucket becomes a point: [qh, e, silent, fresh], e the energy since the one before.
flush(a) ==
  IF a.b = NoBucket THEN a
  ELSE [pts  |-> Append(a.pts, [qh |-> a.b.qh, silent |-> a.b.silent, fresh |-> a.b.fresh,
                                e  |-> IF a.b.fresh THEN NoWh ELSE delta(a.prev, a.b.wh)]),
        prev |-> a.b.wh,
        b    |-> NoBucket, i |-> a.i]

Begin(r, dated, key) == [key |-> key, dated |-> dated, qh |-> r.qh, wh |-> r.wh,
                         silent |-> r.silent, fresh |-> r.fresh]

\* HistBucket::add: the bucket's time and counter are its last record's.
add(b, r) == [b EXCEPT !.qh = r.qh, !.wh = r.wh, !.silent = @ \/ r.silent, !.fresh = @ \/ r.fresh]

folded(a, r) ==
  LET dated == r.qh # UnknownQh
      key   == (IF dated THEN r.qh ELSE a.i) \div step
      same  == a.b # NoBucket /\ a.b.key = key /\ a.b.dated = dated
      c     == IF same THEN a ELSE flush(a)
  IN [c EXCEPT !.b = IF same THEN add(@, r) ELSE Begin(r, dated, key), !.i = a.i + 1]

json_history_ ==
  flush(FoldLeft(folded, [pts |-> <<>>, prev |-> NoWh, b |-> NoBucket, i |-> 0], recs)).pts

-----------------------------------------------------------------------------
(* What the page draws *)

Bar(qh, v, missing) == [qh |-> qh, v |-> v, missing |-> missing]

\* Mutant: the number of gaps is rounded the other way.
Gaps_Fewer(prev, qh, room) ==
  LET n == IF qh - prev > step THEN (qh - prev) \div step - 1 ELSE 0
  IN [k \in 1..(IF n < room THEN n ELSE room) |-> Bar(prev + k * step, 0, TRUE)]

\* The gap bars between two dated points, as far as bars are left to draw.
Gaps(prev, qh, room) ==
  LET n == IF qh > prev THEN (qh - prev - 1) \div step ELSE 0
  IN [k \in 1..(IF n < room THEN n ELSE room) |-> Bar(prev + k * step, 0, TRUE)]

Room(bars) == IF Len(bars) < MaxBars THEN MaxBars - Len(bars) ELSE 0

barred(a, p) ==
  LET gaps == IF UnknownQh \in {p.qh, a.prev} THEN <<>> ELSE Gaps(a.prev, p.qh, Room(a.bars))
      bar  == Bar(p.qh, IF p.e = NoWh THEN 0 ELSE p.e, p.e = NoWh \/ p.silent)
  IN [bars |-> a.bars \o gaps \o <<bar>>, prev |-> IF p.qh = UnknownQh THEN a.prev ELSE p.qh]

histBars == FoldLeft(barred, [bars |-> <<>>, prev |-> UnknownQh], json_history_).bars

\* EnergyStats: the total under the chart counts the bars that are not missing.
EnergyStats == FoldLeft(LAMBDA a, b : IF b.missing THEN a ELSE a + b.v, 0, histBars)

-----------------------------------------------------------------------------
(* Properties *)

HcTypeOK ==
  /\ recs \in Seq([qh : {UnknownQh} \cup 1..MaxQh, wh : Nat,
                   silent : BOOLEAN, fresh : BOOLEAN])
  /\ clock \in [qh : 1..MaxQh, set : BOOLEAN] /\ step \in Ranges
  /\ meter \in [wh : Nat, read : Nat \cup {NoWh}, fresh : BOOLEAN]
  /\ used \in Nat

KeyOf(qh)  == qh \div step

\* hist-tab.js:100: a hole in the quarter hours is drawn as a gap and never closed: every
\* bucket between two dated bars has one of its own, in the order of time.
GapShown ==
  LET all   == histBars
      dated == {i \in DOMAIN all : all[i].qh # UnknownQh}
      next(i, j) == i < j /\ \A k \in dated : k <= i \/ j <= k
  IN /\ \A i, j \in dated : i < j => all[i].qh < all[j].qh
     /\ Len(all) < MaxBars =>
          \A i, j \in dated : next(i, j) => KeyOf(all[j].qh) <= KeyOf(all[i].qh) + 1

Bucket(i) == IF recs[i].qh = UnknownQh THEN <<FALSE, (i - 1) \div step>>
             ELSE <<TRUE, KeyOf(recs[i].qh)>>

\* A bucket in which the meter was heard in some quarter hours and not in others.
Mixed == \E i, j \in 1..Len(recs) :
           Bucket(i) = Bucket(j) /\ recs[i].silent /\ ~recs[j].silent

\* The meter is the one from the start, and every way between records is plausible.
OneMeter == \A i \in 1..Len(recs) :
              /\ ~recs[i].fresh
              /\ i > 1 => recs[i].wh - recs[i - 1].wh \in 0..Plausible

\* The last record of the first bar.
FirstEnd == CHOOSE g \in 1..Len(recs) : /\ \A i \in 1..g : Bucket(i) = Bucket(1)
                                        /\ g < Len(recs) => Bucket(g + 1) # Bucket(1)

\* hist-tab.js:97: in every range the total under the bars is what the counter says was
\* used since the first of them, whatever was missed or undated in between.
EnergyTotal == recs # <<>> /\ OneMeter /\ ~Mixed =>
                 EnergyStats = recs[Len(recs)].wh - recs[FirstEnd].wh

\* HF_CONFIG_CHANGE (history_store.h:46): the step between two meters' counters is never
\* taken for energy.
NothingInvented == EnergyStats <= used
=============================================================================

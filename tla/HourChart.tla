----------------------------- MODULE HourChart -----------------------------
(***************************************************************************)
(* The last hour on the live screen: the ring of samples the device keeps  *)
(* in RAM (GplugSmi::loop in firmware/components/gplug_smi), before it the *)
(* quarter hours it has stored, merged by lastHour (spa/src/hour.js) and   *)
(* cut into runs of one colour (Chart in spa/src/live/live-tab.js).        *)
(*                                                                         *)
(* A tick is the period of the ring.  Power is a small number, positive    *)
(* when drawn from the grid.                                               *)
(***************************************************************************)
EXTENDS Integers, SequencesExt

CONSTANTS
  Power,                 \* what the meter may say
  NoValue, Silent, Off,  \* no value; the meter says nothing; the device is off
  PerQuarter,            \* ticks of a quarter hour
  Window,                \* ticks of the window, WINDOW_S / period
  MaxTicks               \* bound: ticks

ASSUME HourChartAssumption ==
  /\ Power \subseteq Int /\ {PerQuarter, Window, MaxTicks} \subseteq Nat \ {0}
  /\ Window % PerQuarter = 0
  /\ \A x \in {NoValue, Silent, Off} : x \notin Int
  /\ Silent # Off

VARIABLES
  tick,      \* the tick of the newest sample
  heard,     \* at each tick: what the meter said, Silent, or Off when the device was
  ring,      \* the samples in RAM, oldest first
  averages,  \* the average of each quarter hour on flash; None without
  dayCopy    \* the page's copy of them

hrVars == <<tick, heard, ring, averages, dayCopy>>

QuarterOf(t) == t \div PerQuarter
Quarters     == 0..QuarterOf(MaxTicks)
\* The ticks since the start that fall into the quarter hour of t, up to t.
InQuarter(t) == {u \in 0..t : /\ QuarterOf(u) = QuarterOf(t)
                              /\ \A w \in u..t : heard[w] # Off}

HrInit ==
  /\ tick = 0 /\ heard = [t \in 0..MaxTicks |-> Off]
  /\ ring = <<>>
  /\ averages = [q \in Quarters |-> NoValue] /\ dayCopy = averages

-----------------------------------------------------------------------------
(* The device *)

Newest == IF ring = <<>> THEN 0 ELSE ring[Len(ring)]

\* QhAccum::add: the samples of the quarter hour of t with the meter heard.
Accum(t) ==
  FoldLeft(LAMBDA a, u : IF u \in InQuarter(t) /\ heard[u] \in Power
                         THEN [sum |-> a.sum + heard[u], n |-> a.n + 1] ELSE a,
           [sum |-> 0, n |-> 0], [u \in 1..t |-> u])

\* QhAccum::close: their mean, towards zero.
Mean(a) == IF a.n = 0 THEN NoValue
           ELSE IF a.sum < 0 THEN -((-a.sum) \div a.n) ELSE a.sum \div a.n

\* A sample: the registers as last read, 0 before the first telegram; the quarter hour
\* that has ended is stored.
sampled(x) ==
  LET t == tick + 1 IN
  /\ tick < MaxTicks /\ tick' = t
  /\ heard' = [heard EXCEPT ![t] = x]
  /\ ring' = Append(IF Len(ring) < Window THEN ring ELSE Tail(ring),
                    IF x = Silent THEN Newest ELSE x)
  /\ averages' = IF QuarterOf(t) # QuarterOf(tick) /\ heard[tick] # Off
                 THEN [averages EXCEPT ![QuarterOf(tick)] = Mean(Accum(tick))] ELSE averages
  /\ UNCHANGED dayCopy

Sampled == \E x \in Power \cup {Silent} : sampled(x)

\* No power for a tick, and a restart.
PowerCut ==
  /\ tick < MaxTicks /\ tick' = tick + 1
  /\ ring' = <<>>
  /\ UNCHANGED <<heard, averages, dayCopy>>

-----------------------------------------------------------------------------
(* The page *)

\* readHistory of live/index.js, every 5 minutes; ring and live values come with every poll.
readDay == /\ dayCopy # averages /\ dayCopy' = averages
           /\ UNCHANGED <<tick, heard, ring, averages>>

covered == Len(ring)

\* One slot of the hour: its value and where it is from.
slot(j) ==
  LET i == j - 1
      t == tick - Window + i          \* windowStart + i * period
  IN IF j > Window - covered THEN [v |-> ring[j - (Window - covered)], from |-> "ring"]
     ELSE IF t < 0 \/ dayCopy[QuarterOf(t)] = NoValue THEN [v |-> NoValue, from |-> "store"]
     ELSE [v |-> dayCopy[QuarterOf(t)], from |-> "store"]

\* lastHour: leading slots without a value are dropped.
lastHour ==
  LET all   == [j \in 1..Window |-> slot(j)]
      known == {j \in 1..Window : all[j].v # NoValue}
      first == IF known = {} THEN Window + 1 ELSE CHOOSE j \in known : \A k \in known : j <= k
  IN SubSeq(all, first, Window)

\* The time the readout gives slot i of n, and what it says of the value's source.
clockAt(i, n)  == tick - (n - i)
fromRing(i, n) == i > n - covered

HrNext == Sampled \/ PowerCut \/ readDay
HrSpec == HrInit /\ [][HrNext]_hrVars

-----------------------------------------------------------------------------
(* The runs the line is drawn in *)

Sign(v) == IF v >= 0 THEN 1 ELSE -1

\* A point is a slot, or the zero crossing before it: [i, cross].
Pt(i, cross) == [i |-> i, cross |-> cross]

\* Mutant: an unknown slot does not end the run.
extended_Bridged(vals, a, i) ==
  LET v    == vals[i]
      last == Len(a.runs)
  IN IF v = NoValue THEN a
     ELSE IF ~a.open
     THEN [runs |-> Append(a.runs, [sign |-> Sign(v), pts |-> <<Pt(i, FALSE)>>]), open |-> TRUE]
     ELSE IF Sign(v) # a.runs[last].sign
     THEN [runs |-> Append([a.runs EXCEPT ![last].pts = Append(@, Pt(i, TRUE))],
                           [sign |-> Sign(v), pts |-> <<Pt(i, TRUE), Pt(i, FALSE)>>]),
           open |-> TRUE]
     ELSE [a EXCEPT !.runs[last].pts = Append(@, Pt(i, FALSE))]

\* a is the runs so far and whether the last one goes on.
extended(vals, a, i) ==
  LET v    == vals[i]
      last == Len(a.runs)
  IN IF v = NoValue THEN [a EXCEPT !.open = FALSE]
     ELSE IF ~a.open
     THEN [runs |-> Append(a.runs, [sign |-> Sign(v), pts |-> <<Pt(i, FALSE)>>]), open |-> TRUE]
     ELSE IF Sign(v) # a.runs[last].sign
     THEN [runs |-> Append([a.runs EXCEPT ![last].pts = Append(@, Pt(i, TRUE))],
                           [sign |-> Sign(v), pts |-> <<Pt(i, TRUE), Pt(i, FALSE)>>]),
           open |-> TRUE]
     ELSE [a EXCEPT !.runs[last].pts = Append(@, Pt(i, FALSE))]

runs(vals) == FoldLeft(LAMBDA a, i : extended(vals, a, i), [runs |-> <<>>, open |-> FALSE],
                       [i \in 1..Len(vals) |-> i]).runs

-----------------------------------------------------------------------------
(* Properties *)

HrTypeOK ==
  /\ tick \in 0..MaxTicks /\ heard \in [0..MaxTicks -> Power \cup {Silent, Off}]
  /\ ring \in Seq(Int) /\ Len(ring) <= Window
  /\ {averages, dayCopy} \subseteq [Quarters -> Int \cup {NoValue}]

\* What the meter said in the quarter hour of t.
Said(t) == {heard[u] : u \in {w \in 0..tick : QuarterOf(w) = QuarterOf(t)}} \ {Silent, Off}

Between(v, t) == \E lo, hi \in Said(t) : lo <= v /\ v <= hi

\* hour.js:6-13: each slot of the chart is what the meter said at the time the readout
\* gives it, or, marked as such, within what it said in that quarter hour (to one sample),
\* and is empty only when neither the ring nor the page's copy of the store has it.
HourTrue ==
  LET hour == lastHour
      n    == Len(hour)
  IN \A i \in 1..n :
       LET t == clockAt(i, n)
           s == hour[i]
       IN /\ fromRing(i, n) = (s.from = "ring")
          /\ s.from = "ring" => s.v = heard[t] \/ heard[t] = Silent
          /\ s.from = "store" /\ s.v # NoValue => Between(s.v, t) \/ Between(s.v, t - 1)
          /\ s.v = NoValue => /\ tick - t >= Len(ring)
                              /\ t > 0 => dayCopy[QuarterOf(t - 1)] = NoValue

\* The runs rs go through all the values.
DrawnBy(rs, vals) ==
  LET At(d)     == rs[d[1]].pts[d[2]]
      Drawn     == {d \in UNION {{k} \X DOMAIN rs[k].pts : k \in DOMAIN rs} : ~At(d).cross}
      Before(d, e) == d[1] < e[1] \/ (d[1] = e[1] /\ d[2] < e[2])
      \* The last slot of a run and the first one of the next.
      Meet(k) == \E d, e \in Drawn : d[1] = k /\ e[1] = k + 1 /\ At(e).i = At(d).i + 1
  IN /\ {At(d).i : d \in Drawn} = {i \in 1..Len(vals) : vals[i] # NoValue}
     /\ \A d, e \in Drawn : Before(d, e) => At(d).i < At(e).i
     /\ \A d \in Drawn : Sign(vals[At(d).i]) = rs[d[1]].sign
     /\ \A k \in DOMAIN rs : \A m \in 1..Len(rs[k].pts) - 1 :
          rs[k].pts[m + 1].i - rs[k].pts[m].i \in 0..1
     /\ \A k \in 1..Len(rs) - 1 :
          LET end == rs[k].pts[Len(rs[k].pts)]
              beg == rs[k + 1].pts[1]
          IN IF Meet(k) THEN end = beg /\ end.cross /\ rs[k].sign # rs[k + 1].sign
             ELSE ~end.cross /\ ~beg.cross

\* live-tab.js:91: every known slot is drawn once, in order; a run is of one sign and
\* without a break, and two that meet share the point where the line crosses zero.
RunsFaithful ==
  LET vals == [i \in 1..Len(lastHour) |-> lastHour[i].v] IN DrawnBy(runs(vals), vals)
=============================================================================

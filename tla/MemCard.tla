------------------------------- MODULE MemCard ------------------------------
(***************************************************************************)
(* The Memory card (live/mem-card.js) over the heap trend it draws: the    *)
(* samples of the device's ring (HeapStream) carry the uptime they were    *)
(* taken at and nothing else, and the card gives each of them a time of    *)
(* day and lets the user point at one (useScrub, scrub.js).                *)
(*                                                                         *)
(* Time is counted in ticks, of which Period make the distance of two      *)
(* samples; sample q is taken at tick q * Period.  A figure on the card is *)
(* the sample it is from, or AtLoad for one of /api/status, which the card *)
(* falls back to.                                                          *)
(***************************************************************************)
EXTENDS HeapStream, Integers, Functions

CONSTANTS
  Period,   \* MEM_PERIOD_MS and MEM_POLL_MS, in ticks
  Delay,    \* ticks an answer takes at most, from its request
  FirstUp,  \* uptime of the first sample
  Cycle,    \* uptime at which millis() wraps
  MaxClock  \* bound: ticks

\* An answer is sent in less than a period, and a trend is much shorter than a turn of millis().
ASSUME MemCardAssumption ==
  /\ {Period, Delay, FirstUp, Cycle, MaxClock} \subseteq Nat
  /\ Delay < Period /\ FirstUp < Cycle /\ Cycle > (N + 2) * Period

VARIABLES
  clock,   \* ticks since the first sample
  begun,   \* when the answer on its way was begun
  card,    \* [open, trend, shown]: the trend drawn, and the figure of the summary
  load,    \* MemBody's request of the trend: [asked, since], ticks since it was made
  back     \* useScrub: how far from the newest sample the user points, or None

cardVars == <<clock, begun, card, load, back>>
mcdVars  == <<ring, request, cardVars>>

None    == -1
AtLoad  == -2
NoTrend == [samples |-> <<>>, begun |-> 0, at |-> 0]

UpAt(t) == (FirstUp + t) % Cycle

CdInit ==
  /\ clock = 0 /\ begun = 0
  /\ card = [open |-> FALSE, trend |-> NoTrend, shown |-> None]
  /\ load = [asked |-> "no", since |-> 0]
  /\ back = None

-----------------------------------------------------------------------------
(* The device *)

\* mem_service_: a sample when a period has passed.
Due == pushed * Period <= clock
Sampled == Due /\ Push /\ UNCHANGED cardVars

\* handle_heap_: the uptime is that of the begin of the answer.
Serve == /\ load.asked = "queued" /\ Open
         /\ begun' = clock
         /\ load' = [load EXCEPT !.asked = "running"]
         /\ UNCHANGED <<clock, card, back>>

AnswerStep == (CopyBatch \/ Close \/ Send \/ ClientGone) /\ UNCHANGED cardVars

-----------------------------------------------------------------------------
(* The card *)

Points == Len(card.trend.samples)

\* Mutant: the wrap of millis() is not looked at.
sampleAt_Unwrapped(trend, i) == trend.at - (UpAt(trend.begun) - UpAt(trend.samples[i] * Period))

\* sampleAt: the time of day of sample i, counted from the uptime at the fetch or, for a
\* sample from before the wrap, in samples from the newest.
sampleAt(trend, i) ==
  LET up     == UpAt(trend.samples[i] * Period)
      uptime == UpAt(trend.begun)
  IN trend.at - (IF up <= uptime THEN uptime - up ELSE (Len(trend.samples) - i) * Period)

\* MemBody: the figure of the rows, from the trend once it is drawn.
Drawn(trend) == Len(trend.samples) >= 2
free(trend)  == IF Drawn(trend) THEN trend.samples[Len(trend.samples)] ELSE AtLoad

OpenCard ==
  /\ ~card.open
  /\ card' = [open |-> TRUE, trend |-> NoTrend, shown |-> AtLoad]
  /\ load' = [asked |-> "queued", since |-> 0]
  /\ UNCHANGED <<ring, request, clock, begun, back>>

\* An answer still on its way is dropped.
CloseCard ==
  /\ card.open
  /\ card' = [card EXCEPT !.open = FALSE, !.trend = NoTrend]
  /\ load' = [asked |-> "no", since |-> 0] /\ back' = None
  /\ UNCHANGED <<ring, request, clock, begun>>

LoadAgain ==
  /\ card.open /\ load = [asked |-> "no", since |-> Period]
  /\ load' = [asked |-> "queued", since |-> 0]
  /\ UNCHANGED <<ring, request, clock, begun, card, back>>

TrendArrives ==
  /\ load.asked = "running" /\ pc = "done"
  /\ LET trend == [samples |-> sent, begun |-> begun, at |-> clock]
     IN card' = [card EXCEPT !.trend = trend, !.shown = free(trend)]
  /\ load' = [load EXCEPT !.asked = "no"]
  /\ UNCHANGED <<ring, request, clock, begun, back>>

TrendFails ==
  /\ load.asked # "no" /\ load' = [load EXCEPT !.asked = "no"]
  /\ UNCHANGED <<ring, request, clock, begun, card, back>>

clamp(i)  == IF i < 0 THEN 0 ELSE IF i > Points - 1 THEN Points - 1 ELSE i
\* useScrub's i, from 0: the sample under the guide.
Selected  == IF back # None /\ Drawn(card.trend) THEN clamp(Points - 1 - back) ELSE None
set(i)    == back' = Points - 1 - clamp(i)
Big       == IF Points < 18 THEN 1 ELSE (Points + 6) \div 12

\* The user points somewhere, presses a key, or lets go.
Scrub ==
  /\ card.open /\ Drawn(card.trend)
  /\ LET cur == IF Selected = None THEN Points - 1 ELSE Selected
     IN \/ \E i \in 0 .. Points - 1 : set(i)
        \/ \E d \in {1, Big} : set(cur - d) \/ set(cur + d)
        \/ back # None /\ back' = None
  /\ UNCHANGED <<ring, request, clock, begun, card, load>>

\* The timer and the device are in time, and an answer is there within Delay or not at all.
MemTick ==
  /\ clock < MaxClock /\ ~Due /\ load # [asked |-> "no", since |-> Period]
  /\ load.asked # "no" => load.since < Delay
  /\ clock' = clock + 1
  /\ load' = [load EXCEPT !.since = IF card.open /\ @ < Period THEN @ + 1 ELSE @]
  /\ UNCHANGED <<ring, request, begun, card, back>>

CdNext == \/ Sampled \/ Serve \/ AnswerStep
          \/ OpenCard \/ CloseCard \/ LoadAgain \/ TrendArrives \/ TrendFails \/ Scrub \/ MemTick
CdSpec == CdInit /\ RingInit /\ [][CdNext]_mcdVars

-----------------------------------------------------------------------------
(* Properties *)

\* A sample was taken while its answer was sent, and millis() wrapped between the two: it
\* passes for one taken a turn of millis() ago.
WrappedMeanwhile ==
  \E q \in Range(card.trend.samples) :
    q * Period > card.trend.begun /\ UpAt(q * Period) < UpAt(card.trend.begun)

\* mem-card.js:21-23: the times under the trend never decrease, and each is that of its sample
\* "off by at most one period" (and the time its answer took), across the wrap of millis()
\* and when samples are taken while the answer is sent.
TrendDated ==
  LET s == card.trend.samples IN
  ~WrappedMeanwhile => \A i \in DOMAIN s :
    /\ sampleAt(card.trend, i) - s[i] * Period \in 0 .. Period + Delay
    /\ \A j \in DOMAIN s : i < j => sampleAt(card.trend, i) <= sampleAt(card.trend, j)

\* scrub.js:11-14 and mem-card.js:62-64: the guide stands on a sample of the trend however
\* the trend grew or shrank under it, and rows, summary and the line's end are one sample.
CardAgrees ==
  /\ Selected \in {None} \cup 0 .. Points - 1
  /\ Drawn(card.trend) => /\ card.open /\ card.shown = card.trend.samples[Points]
                          /\ back # None => Selected # None

CardTrue == TrendDated /\ CardAgrees
=============================================================================

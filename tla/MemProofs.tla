------------------------------ MODULE MemProofs ------------------------------
(***************************************************************************)
(* Proofs about the rings in RAM: the memory watch, MemService with its    *)
(* parts, the card and the frame stream that draw from them.               *)
(*                                                                         *)
(* LowLatch: one report per excursion for every value of the constants,    *)
(* the hold-off and the report of a lasting shortage as long as millis()   *)
(* does not wrap.  HeapStream: an answer has every sample once and in      *)
(* order, however often the ring turns while it is sent.  MemCard: the     *)
(* card dates every sample within a period and an answer, and its guide    *)
(* and its rows stand on the same one.  StreamTab: the text under a header *)
(* is that frame's, as long as the device does not restart.                *)
(***************************************************************************)
EXTENDS MemService, MemCard, StreamTab, TLAPS

-----------------------------------------------------------------------------
(* The latch.                                                              *)

\* millis() does not wrap within the run.
NoWrap == MaxTime < Wrap

\* What the flags say of each other: disarmed, the excursion has been reported;
\* armed, a clear recovery came since.
FlagsInv ==
  /\ armed \in BOOLEAN /\ fired \in BOOLEAN /\ told \in BOOLEAN /\ cleared \in BOOLEAN
  /\ ~ armed => fired
  /\ armed => cleared
  /\ ~ told => armed

\* The figures: the latest report lies in the past, a run of low samples is no
\* longer than the run.
FiguresInv ==
  /\ now \in 0 .. MaxTime /\ lastS \in 0 .. Wrap - 1
  /\ lowRun \in 0 .. now
  /\ reportedAt # Never => reportedAt \in 0 .. now - 1

LatchInv ==
  /\ FlagsInv
  /\ FiguresInv
  /\ fired <=> reportedAt # Never

\* The samples of an unreported excursion all fell into the hold-off.
HoldoffInv ==
  /\ reportedAt # Never => lastS = reportedAt
  /\ ~ told /\ lowRun > 0 => /\ reportedAt # Never
                             /\ reportedAt + lowRun < now
                             /\ now - 1 - reportedAt < Holdoff

\* What the proofs use of LatchSizesAssumption.
LEMMA Sizes ==
  /\ Holdoff \in Nat /\ Wrap \in Nat /\ Modulus \in Nat /\ MaxTime \in Nat
  /\ 0 < Wrap /\ Wrap <= Modulus
BY LatchSizesAssumption

\* A sample reports, or leaves the latch waiting or armed; what it does to each
\* flag and figure.
LEMMA UpdateCases ==
  ASSUME LatchInv, NEW level \in Levels, Update(level)
  PROVE  /\ FlagsInv'
         /\ now' = now + 1 /\ now < MaxTime
         /\ \/ Reports(level) /\ fired' /\ lastS' = Up /\ reportedAt' = now
            \/ ~ Reports(level) /\ UNCHANGED <<fired, lastS, reportedAt>>
         /\ lowRun' = lowRun + 1 \/ lowRun' = 0
<1>1. /\ now' = now + 1 /\ now < MaxTime
      /\ lowRun' = lowRun + 1 \/ lowRun' = 0
  BY DEF Update
<1>2. CASE ~ armed
  <2>1. ~ Reports(level) /\ UNCHANGED <<fired, lastS, reportedAt>>
    BY <1>2 DEF Update, Latch, Reports
  <2>2. /\ told' = IF level = "clear" THEN FALSE ELSE told
        /\ cleared' = (cleared \/ level = "clear")
        /\ armed' = (level = "clear")
    BY <1>2, <2>1 DEF Update, Latch, Rearms, LatchInv, FlagsInv
  <2>3. FlagsInv'
    BY <1>2, <2>1, <2>2 DEF LatchInv, FlagsInv
  <2> QED
    BY <1>1, <2>1, <2>3
<1>3. CASE armed /\ Reports(level)
  <2>1. fired' /\ lastS' = Up /\ reportedAt' = now /\ fired' \in BOOLEAN
    BY <1>3 DEF Update, Latch
  <2>2. level = "low" /\ Trips(level)
    BY <1>3 DEF Reports, Trips
  <2>3. armed' = FALSE /\ told' = TRUE /\ cleared' = FALSE
    BY <1>3, <2>2 DEF Update, Latch, LatchInv, FlagsInv
  <2>4. FlagsInv'
    BY <2>1, <2>3 DEF FlagsInv
  <2> QED
    BY <1>1, <1>3, <2>1, <2>4
<1>4. CASE armed /\ ~ Reports(level)
  <2>1. ~ Trips(level)
    BY <1>4 DEF Reports, Trips
  <2>2. UNCHANGED <<fired, lastS, reportedAt>> /\ armed' = TRUE
    BY <1>4, <2>1 DEF Update, Latch
  <2>3. /\ told' = IF level = "clear" THEN FALSE ELSE told
        /\ cleared' = (cleared \/ level = "clear")
    BY <1>4 DEF Update, LatchInv, FlagsInv
  <2>4. FlagsInv'
    BY <1>4, <2>2, <2>3 DEF LatchInv, FlagsInv
  <2> QED
    BY <1>1, <1>4, <2>2, <2>4
<1> QED
  BY <1>2, <1>3, <1>4

\* LatchInv is inductive: the latch starts armed and every sample keeps it.
THEOREM LatchInvariant == LatchSpec => []LatchInv
<1>1. LatchInit => LatchInv
  <2> SUFFICES ASSUME LatchInit PROVE LatchInv
    OBVIOUS
  <2>1. FlagsInv
    BY DEF LatchInit, FlagsInv
  <2>2. FiguresInv
    BY Sizes DEF LatchInit, FiguresInv, Never
  <2>3. ~ fired /\ reportedAt = Never
    BY DEF LatchInit
  <2> QED
    BY <2>1, <2>2, <2>3 DEF LatchInv
<1>2. LatchInv /\ [LatchNext]_latchVars => LatchInv'
  <2> SUFFICES ASSUME LatchInv, [LatchNext]_latchVars PROVE LatchInv'
    OBVIOUS
  <2>1. ASSUME NEW level \in Levels, Update(level) PROVE LatchInv'
    <3>1. Up \in 0 .. Wrap - 1
      BY Sizes DEF Up, LatchInv, FiguresInv
    <3>2. FlagsInv'
      BY <2>1, UpdateCases
    <3>3. FiguresInv'
      <4>1. CASE Reports(level)
        BY <2>1, <3>1, <4>1, UpdateCases, Sizes DEF LatchInv, FiguresInv
      <4>2. CASE ~ Reports(level)
        BY <2>1, <4>2, UpdateCases, Sizes DEF LatchInv, FiguresInv
      <4> QED
        BY <4>1, <4>2
    <3>4. fired' <=> reportedAt' # Never
      <4>1. CASE Reports(level)
        <5>1. now # Never
          BY Sizes DEF LatchInv, FiguresInv, Never
        <5> QED
          BY <2>1, <4>1, <5>1, UpdateCases DEF Never
      <4>2. CASE ~ Reports(level)
        BY <2>1, <4>2, UpdateCases DEF LatchInv, Never
      <4> QED
        BY <4>1, <4>2
    <3> QED
      BY <3>2, <3>3, <3>4 DEF LatchInv
  <2>2. CASE UNCHANGED latchVars
    BY <2>2 DEF LatchInv, FlagsInv, FiguresInv, Never, latchVars, latch
  <2> QED
    BY <2>1, <2>2 DEF LatchNext, Levels
<1> QED
  BY <1>1, <1>2, PTL DEF LatchSpec

\* The figures of the latch and of the history stay in their ranges.
THEOREM LatchTypeCorrect == LatchSpec => []LatchTypeOK
<1>1. LatchInv => LatchTypeOK
  <2> SUFFICES ASSUME LatchInv PROVE LatchTypeOK
    OBVIOUS
  <2>1. now \in 0 .. MaxTime /\ lastS \in 0 .. Wrap - 1 /\ lowRun \in 0 .. MaxTime
    BY Sizes DEF LatchInv, FiguresInv
  <2>2. reportedAt \in {Never} \cup 0 .. MaxTime
    BY Sizes DEF LatchInv, FiguresInv
  <2> QED
    BY <2>1, <2>2 DEF LatchInv, FlagsInv, LatchTypeOK
<1> QED
  BY <1>1, LatchInvariant, PTL

\* Between two reports the figure recovered clearly: a heap at the threshold is
\* not logged at every sample.
THEOREM OneReportPerExcursion == LatchSpec => OncePerExcursion
<1>1. LatchInv /\ [LatchNext]_latchVars => [reportedAt' # reportedAt => cleared]_latchVars
  <2> SUFFICES ASSUME LatchInv, [LatchNext]_latchVars, reportedAt' # reportedAt PROVE cleared
    OBVIOUS
  <2>1. PICK level \in Levels : Update(level)
    BY DEF LatchNext, Levels, latchVars
  <2> QED
    BY <2>1 DEF Update, Reports, LatchInv, FlagsInv
<1> QED
  BY <1>1, LatchInvariant, PTL DEF LatchSpec, OncePerExcursion

\* Without a wrap the unsigned difference of uptimes is the time gone by.
LEMMA HeldOffMeaning ==
  ASSUME NoWrap, LatchInv, HoldoffInv, now < MaxTime, reportedAt # Never
  PROVE  /\ Up = now
         /\ HeldOff <=> now - reportedAt < Holdoff
<1> USE Sizes
<1>1. now \in Nat /\ reportedAt \in Nat /\ reportedAt < now /\ now < Wrap /\ Wrap <= Modulus
  BY DEF NoWrap, LatchInv, FiguresInv, Never
<1>2. Up = now
  BY <1>1 DEF Up
<1>3. (Up - lastS) % Modulus = now - reportedAt
  <2>1. lastS = reportedAt
    BY DEF HoldoffInv
  <2>2. now - reportedAt \in 0 .. Modulus - 1
    BY <1>1
  <2> QED
    BY <1>2, <2>1, <2>2
<1> QED
  BY <1>2, <1>3 DEF HeldOff, LatchInv

\* HoldoffInv is inductive relative to LatchInv while millis() does not wrap.
THEOREM HoldoffInvariant == NoWrap => (LatchSpec => []HoldoffInv)
<1> SUFFICES ASSUME NoWrap PROVE LatchSpec => []HoldoffInv
  OBVIOUS
<1> USE Sizes
<1>1. LatchInit => HoldoffInv
  BY DEF LatchInit, HoldoffInv, Never
<1>2. LatchInv /\ HoldoffInv /\ [LatchNext]_latchVars => HoldoffInv'
  <2> SUFFICES ASSUME LatchInv, HoldoffInv, [LatchNext]_latchVars PROVE HoldoffInv'
    OBVIOUS
  <2>1. ASSUME NEW level \in Levels, Update(level) PROVE HoldoffInv'
    <3>1. now < MaxTime /\ now \in Nat /\ now' = now + 1 /\ Up = now
      BY <2>1 DEF Update, NoWrap, LatchInv, FiguresInv, Up
    <3>2. CASE Reports(level)
      BY <2>1, <3>1, <3>2 DEF Update, Latch, Reports, HoldoffInv, LatchInv, FiguresInv, Never
    <3>3. CASE ~ Reports(level)
      <4>1. reportedAt' = reportedAt /\ lastS' = lastS
        BY <2>1, <3>3 DEF Update, Latch
      <4>2. reportedAt' # Never => lastS' = reportedAt'
        BY <4>1 DEF HoldoffInv
      <4>3. ASSUME ~ told', lowRun' > 0
            PROVE  /\ reportedAt # Never /\ reportedAt + lowRun' < now + 1
                   /\ now - reportedAt < Holdoff
        <5>1. level = "low" /\ lowRun' = lowRun + 1 /\ ~ told
          <6>1. level = "low" /\ lowRun' = lowRun + 1
            <7>1. ~ (0 > 0)
              OBVIOUS
            <7> QED
              BY <2>1, <4>3, <7>1 DEF Update
          <6>2. told' = (told \/ Reports(level))
            BY <2>1, <6>1 DEF Update
          <6> QED
            BY <4>3, <6>1, <6>2
        <5>2. armed /\ HeldOff
          <6>1. armed
            BY <5>1 DEF LatchInv, FlagsInv
          <6> QED
            BY <3>3, <5>1, <6>1 DEF Reports
        <5>3. reportedAt # Never
          BY <5>2 DEF HeldOff, LatchInv
        <5>4. now - reportedAt < Holdoff
          BY <3>1, <5>2, <5>3, HeldOffMeaning
        <5>5. reportedAt + lowRun < now
          BY <5>1, <5>3 DEF HoldoffInv, LatchInv, FiguresInv
        <5> QED
          BY <5>1, <5>3, <5>4, <5>5 DEF LatchInv, FiguresInv
      <4> QED
        BY <3>1, <4>1, <4>2, <4>3 DEF HoldoffInv, LatchInv, FiguresInv
    <3> QED
      BY <3>2, <3>3
  <2>2. CASE UNCHANGED latchVars
    BY <2>2 DEF HoldoffInv, latchVars, latch
  <2> QED
    BY <2>1, <2>2 DEF LatchNext, Levels
<1> QED
  BY <1>1, <1>2, LatchInvariant, PTL DEF LatchSpec

\* A shortage that outlasts the hold-off has been reported.
THEOREM LastingLowReported == NoWrap => (LatchSpec => []LastingLowTold)
<1>1. LatchInv /\ HoldoffInv => LastingLowTold
  BY Sizes DEF LatchInv, FiguresInv, HoldoffInv, LastingLowTold
<1> QED
  BY <1>1, LatchInvariant, HoldoffInvariant, PTL

\* Two reports are at least the hold-off apart.
THEOREM ReportsApart == NoWrap => (LatchSpec => HoldoffKept)
<1> SUFFICES ASSUME NoWrap PROVE LatchSpec => HoldoffKept
  OBVIOUS
<1>1. LatchInv /\ HoldoffInv /\ [LatchNext]_latchVars =>
        [reportedAt' # reportedAt /\ reportedAt # Never => reportedAt' - reportedAt >= Holdoff]_latchVars
  <2> SUFFICES ASSUME LatchInv, HoldoffInv, [LatchNext]_latchVars,
                      reportedAt' # reportedAt, reportedAt # Never
               PROVE  reportedAt' - reportedAt >= Holdoff
    OBVIOUS
  <2>1. PICK level \in Levels : Update(level)
    BY DEF LatchNext, Levels, latchVars
  <2>2. reportedAt' = now /\ ~ HeldOff /\ now < MaxTime
    BY <2>1 DEF Update, Reports
  <2> QED
    BY <2>2, HeldOffMeaning, Sizes DEF LatchInv, FiguresInv
<1> QED
  BY <1>1, LatchInvariant, HoldoffInvariant, PTL DEF LatchSpec, HoldoffKept

-----------------------------------------------------------------------------
(* The ring of samples.                                                    *)

\* What the proofs use of RingSizesAssumption.
LEMMA RingSizes == N \in Nat /\ N > 0 /\ Batch \in Nat /\ Batch > 0 /\ MaxPushes \in Nat
BY RingSizesAssumption

\* A sum of less than two turns, reduced to a place in the ring.
LEMMA OneTurn ==
  ASSUME NEW x \in Nat, x < N + N
  PROVE  x % N = IF x < N THEN x ELSE x - N
<1>1. \A y \in Nat : y < N => y % N = y /\ (y + N) % N = y
  BY RingSizes
<1>2. CASE x < N
  BY <1>1, <1>2
<1>3. CASE ~ (x < N)
  <2> DEFINE y == x - N
  <2>1. y \in Nat /\ y < N /\ x = y + N
    BY <1>3, RingSizes
  <2>2. (y + N) % N = y
    BY <1>1, <2>1
  <2> QED
    BY <1>3, <2>1, <2>2
<1> QED
  BY <1>2, <1>3

\* The place of the i-th of c samples behind the head h.
LEMMA PlaceOf ==
  ASSUME NEW h \in 0 .. N - 1, NEW c \in 0 .. N, NEW i \in 0 .. c - 1
  PROVE  (h + N - c + i) % N = IF i < c - h THEN h + N - c + i ELSE h - c + i
<1>1. h + N - c + i \in Nat /\ h + N - c + i < N + N
  BY RingSizes
<1>2. (h + N - c + i) % N =
        IF h + N - c + i < N THEN h + N - c + i ELSE (h + N - c + i) - N
  BY <1>1, OneTurn
<1> QED
  BY <1>2, RingSizes

\* The ring holds the latest samples, at(0) the oldest of them.
HeapRing ==
  /\ pushed \in Nat /\ count \in 0 .. N /\ count <= pushed /\ head \in 0 .. N - 1
  /\ buf \in [0 .. N - 1 -> Nat]
  /\ \A i \in 0 .. count - 1 : At(i) = Oldest + i

\* A sample pushed replaces the oldest one of a full ring, and no other.
LEMMA PushKeepsRing ==
  ASSUME HeapRing, Push
  PROVE  HeapRing' /\ pushed' = pushed + 1 /\ Oldest <= Oldest'
<1>1. /\ head \in 0 .. N - 1 /\ count \in 0 .. N /\ pushed \in Nat /\ count <= pushed
      /\ buf' = [buf EXCEPT ![head] = pushed] /\ head' = (head + 1) % N /\ pushed' = pushed + 1
      /\ count' = IF count < N THEN count + 1 ELSE count
  BY DEF HeapRing, Push
<1>2. head' = IF head = N - 1 THEN 0 ELSE head + 1
  BY <1>1, RingSizes, OneTurn
<1>3. /\ head' \in 0 .. N - 1 /\ count' \in 0 .. N /\ pushed' \in Nat /\ count' <= pushed'
      /\ Oldest <= Oldest'
  BY <1>1, <1>2, RingSizes DEF Oldest
<1>4. buf' \in [0 .. N - 1 -> Nat]
  BY <1>1 DEF HeapRing
<1>5. ASSUME NEW i \in 0 .. count' - 1 PROVE At(i)' = Oldest' + i
  <2> DEFINE p == (head' + N - count' + i) % N
  <2>1. p = IF i < count' - head' THEN head' + N - count' + i ELSE head' - count' + i
    BY <1>3, <1>5, PlaceOf
  <2>2. At(i)' = buf'[p]
    BY DEF At
  <2>3. CASE i = count' - 1
    <3>1. p = head
      BY <1>1, <1>2, <1>3, <2>1, <2>3, RingSizes
    <3>2. buf'[head] = pushed
      BY <1>1 DEF HeapRing
    <3>3. Oldest' + i = pushed
      BY <1>1, <1>3, <2>3, RingSizes DEF Oldest
    <3> QED
      BY <2>2, <3>1, <3>2, <3>3
  <2>4. CASE i # count' - 1 /\ count < N
    <3>0. i \in 0 .. count - 1 /\ count' = count + 1
      BY <1>1, <1>5, <2>4, RingSizes
    <3> DEFINE r == (head + N - count + i) % N
    <3>1. r = IF i < count - head THEN head + N - count + i ELSE head - count + i
      BY <1>1, <3>0, PlaceOf
    <3>2. p = r /\ r # head /\ r \in 0 .. N - 1
      BY <1>1, <1>2, <2>1, <2>4, <3>0, <3>1, RingSizes
    <3>3. buf'[r] = buf[r]
      BY <1>1, <3>2 DEF HeapRing
    <3>4. buf[r] = Oldest + i
      BY <3>0 DEF HeapRing, At
    <3>5. Oldest' = Oldest
      BY <1>1, <3>0, RingSizes DEF Oldest
    <3> QED
      BY <2>2, <3>2, <3>3, <3>4, <3>5
  <2>5. CASE i # count' - 1 /\ ~ (count < N)
    <3>0. i + 1 \in 0 .. count - 1 /\ count' = count /\ count = N /\ i \in Nat
      BY <1>1, <1>5, <2>5, RingSizes
    <3> DEFINE r == (head + N - count + (i + 1)) % N
    <3>1. r = IF i + 1 < count - head THEN head + N - count + (i + 1) ELSE head - count + (i + 1)
      BY <1>1, <3>0, PlaceOf
    <3>2. p = r /\ r # head /\ r \in 0 .. N - 1
      BY <1>1, <1>2, <2>1, <2>5, <3>0, <3>1, RingSizes
    <3>3. buf'[r] = buf[r]
      BY <1>1, <3>2 DEF HeapRing
    <3>4. buf[r] = Oldest + (i + 1)
      BY <3>0 DEF HeapRing, At
    <3>5. Oldest' = Oldest + 1 /\ Oldest \in Int
      BY <1>1, <3>0, RingSizes DEF Oldest
    <3> QED
      BY <2>2, <3>0, <3>2, <3>3, <3>4, <3>5
  <2> QED
    BY <2>3, <2>4, <2>5
<1> QED
  BY <1>1, <1>3, <1>4, <1>5 DEF HeapRing

-----------------------------------------------------------------------------
(* The answer to a request.                                                *)

\* Sample q is in sequence s.
In(s, q) == \E i \in DOMAIN s : s[i] = q

\* All samples of s come before those of t.
Precedes(s, t) == \A i \in DOMAIN s, j \in DOMAIN t : s[i] < t[j]

Ascending(s) == \A i, j \in DOMAIN s : i < j => s[i] < s[j]

\* What has been sent and the batch under way ascend to the position reached, and
\* miss nothing below it but what the ring has dropped.
AnswerInv ==
  /\ next \in Nat /\ next <= pushed /\ opened \in Nat /\ opened <= pushed
  /\ sent \in Seq(Nat) /\ out \in Seq(Nat)
  /\ pc \in {"copy", "done"} => out = <<>>
  /\ Ascending(sent) /\ Ascending(out) /\ Precedes(sent, out)
  /\ \A i \in DOMAIN sent : sent[i] < next
  /\ \A i \in DOMAIN out : out[i] < next
  /\ \A q \in Nat : q < next => q < Oldest \/ In(sent, q) \/ In(out, q)
  /\ pc = "done" => opened <= next

HeapInv == HeapRing /\ AnswerInv

\* A push between two batches drops the oldest sample, if any.
LEMMA PushKeepsAnswer ==
  ASSUME HeapInv, Push
  PROVE  AnswerInv'
<1>1. pushed' = pushed + 1 /\ Oldest <= Oldest' /\ UNCHANGED request /\ pushed \in Nat
  BY PushKeepsRing DEF HeapInv, HeapRing, Push
<1>2. Oldest \in Int /\ Oldest' \in Int
  BY PushKeepsRing DEF HeapInv, HeapRing, Oldest
<1>3. \A q \in Nat : q < next => q < Oldest' \/ In(sent, q) \/ In(out, q)
  BY <1>1, <1>2 DEF HeapInv, AnswerInv
<1>4. next <= pushed' /\ opened <= pushed'
  BY <1>1 DEF HeapInv, AnswerInv
<1> QED
  BY <1>1, <1>3, <1>4 DEF HeapInv, AnswerInv, request, Ascending, Precedes, In

\* A batch holds the samples from the position on that the ring still has.
LEMMA BatchIs ==
  ASSUME HeapInv, CopyBatch
  PROVE  /\ next' = Stop /\ next' \in Nat /\ next' <= pushed
         /\ Resume \in Nat /\ next <= Resume /\ Oldest <= Resume /\ Resume < Stop
         /\ Resume = next \/ Resume = Oldest
         /\ out' = [i \in 1 .. Stop - Resume |-> Resume + i - 1]
<1>1. /\ next \in Nat /\ next <= pushed /\ pushed \in Nat /\ Oldest \in Nat /\ Oldest <= pushed
      /\ count \in Nat /\ Oldest = pushed - count
  BY RingSizes DEF HeapInv, HeapRing, AnswerInv, Oldest
<1>2. Resume < pushed /\ next' = Stop /\ out' = [i \in 1 .. Stop - Resume |-> At(Place(Resume + i - 1))]
  BY DEF CopyBatch
<1>3. /\ Resume \in Nat /\ next <= Resume /\ Oldest <= Resume
      /\ Resume = next \/ Resume = Oldest
  BY <1>1 DEF Resume
<1>4. Stop \in Nat /\ Stop <= pushed /\ Resume < Stop
  BY <1>1, <1>2, <1>3, RingSizes DEF Stop
<1>5. ASSUME NEW i \in 1 .. Stop - Resume PROVE At(Place(Resume + i - 1)) = Resume + i - 1
  <2> DEFINE p == Resume + i - 1 - Oldest
  <2>1. Place(Resume + i - 1) = p
    BY <1>1, <1>3, <1>5 DEF Place
  <2>2. p \in 0 .. count - 1 /\ Oldest + p = Resume + i - 1
    BY <1>1, <1>3, <1>4, <1>5
  <2>3. At(p) = Oldest + p
    BY <2>2 DEF HeapInv, HeapRing
  <2> QED
    BY <2>1, <2>2, <2>3
<1>6. out' = [i \in 1 .. Stop - Resume |-> Resume + i - 1]
  BY <1>2, <1>5
<1> QED
  BY <1>2, <1>3, <1>4, <1>6

\* So it goes on where the answer stands, and skips only what the ring dropped.
LEMMA CopyKeepsAnswer ==
  ASSUME HeapInv, CopyBatch
  PROVE  AnswerInv'
<1>1. /\ next \in Nat /\ next <= pushed /\ opened \in Nat /\ opened <= pushed /\ pushed \in Nat
      /\ sent \in Seq(Nat) /\ out = <<>> /\ Oldest \in Int
  BY RingSizes DEF HeapInv, HeapRing, AnswerInv, Oldest, CopyBatch
<1>2. /\ next' = Stop /\ next' \in Nat /\ next' <= pushed
      /\ Resume \in Nat /\ next <= Resume /\ Oldest <= Resume /\ Resume < Stop
      /\ Resume = next \/ Resume = Oldest
      /\ out' = [i \in 1 .. Stop - Resume |-> Resume + i - 1]
  BY BatchIs
<1>3. /\ pc' = "send" /\ sent' = sent /\ opened' = opened /\ pushed' = pushed /\ Oldest' = Oldest
  BY DEF CopyBatch, ring, Oldest
<1> DEFINE k == Stop - Resume
<1>4. k \in Nat /\ Resume + k = next' /\ DOMAIN out' = 1 .. k
      /\ \A i \in 1 .. k : out'[i] = Resume + i - 1
  BY <1>2
<1>5. out' \in Seq(Nat)
  <2>1. \A i \in 1 .. k : Resume + i - 1 \in Nat
    BY <1>2
  <2>2. out' \in [1 .. k -> Nat]
    BY <1>2, <2>1
  <2> QED
    BY <1>4, <2>2
<1> HIDE DEF k
<1>6. Ascending(out)'
  BY <1>2, <1>4 DEF Ascending
<1>7. \A i \in DOMAIN sent : sent[i] \in Nat /\ sent[i] < next
  BY <1>1 DEF HeapInv, AnswerInv
<1>8. Precedes(sent, out)' /\ \A i \in DOMAIN sent : sent[i] < next'
  BY <1>1, <1>2, <1>3, <1>4, <1>7 DEF Precedes
<1>9. \A i \in DOMAIN out' : out'[i] < next'
  BY <1>2, <1>4
<1>10. ASSUME NEW q \in Nat, q < next' PROVE q < Oldest \/ In(sent, q) \/ In(out, q)'
  <2>1. CASE q < next
    <3>1. ~ In(out, q)
      BY <1>1 DEF In
    <3> QED
      BY <2>1, <3>1 DEF HeapInv, AnswerInv
  <2>2. CASE ~ (q < next) /\ q < Resume
    BY <1>1, <1>2, <2>2
  <2>3. CASE ~ (q < Resume)
    <3>1. q - Resume + 1 \in 1 .. k /\ Resume + (q - Resume + 1) - 1 = q
      BY <1>2, <1>4, <1>10, <2>3
    <3>2. out'[q - Resume + 1] = q
      BY <1>4, <3>1
    <3> QED
      BY <1>4, <3>1, <3>2 DEF In
  <2> QED
    BY <2>1, <2>2, <2>3
<1>11. Ascending(sent)'
  BY <1>3 DEF HeapInv, AnswerInv, Ascending
<1> QED
  BY <1>1, <1>2, <1>3, <1>5, <1>6, <1>7, <1>8, <1>9, <1>10, <1>11 DEF AnswerInv, In

\* An element of a joined sequence is one of the first part or of the second.
LEMMA JoinedAt ==
  ASSUME NEW s \in Seq(Nat), NEW t \in Seq(Nat), NEW i \in DOMAIN (s \o t)
  PROVE  \/ i \in DOMAIN s /\ i <= Len(s) /\ (s \o t)[i] = s[i]
         \/ \E j \in DOMAIN t : i = Len(s) + j /\ (s \o t)[i] = t[j]
<1>1. /\ Len(s) \in Nat /\ DOMAIN s = 1 .. Len(s) /\ Len(t) \in Nat /\ DOMAIN t = 1 .. Len(t)
      /\ DOMAIN (s \o t) = 1 .. Len(s) + Len(t)
  OBVIOUS
<1>2. CASE i <= Len(s)
  BY <1>1, <1>2
<1>3. CASE ~ (i <= Len(s))
  <2>1. i - Len(s) \in DOMAIN t /\ i = Len(s) + (i - Len(s)) /\ (s \o t)[i] = t[i - Len(s)]
    BY <1>1, <1>3
  <2> QED
    BY <2>1
<1> QED
  BY <1>2, <1>3

\* Both parts of a joined sequence are in it.
LEMMA JoinedHas ==
  ASSUME NEW s \in Seq(Nat), NEW t \in Seq(Nat), NEW q
  PROVE  In(s \o t, q) <=> In(s, q) \/ In(t, q)
<1>1. /\ Len(s) \in Nat /\ DOMAIN s = 1 .. Len(s) /\ Len(t) \in Nat /\ DOMAIN t = 1 .. Len(t)
      /\ DOMAIN (s \o t) = 1 .. Len(s) + Len(t)
  OBVIOUS
<1>2. ASSUME In(s, q) PROVE In(s \o t, q)
  BY <1>1, <1>2 DEF In
<1>3. ASSUME In(t, q) PROVE In(s \o t, q)
  <2>1. PICK j \in DOMAIN t : t[j] = q
    BY <1>3 DEF In
  <2>2. Len(s) + j \in DOMAIN (s \o t) /\ (s \o t)[Len(s) + j] = t[j]
    BY <1>1
  <2> QED
    BY <2>1, <2>2 DEF In
<1>4. ASSUME In(s \o t, q) PROVE In(s, q) \/ In(t, q)
  BY <1>4, JoinedAt DEF In
<1> QED
  BY <1>2, <1>3, <1>4

\* What ascends, joined to what ascends above it, ascends.
LEMMA JoinedAscends ==
  ASSUME NEW s \in Seq(Nat), NEW t \in Seq(Nat), Ascending(s), Ascending(t), Precedes(s, t)
  PROVE  Ascending(s \o t)
<1> SUFFICES ASSUME NEW i \in DOMAIN (s \o t), NEW j \in DOMAIN (s \o t), i < j
             PROVE  (s \o t)[i] < (s \o t)[j]
  BY DEF Ascending
<1>1. Len(s) \in Nat /\ DOMAIN s = 1 .. Len(s) /\ DOMAIN t = 1 .. Len(t) /\ Len(t) \in Nat
  OBVIOUS
<1>2. CASE i \in DOMAIN s /\ (s \o t)[i] = s[i]
  <2>1. CASE j \in DOMAIN s /\ (s \o t)[j] = s[j]
    BY <1>2, <2>1 DEF Ascending
  <2>2. CASE \E k \in DOMAIN t : (s \o t)[j] = t[k]
    BY <1>2, <2>2 DEF Precedes
  <2> QED
    BY <2>1, <2>2, JoinedAt
<1>3. CASE \E k \in DOMAIN t : i = Len(s) + k /\ (s \o t)[i] = t[k]
  <2>1. PICK k \in DOMAIN t : i = Len(s) + k /\ (s \o t)[i] = t[k]
    BY <1>3
  <2>2. ~ (j <= Len(s))
    BY <1>1, <2>1
  <2>3. PICK l \in DOMAIN t : j = Len(s) + l /\ (s \o t)[j] = t[l]
    BY <2>2, JoinedAt
  <2>4. k < l
    BY <1>1, <2>1, <2>3
  <2> QED
    BY <2>1, <2>3, <2>4 DEF Ascending
<1> QED
  BY <1>2, <1>3, JoinedAt

\* The batch joins what has been sent.
LEMMA SendKeepsAnswer ==
  ASSUME HeapInv, Send
  PROVE  AnswerInv'
<1>1. /\ sent \in Seq(Nat) /\ out \in Seq(Nat) /\ sent' = sent \o out /\ out' = <<>> /\ pc' = "copy"
      /\ next' = next /\ opened' = opened /\ pushed' = pushed /\ Oldest' = Oldest
  BY DEF HeapInv, AnswerInv, Send, ring, Oldest
<1>2. sent' \in Seq(Nat) /\ Ascending(sent)'
  <2>1. Ascending(sent \o out)
    BY <1>1, JoinedAscends DEF HeapInv, AnswerInv
  <2> QED
    BY <1>1, <2>1 DEF Ascending
<1>3. \A i \in DOMAIN sent' : sent'[i] < next
  BY <1>1, JoinedAt DEF HeapInv, AnswerInv
<1>4. \A q : In(sent, q) \/ In(out, q) => In(sent, q)'
  <2>1. \A q : In(sent, q) \/ In(out, q) => In(sent \o out, q)
    BY <1>1, JoinedHas
  <2> QED
    BY <1>1, <2>1 DEF In
<1>5. Ascending(out)' /\ Precedes(sent, out)' /\ out' \in Seq(Nat) /\ DOMAIN out' = {}
  BY <1>1 DEF Ascending, Precedes
<1> QED
  BY <1>1, <1>2, <1>3, <1>4, <1>5 DEF HeapInv, AnswerInv

\* Every step of the memory watch keeps the ring and the answer.
LEMMA HeapStep ==
  ASSUME HeapInv, Push \/ Answer \/ UNCHANGED <<ring, request>>
  PROVE  HeapInv'
<1>1. CASE Push
  BY <1>1, PushKeepsRing, PushKeepsAnswer DEF HeapInv
<1>2. ASSUME UNCHANGED ring PROVE HeapRing' /\ Oldest' = Oldest /\ pushed' = pushed
  BY <1>2 DEF HeapInv, HeapRing, ring, Oldest, At
<1>3. CASE Open
  <2>1. /\ next' = 0 /\ out' = <<>> /\ sent' = <<>> /\ opened' = pushed /\ pc' = "copy"
        /\ UNCHANGED ring
    BY <1>3 DEF Open
  <2>2. pushed \in Nat
    BY DEF HeapInv, HeapRing
  <2> QED
    BY <1>2, <2>1, <2>2 DEF HeapInv, AnswerInv, Ascending, Precedes
<1>4. CASE CopyBatch
  BY <1>2, <1>4, CopyKeepsAnswer DEF HeapInv, CopyBatch
<1>5. CASE Close
  <2>1. /\ next' = Resume /\ Resume >= pushed /\ pc' = "done" /\ sent' = sent /\ out' = out
        /\ opened' = opened /\ UNCHANGED ring /\ pc = "copy"
    BY <1>5 DEF Close
  <2>2. /\ pushed \in Nat /\ Oldest \in Nat /\ Oldest <= pushed /\ next \in Nat /\ next <= pushed
        /\ opened <= pushed /\ opened \in Nat
    BY RingSizes DEF HeapInv, HeapRing, AnswerInv, Oldest
  <2>3. Resume = pushed /\ (Resume = next \/ Resume = Oldest)
    BY <2>1, <2>2 DEF Resume
  <2>4. \A i \in DOMAIN sent : sent[i] < Resume
    <3>1. \A i \in DOMAIN sent : sent[i] \in Nat /\ sent[i] < next
      BY DEF HeapInv, AnswerInv
    <3> QED
      BY <2>2, <2>3, <3>1
  <2>5. \A q \in Nat : q < Resume => q < Oldest \/ In(sent, q) \/ In(out, q)
    BY <2>2, <2>3 DEF HeapInv, AnswerInv
  <2>6. out = <<>> /\ DOMAIN out = {}
    BY <2>1 DEF HeapInv, AnswerInv
  <2> QED
    BY <1>2, <2>1, <2>2, <2>3, <2>4, <2>5, <2>6
    DEF HeapInv, AnswerInv, Ascending, Precedes, In
<1>6. CASE Send
  BY <1>2, <1>6, SendKeepsAnswer DEF HeapInv, Send
<1>7. CASE ClientGone \/ UNCHANGED <<ring, request>>
  <2>1. UNCHANGED <<ring, next, out, sent, opened>> /\ pc' \in {pc, "gone"}
    BY <1>7 DEF ClientGone, request
  <2> QED
    BY <1>2, <2>1 DEF HeapInv, AnswerInv, Ascending, Precedes, In
<1> QED
  BY <1>1, <1>3, <1>4, <1>5, <1>6, <1>7 DEF Answer

\* The answer misses nothing but what the ring had dropped.
LEMMA HeapInvExports == HeapInv => HeapExported
<1> SUFFICES ASSUME HeapInv PROVE HeapExported
  OBVIOUS
<1>1. SentInOrder
  BY DEF HeapInv, AnswerInv, Ascending, SentInOrder
<1>2. ASSUME pc \in {"copy", "done"}, NEW q \in 0 .. (IF pc = "done" THEN opened ELSE next) - 1
      PROVE  q < Oldest \/ \E i \in DOMAIN sent : sent[i] = q
  <2>1. next \in Nat /\ opened \in Nat /\ (pc = "done" => opened <= next) /\ out = <<>>
    BY <1>2 DEF HeapInv, AnswerInv
  <2>2. q \in Nat /\ q < next
    BY <1>2, <2>1
  <2>3. ~ In(out, q)
    BY <2>1 DEF In
  <2> QED
    BY <2>2, <2>3 DEF HeapInv, AnswerInv, In
<1> QED
  BY <1>1, <1>2 DEF HeapExported, OnlyDroppedMissing

\* GET /api/heap sends the samples once and in order, and misses only what the
\* ring had dropped, for rings and batches of any size and however many samples
\* are taken while it is sent.
THEOREM HeapIsExported == Spec => []HeapExported
<1>1. Init => HeapInv
  <2> SUFFICES ASSUME Init PROVE HeapInv
    OBVIOUS
  <2>1. HeapRing
    BY RingSizes DEF Init, RingInit, HeapRing
  <2>2. AnswerInv
    BY DEF Init, RingInit, AnswerInv, Ascending, Precedes
  <2> QED
    BY <2>1, <2>2 DEF HeapInv
<1>2. HeapInv /\ [Next]_vars => HeapInv'
  BY HeapStep DEF Next, Measure, vars
<1> QED
  BY <1>1, <1>2, HeapInvExports, PTL DEF Spec

-----------------------------------------------------------------------------
(* The memory card.                                                        *)

\* What the proofs use of MemCardAssumption.
LEMMA CardSizes ==
  /\ Period \in Nat /\ Delay \in Nat /\ Delay < Period /\ FirstUp \in Nat /\ FirstUp < Cycle
  /\ Cycle \in Nat /\ MaxClock \in Nat /\ (N + 2) * Period < Cycle
BY MemCardAssumption, RingSizes

\* Samples are a period apart.
LEMMA Periods ==
  /\ \A a \in Int : a * Period \in Int /\ (a + 1) * Period = a * Period + Period
  /\ \A a, b \in Int : (b - a) * Period = b * Period - a * Period
  /\ \A a, b \in Int : (a + b) * Period = a * Period + b * Period
  /\ \A a, b \in Int : a <= b => a * Period <= b * Period
  /\ \A a, b \in Int : a < b => a * Period + Period <= b * Period
<1>1. Period \in Nat
  BY CardSizes
<1>2. \A a \in Int : a * Period \in Int /\ (a + 1) * Period = a * Period + Period
  BY <1>1
<1>3. \A a, b \in Int : (b - a) * Period = b * Period - a * Period
  BY <1>1
<1>4. \A a, b \in Int : (a + b) * Period = a * Period + b * Period
  BY <1>1
<1>5. ASSUME NEW a \in Int, NEW b \in Int, a <= b PROVE a * Period <= b * Period
  <2>1. (b - a) * Period \in Nat
    BY <1>1, <1>5
  <2> QED
    BY <1>1, <1>3, <2>1
<1>6. ASSUME NEW a \in Int, NEW b \in Int, a < b PROVE a * Period + Period <= b * Period
  <2>1. a + 1 \in Int /\ a + 1 <= b
    BY <1>6
  <2> QED
    BY <1>2, <1>5, <2>1
<1> QED
  BY <1>2, <1>3, <1>4, <1>5, <1>6

\* The uptimes of two moments less than a turn of millis() apart.
LEMMA Uptimes ==
  ASSUME NEW a \in Nat, NEW b \in Nat, a <= b, b - a < Cycle
  PROVE  /\ UpAt(a) \in 0 .. Cycle - 1 /\ UpAt(b) \in 0 .. Cycle - 1
         /\ UpAt(a) <= UpAt(b) => UpAt(b) - UpAt(a) = b - a
         /\ UpAt(a) = UpAt(b) => a = b
<1> DEFINE x == FirstUp + a
           y == FirstUp + b
           m == x % Cycle
           n == y % Cycle
           d == x \div Cycle
           f == y \div Cycle
<1>1. x \in Nat /\ y \in Nat /\ y - x = b - a /\ Cycle \in Nat /\ Cycle > 0
  BY CardSizes
<1>2. /\ m \in 0 .. Cycle - 1 /\ d \in Int /\ x = Cycle * d + m
      /\ n \in 0 .. Cycle - 1 /\ f \in Int /\ y = Cycle * f + n
  BY <1>1
<1>3. UpAt(a) = m /\ UpAt(b) = n
  BY DEF UpAt
<1> HIDE DEF x, y, m, n, d, f
<1>4. b - a = Cycle * (f - d) + n - m
  BY <1>1, <1>2
<1>5. ASSUME m <= n PROVE f - d = 0
  <2>1. CASE f - d >= 1
    <3>1. Cycle * (f - d) >= Cycle
      BY <1>1, <1>2, <2>1
    <3> QED
      BY <1>1, <1>2, <1>4, <1>5, <3>1
  <2>2. CASE f - d <= -1
    <3>1. Cycle * (f - d) <= - Cycle
      BY <1>1, <1>2, <2>2
    <3> QED
      BY <1>1, <1>2, <1>4, <1>5, <3>1
  <2> QED
    BY <1>2, <2>1, <2>2
<1>6. m <= n => n - m = b - a
  BY <1>1, <1>2, <1>4, <1>5
<1> QED
  BY <1>2, <1>3, <1>6

\* Samples in a row, the last of them the one before e.
Row(s, e) == \A i \in DOMAIN s : s[i] = e - Len(s) + i - 1

\* A sample is taken when it is due, and the ring keeps N of them.
PaceInv ==
  /\ clock \in Nat /\ begun \in Nat /\ begun <= clock
  /\ clock <= pushed * Period /\ (pushed - 1) * Period <= clock
  /\ count = IF pushed < N THEN pushed ELSE N

\* An answer the card waits for is young: it leaves no sample out between two others.
FlightInv ==
  /\ load \in [asked : {"no", "queued", "running"}, since : 0 .. Period]
  /\ load.asked # "no" => card.open /\ load.since <= Delay
  /\ load.asked = "running" =>
       /\ clock <= begun + load.since /\ begun <= opened * Period
       /\ \A i \in DOMAIN sent : opened <= sent[i] + N
       /\ \A i \in DOMAIN out : opened <= out[i] + N
       /\ pc \in {"copy", "done"} => Row(sent, next)
       /\ pc = "send" => Row(out, next) /\ Row(sent, next - Len(out))
       /\ Len(sent) > 0 \/ pc = "send" => opened < next + N

\* A trend is a row of samples up to the newest one at its time.
TrendOK(t) ==
  /\ t.begun <= t.at /\ t.at <= t.begun + Delay
  /\ \A i \in DOMAIN t.samples : t.begun <= (t.samples[i] + N) * Period
  /\ \E e \in Nat : /\ Row(t.samples, e) /\ t.begun <= e * Period
                    /\ (e - 1) * Period <= t.at

CardInv ==
  /\ card \in [open : BOOLEAN, trend : [samples : Seq(Nat), begun : Nat, at : Nat], shown : Int]
  /\ back \in Nat \cup {None}
  /\ TrendOK(card.trend)
  /\ Drawn(card.trend) => card.open /\ card.shown = card.trend.samples[Points]

CdInv == HeapInv /\ PaceInv /\ FlightInv /\ CardInv

\* Two samples, by their uptime or by their place in the trend: x and y are when they were
\* taken, l the newest, b when the answer was begun and t when it came.
LEMMA TimesInOrder ==
  ASSUME NEW t \in Nat, NEW b \in Nat, NEW l \in Int, NEW x \in Nat, NEW y \in Nat,
         t <= b + Delay, l <= t, b <= l + Period, x + Period <= y, y <= l,
         y < l => y + Period <= l
  PROVE  /\ t - b + x <= t - b + y /\ t - l + x <= t - l + y /\ t - l + x <= t - b + y
         /\ x <= b /\ ~(y <= b) => t - b + x <= t - l + y
<1>1. Period \in Nat /\ Delay \in Nat /\ Delay < Period
  BY CardSizes
<1>2. t - b + x <= t - b + y /\ t - l + x <= t - l + y /\ t - l + x <= t - b + y
  BY <1>1
<1>3. ASSUME x <= b, ~(y <= b) PROVE t - b + x <= t - l + y
  <2>1. y = l
    BY <1>1, <1>3
  <2> QED
    BY <1>3, <2>1
<1> QED
  BY <1>2, <1>3

\* A trend gives each sample its time.
LEMMA TrendTimes ==
  ASSUME CardInv, ~WrappedMeanwhile
  PROVE  TrendDated
<1> DEFINE s  == card.trend.samples
           b  == card.trend.begun
           at == card.trend.at
<1>1. s \in Seq(Nat) /\ b \in Nat /\ at \in Nat /\ b <= at /\ at <= b + Delay
  BY DEF CardInv, TrendOK
<1>2. PICK e \in Nat : Row(s, e) /\ b <= e * Period /\ (e - 1) * Period <= at
  BY DEF CardInv, TrendOK
<1>3. \A i \in DOMAIN s : b <= (s[i] + N) * Period
  BY DEF CardInv, TrendOK
<1>4. \A i \in DOMAIN s : s[i] * Period > b => ~(UpAt(s[i] * Period) < UpAt(b))
  BY DEF WrappedMeanwhile, Range
<1>5. \A i \in DOMAIN s : sampleAt(card.trend, i) =
        at - (IF UpAt(s[i] * Period) <= UpAt(b) THEN UpAt(b) - UpAt(s[i] * Period)
              ELSE (Len(s) - i) * Period)
  BY DEF sampleAt
<1> HIDE DEF s, b, at
<1>6. Len(s) \in Nat /\ DOMAIN s = 1 .. Len(s)
  BY <1>1
<1>7. /\ Period \in Nat /\ Delay \in Nat /\ Delay < Period /\ Cycle \in Nat /\ N \in Nat
      /\ (N + 2) * Period = N * Period + Period + Period /\ (N + 2) * Period < Cycle
      /\ N * Period \in Nat
  BY CardSizes, RingSizes
\* A sample is less than a turn away from the begin of the answer.
<1>8. ASSUME NEW i \in DOMAIN s
      PROVE  /\ s[i] \in Nat /\ s[i] * Period \in Nat /\ i \in Nat
             /\ (Len(s) - i) * Period = (e - 1) * Period - s[i] * Period
             /\ s[i] <= e - 1 /\ s[i] * Period <= (e - 1) * Period
             /\ b - s[i] * Period < Cycle /\ s[i] * Period - b < Cycle
             /\ (e - 1) * Period \in Int /\ e * Period = (e - 1) * Period + Period
  <2>1. s[i] \in Nat /\ i \in 1 .. Len(s) /\ s[i] = e - Len(s) + i - 1
    BY <1>1, <1>2, <1>6 DEF Row
  <2>2. s[i] * Period \in Nat /\ (s[i] + N) * Period = s[i] * Period + N * Period
    BY <1>7, <2>1
  <2>3. s[i] <= e - 1 /\ Len(s) - i = (e - 1) - s[i]
    BY <1>6, <2>1
  <2>4. /\ (Len(s) - i) * Period = (e - 1) * Period - s[i] * Period
        /\ s[i] * Period <= (e - 1) * Period
        /\ (e - 1) * Period \in Int /\ e * Period = (e - 1) * Period + Period
    <3>1. s[i] \in Int /\ e - 1 \in Int /\ (e - 1) + 1 = e
      BY <2>1
    <3> QED
      BY <2>3, <3>1, Periods
  <2>5. b <= s[i] * Period + N * Period
    BY <1>3, <2>2
  <2> DEFINE x == s[i] * Period
             y == (e - 1) * Period
             z == N * Period
  <2>6. b - x < Cycle /\ x - b < Cycle
    <3>1. /\ x \in Nat /\ y \in Int /\ z \in Nat /\ b <= x + z /\ x <= y /\ y <= at
          /\ z + Period + Period < Cycle
      BY <1>2, <1>7, <2>2, <2>4, <2>5
    <3> HIDE DEF x, y, z
    <3> QED
      BY <1>1, <1>7, <3>1
  <2> QED
    BY <2>1, <2>2, <2>3, <2>4, <2>6
<1> DEFINE q(i)  == s[i] * Period
           up(i) == UpAt(q(i))
           u     == UpAt(b)
           l     == (e - 1) * Period
           at_(i) == sampleAt(card.trend, i)
\* Its uptime, against the one in the answer and that of a later sample.
<1>9. ASSUME NEW i \in DOMAIN s
      PROVE  /\ q(i) \in Nat /\ q(i) <= l /\ up(i) \in Nat /\ u \in Nat
             /\ up(i) <= u => q(i) <= b /\ u - up(i) = b - q(i)
  <2>1. q(i) \in Nat /\ q(i) <= l /\ b - q(i) < Cycle /\ q(i) - b < Cycle
    BY <1>8
  <2>2. q(i) > b => ~(up(i) < u)
    BY <1>4
  <2> HIDE DEF q, l
  <2>3. CASE q(i) <= b
    <3>1. /\ up(i) \in 0 .. Cycle - 1 /\ u \in 0 .. Cycle - 1
          /\ up(i) <= u => u - up(i) = b - q(i)
      BY <1>1, <2>1, <2>3, Uptimes
    <3> HIDE DEF up, u
    <3> QED
      BY <1>7, <2>1, <2>3, <3>1
  <2>4. CASE ~(q(i) <= b)
    <3>1. /\ up(i) \in 0 .. Cycle - 1 /\ u \in 0 .. Cycle - 1
          /\ u = up(i) => b = q(i)
      BY <1>1, <2>1, <2>4, Uptimes
    <3> HIDE DEF up, u
    <3> QED
      BY <1>1, <1>7, <2>1, <2>2, <2>4, <3>1
  <2> QED
    BY <2>3, <2>4
<1>10. ASSUME NEW i \in DOMAIN s
       PROVE  at_(i) = IF up(i) <= u THEN at - b + q(i) ELSE at - l + q(i)
  <2>1. at_(i) = at - (IF up(i) <= u THEN u - up(i) ELSE l - q(i))
    BY <1>5, <1>8
  <2>2. l \in Int
    BY <1>8
  <2> HIDE DEF q, up, u, l, at_
  <2> QED
    BY <1>1, <1>9, <2>1, <2>2
<1>11. ASSUME NEW i \in DOMAIN s, NEW j \in DOMAIN s, i < j
       PROVE  /\ q(i) + Period <= q(j)
              /\ q(j) < l => q(j) + Period <= l
              /\ up(i) <= u /\ q(j) <= b => up(j) <= u
  <2>1. q(i) + Period <= q(j)
    <3>1. s[i] < s[j] /\ s[i] \in Int /\ s[j] \in Int
      <4>1. s[i] = e - Len(s) + i - 1 /\ s[j] = e - Len(s) + j - 1 /\ i \in Nat /\ j \in Nat
        BY <1>2, <1>6 DEF Row
      <4> QED
        BY <1>6, <1>11, <4>1
    <3> QED
      BY <3>1, Periods
  <2>2. q(j) < l => q(j) + Period <= l
    <3>1. s[j] \in Int /\ e - 1 \in Int /\ s[j] <= e - 1
      BY <1>8
    <3>2. s[j] < e - 1 => q(j) + Period <= l
      BY <3>1, Periods
    <3>3. s[j] = e - 1 => q(j) = l
      OBVIOUS
    <3>4. q(j) \in Nat /\ l \in Int
      BY <1>8
    <3> HIDE DEF q, l
    <3> QED
      BY <3>1, <3>2, <3>3, <3>4
  <2>3. up(i) <= u /\ q(j) <= b => up(j) <= u
    <3> SUFFICES ASSUME up(i) <= u, q(j) <= b PROVE up(j) <= u
      OBVIOUS
    <3>1. /\ q(i) \in Nat /\ q(j) \in Nat /\ up(i) \in Nat /\ up(j) \in Nat /\ u \in Nat
          /\ u - up(i) = b - q(i) /\ b - q(i) < Cycle
      BY <1>8, <1>9
    <3> HIDE DEF q
    <3>2. q(i) <= q(j) /\ q(j) - q(i) < Cycle
      <4>1. Period \in Nat /\ Cycle \in Nat
        BY CardSizes
      <4>2. q(i) <= q(j)
        BY <2>1, <3>1, <4>1
      <4>3. q(j) - q(i) <= b - q(i)
        BY <1>1, <3>1
      <4> QED
        BY <1>1, <3>1, <4>1, <4>2, <4>3
    <3>3. up(i) <= up(j) => up(j) - up(i) = q(j) - q(i)
      BY <3>1, <3>2, Uptimes
    <3> HIDE DEF up, u
    <3>4. CASE up(i) <= up(j)
      <4>1. up(j) - up(i) = q(j) - q(i) /\ q(j) - q(i) <= b - q(i)
        BY <1>1, <3>1, <3>3, <3>4
      <4> QED
        BY <1>1, <3>1, <4>1
    <3>5. CASE ~(up(i) <= up(j))
      BY <3>1, <3>5
    <3> QED
      BY <3>4, <3>5
  <2> QED
    BY <2>1, <2>2, <2>3
<1>12. l \in Int /\ (DOMAIN s # {} => b <= l + Period)
  <2>1. e - 1 \in Int /\ (e - 1) + 1 = e
    OBVIOUS
  <2> QED
    BY <1>2, <2>1, Periods
<1> HIDE DEF q, up, u, l, at_
<1>13. l <= at
  BY <1>2 DEF l
<1>14. ASSUME NEW i \in DOMAIN s
       PROVE  at_(i) - q(i) \in 0 .. Period + Delay
  <2>1. /\ at_(i) = IF up(i) <= u THEN at - b + q(i) ELSE at - l + q(i)
        /\ q(i) \in Nat /\ l \in Int /\ b <= l + Period /\ l <= at
    BY <1>9, <1>10, <1>12, <1>13
  <2>2. at_(i) - q(i) = at - b \/ at_(i) - q(i) = at - l
    BY <1>1, <2>1
  <2>3. at - b \in 0 .. Period + Delay /\ at - l \in 0 .. Period + Delay
    BY <1>1, <1>7, <2>1
  <2> QED
    BY <2>2, <2>3
<1>15. ASSUME NEW i \in DOMAIN s, NEW j \in DOMAIN s, i < j
       PROVE  at_(i) <= at_(j)
  <2>1. /\ q(i) \in Nat /\ q(j) \in Nat /\ q(i) <= l /\ q(j) <= l
        /\ up(i) <= u => q(i) <= b
        /\ at_(i) = IF up(i) <= u THEN at - b + q(i) ELSE at - l + q(i)
        /\ at_(j) = IF up(j) <= u THEN at - b + q(j) ELSE at - l + q(j)
    BY <1>9, <1>10
  <2>2. /\ q(i) + Period <= q(j)
        /\ q(j) < l => q(j) + Period <= l
        /\ up(i) <= u /\ q(j) <= b => up(j) <= u
    BY <1>11, <1>15
  <2>3. b <= l + Period /\ l \in Int
    BY <1>12
  <2> DEFINE x == q(i)
             y == q(j)
  <2>4. /\ at - b + x <= at - b + y /\ at - l + x <= at - l + y /\ at - l + x <= at - b + y
        /\ x <= b /\ ~(y <= b) => at - b + x <= at - l + y
    <3>1. x \in Nat /\ y \in Nat /\ x + Period <= y /\ y <= l /\ (y < l => y + Period <= l)
      BY <2>1, <2>2
    <3> HIDE DEF x, y
    <3> QED
      BY <1>1, <1>13, <2>3, <3>1, TimesInOrder
  <2> QED
    BY <2>1, <2>2, <2>4
<1> QED
  BY <1>14, <1>15 DEF TrendDated, s, q, at_

\* Time passes only until the next sample is due.
LEMMA PaceStep ==
  ASSUME HeapInv, PaceInv, [CdNext]_mcdVars
  PROVE  PaceInv'
<1>0. /\ pushed \in Nat /\ clock \in Nat /\ begun \in Nat /\ pushed * Period \in Int
      /\ (pushed + 1) * Period = pushed * Period + Period
      /\ (pushed - 1) * Period = pushed * Period - Period
      /\ (pushed + 1) - 1 = pushed /\ Period \in Nat
  <2>1. pushed \in Nat /\ pushed - 1 \in Int /\ (pushed - 1) + 1 = pushed
    BY DEF HeapInv, HeapRing
  <2>2. /\ pushed * Period \in Int /\ (pushed - 1) * Period \in Int /\ Period \in Nat
        /\ (pushed + 1) * Period = pushed * Period + Period
        /\ ((pushed - 1) + 1) * Period = (pushed - 1) * Period + Period
    BY <2>1, Periods, CardSizes
  <2> DEFINE x == (pushed - 1) * Period
             y == pushed * Period
  <2>3. x = y - Period
    <3>1. x \in Int /\ y \in Int /\ Period \in Nat /\ y = x + Period
      BY <2>1, <2>2
    <3> HIDE DEF x, y
    <3> QED
      BY <3>1
  <2> QED
    BY <2>1, <2>2, <2>3 DEF PaceInv
<1>1. CASE Sampled
  <2>1. /\ pushed' = pushed + 1 /\ count' = (IF count < N THEN count + 1 ELSE count)
        /\ clock' = clock /\ begun' = begun /\ pushed * Period <= clock
    BY <1>1 DEF Sampled, Push, Due, cardVars
  <2>2. count' = IF pushed' < N THEN pushed' ELSE N
    BY <1>0, <2>1, RingSizes DEF PaceInv
  <2>3. clock <= pushed' * Period /\ (pushed' - 1) * Period <= clock
    <3> DEFINE y == pushed * Period
    <3>1. /\ pushed' * Period = y + Period /\ (pushed' - 1) * Period = y /\ y \in Int
          /\ clock <= y /\ y <= clock
      BY <1>0, <2>1 DEF PaceInv
    <3> HIDE DEF y
    <3> QED
      BY <1>0, <3>1
  <2> QED
    BY <2>1, <2>2, <2>3 DEF PaceInv
<1>2. CASE Serve
  BY <1>2 DEF Serve, Open, ring, PaceInv
<1>3. CASE AnswerStep
  BY <1>3 DEF AnswerStep, CopyBatch, Close, Send, ClientGone, ring, cardVars, PaceInv
<1>4. CASE OpenCard \/ CloseCard \/ LoadAgain \/ TrendArrives \/ TrendFails \/ Scrub
           \/ UNCHANGED mcdVars
  BY <1>4 DEF OpenCard, CloseCard, LoadAgain, TrendArrives, TrendFails, Scrub, mcdVars, ring,
              cardVars, PaceInv
<1>5. CASE MemTick
  <2>1. /\ clock' = clock + 1 /\ begun' = begun /\ ~(pushed * Period <= clock)
        /\ pushed' = pushed /\ count' = count
    BY <1>5 DEF MemTick, Due, ring
  <2>2. clock + 1 <= pushed * Period /\ (pushed - 1) * Period <= clock + 1 /\ begun <= clock + 1
    <3> DEFINE y == pushed * Period
               x == (pushed - 1) * Period
    <3>1. y \in Int /\ x \in Int /\ x <= clock /\ begun <= clock /\ ~(y <= clock)
      BY <1>0, <2>1 DEF PaceInv
    <3> HIDE DEF x, y
    <3>2. clock + 1 <= y /\ x <= clock + 1 /\ begun <= clock + 1
      BY <1>0, <3>1
    <3> QED
      BY <3>2 DEF x, y
  <2> QED
    BY <1>0, <2>1, <2>2 DEF PaceInv
<1> QED
  BY <1>1, <1>2, <1>3, <1>4, <1>5 DEF CdNext

\* While an answer the card waits for is made, one sample is taken at most.
LEMMA OneMeanwhile ==
  ASSUME HeapInv, PaceInv, FlightInv, load.asked = "running"
  PROVE  pushed <= opened + 1
<1>1. /\ pushed \in Nat /\ opened \in Nat /\ clock \in Nat /\ begun \in Nat /\ load.since \in Int
  BY DEF HeapInv, HeapRing, AnswerInv, PaceInv, FlightInv
<1>2. /\ (pushed - 1) * Period <= clock /\ clock <= begun + load.since /\ load.since <= Delay
      /\ begun <= opened * Period
  BY DEF PaceInv, FlightInv
<1>3. ASSUME opened + 1 < pushed PROVE FALSE
  <2> DEFINE x == opened * Period
             y == (pushed - 1) * Period
  <2>1. x \in Int /\ y \in Int /\ x + Period <= y
    <3>1. opened \in Int /\ pushed - 1 \in Int /\ opened < pushed - 1
      BY <1>1, <1>3
    <3> QED
      BY <3>1, Periods
  <2>2. y <= clock /\ begun <= x
    BY <1>2
  <2> HIDE DEF x, y
  <2> QED
    BY <1>1, <1>2, <2>1, <2>2, CardSizes
<1> QED
  BY <1>1, <1>3

\* A batch goes on where the one before ended.
LEMMA ResumeIs ==
  ASSUME HeapInv, PaceInv, FlightInv, load.asked = "running"
  PROVE  /\ Resume \in Nat /\ opened <= Resume + N /\ next <= Resume
         /\ Len(sent) > 0 => Resume = next
<1>1. /\ pushed \in Nat /\ opened \in Nat /\ next \in Nat /\ N \in Nat /\ opened <= pushed
      /\ Oldest = pushed - count /\ count = (IF pushed < N THEN pushed ELSE N)
  BY RingSizes DEF HeapInv, HeapRing, AnswerInv, PaceInv, Oldest
<1>2. pushed <= opened + 1
  BY OneMeanwhile
<1>3. Len(sent) > 0 => opened < next + N
  BY DEF FlightInv
<1> QED
  BY <1>1, <1>2, <1>3 DEF Resume

\* Sequences in a row, one behind the other.
LEMMA JoinedRow ==
  ASSUME NEW s \in Seq(Nat), NEW t \in Seq(Nat), NEW e \in Nat,
         Row(t, e), Row(s, e - Len(t))
  PROVE  Row(s \o t, e)
<1> SUFFICES ASSUME NEW i \in DOMAIN (s \o t)
             PROVE  (s \o t)[i] = e - Len(s \o t) + i - 1
  BY DEF Row
<1>1. /\ Len(s) \in Nat /\ DOMAIN s = 1 .. Len(s) /\ DOMAIN t = 1 .. Len(t) /\ Len(t) \in Nat
      /\ Len(s \o t) = Len(s) + Len(t) /\ DOMAIN (s \o t) = 1 .. Len(s) + Len(t)
  OBVIOUS
<1>2. CASE i \in DOMAIN s /\ (s \o t)[i] = s[i]
  BY <1>1, <1>2 DEF Row
<1>3. CASE \E j \in DOMAIN t : i = Len(s) + j /\ (s \o t)[i] = t[j]
  BY <1>1, <1>3 DEF Row
<1> QED
  BY <1>2, <1>3, JoinedAt

LEMMA FlightStep ==
  ASSUME HeapInv, PaceInv, FlightInv, CardInv, [CdNext]_mcdVars
  PROVE  FlightInv'
<1>0. /\ next \in Nat /\ opened \in Nat /\ pushed \in Nat /\ sent \in Seq(Nat) /\ out \in Seq(Nat)
      /\ clock \in Nat /\ begun \in Nat /\ N \in Nat
  BY RingSizes DEF HeapInv, HeapRing, AnswerInv, PaceInv
<1>1. CASE Sampled \/ Scrub \/ UNCHANGED mcdVars
  BY <1>1 DEF Sampled, Push, Scrub, mcdVars, cardVars, request, FlightInv, Row
<1>2. CASE Serve
  <2>1. /\ load.asked = "queued" /\ load' = [load EXCEPT !.asked = "running"] /\ pc' = "copy"
        /\ sent' = <<>> /\ out' = <<>> /\ opened' = pushed /\ begun' = clock /\ clock' = clock
        /\ card' = card
    BY <1>2 DEF Serve, Open
  <2>2. /\ load'.asked = "running" /\ load'.since = load.since /\ load.since \in Nat
        /\ load' \in [asked : {"no", "queued", "running"}, since : 0 .. Period]
    BY <2>1 DEF FlightInv
  <2>3. clock <= clock + load.since /\ clock <= pushed * Period
    BY <1>0, <2>2 DEF PaceInv
  <2> QED
    BY <2>1, <2>2, <2>3 DEF FlightInv, Row
<1>3. CASE AnswerStep
  <2>0. /\ opened' = opened /\ clock' = clock /\ begun' = begun /\ card' = card /\ load' = load
    BY <1>3 DEF AnswerStep, CopyBatch, Close, Send, ClientGone, cardVars
  <2>1. CASE load.asked # "running"
    BY <2>0, <2>1 DEF FlightInv
  <2>2. CASE load.asked = "running" /\ CopyBatch
    <3>1. /\ next' = Stop /\ next' \in Nat /\ Resume < Stop /\ sent' = sent /\ pc' = "send"
          /\ out' = [i \in 1 .. Stop - Resume |-> Resume + i - 1] /\ pc = "copy"
      BY <2>2, BatchIs DEF CopyBatch
    <3>2. /\ Resume \in Nat /\ opened <= Resume + N /\ next <= Resume
          /\ Len(sent) > 0 => Resume = next
      BY <2>2, ResumeIs
    <3> DEFINE k == Stop - Resume
    <3>3. k \in Nat /\ k > 0 /\ Len(out') = k /\ next' - k = Resume /\ DOMAIN out' = 1 .. k
          /\ \A i \in 1 .. k : out'[i] = Resume + i - 1
      BY <3>1, <3>2
    <3> HIDE DEF k
    <3>4. Row(out', next')
      BY <3>1, <3>2, <3>3 DEF Row
    <3>5. Row(sent, next' - Len(out'))
      <4>1. CASE Len(sent) > 0
        BY <2>2, <3>1, <3>2, <3>3, <4>1 DEF FlightInv
      <4>2. CASE ~(Len(sent) > 0)
        BY <1>0, <4>2 DEF Row
      <4> QED
        BY <4>1, <4>2
    <3>6. opened < next' + N /\ \A i \in DOMAIN out' : opened <= out'[i] + N
      BY <1>0, <3>1, <3>2, <3>3
    <3> QED
      BY <2>0, <3>1, <3>3, <3>4, <3>5, <3>6 DEF FlightInv, Row
  <2>3. CASE load.asked = "running" /\ Close
    <3>1. next' = Resume /\ pc' = "done" /\ pc = "copy" /\ sent' = sent /\ out' = out
      BY <2>3 DEF Close
    <3>2. Len(sent) > 0 => Resume = next
      BY <2>3, ResumeIs
    <3>3. Row(sent, Resume)
      <4>1. CASE Len(sent) > 0
        BY <2>3, <3>1, <3>2, <4>1 DEF FlightInv
      <4>2. CASE ~(Len(sent) > 0)
        BY <1>0, <4>2 DEF Row
      <4> QED
        BY <4>1, <4>2
    <3> QED
      BY <2>0, <3>1, <3>2, <3>3 DEF FlightInv, Row
  <2>4. CASE load.asked = "running" /\ Send
    <3>1. /\ pc = "send" /\ pc' = "copy" /\ sent' = sent \o out /\ out' = <<>> /\ next' = next
      BY <2>4 DEF Send
    <3>2. /\ Row(out, next) /\ Row(sent, next - Len(out)) /\ opened < next + N
          /\ \A i \in DOMAIN sent : opened <= sent[i] + N
          /\ \A i \in DOMAIN out : opened <= out[i] + N
      BY <2>4, <3>1 DEF FlightInv
    <3>3. Row(sent \o out, next)
      BY <1>0, <3>2, JoinedRow
    <3>4. \A i \in DOMAIN (sent \o out) : opened <= (sent \o out)[i] + N
      BY <1>0, <3>2, JoinedAt
    <3> QED
      BY <2>0, <3>1, <3>2, <3>3, <3>4 DEF FlightInv, Row
  <2>5. CASE load.asked = "running" /\ ClientGone
    BY <2>0, <2>5 DEF ClientGone, FlightInv
  <2> QED
    BY <1>3, <2>1, <2>2, <2>3, <2>4, <2>5 DEF AnswerStep
<1>4. CASE OpenCard \/ CloseCard \/ LoadAgain
  <2>1. /\ load'.asked # "running" /\ load' \in [asked : {"no", "queued"}, since : {0}]
        /\ load'.asked # "no" => card'.open
    BY <1>4 DEF OpenCard, CloseCard, LoadAgain
  <2>2. 0 \in 0 .. Period /\ 0 <= Delay
    BY CardSizes
  <2> QED
    BY <2>1, <2>2 DEF FlightInv
<1>5. CASE TrendArrives \/ TrendFails
  <2>1. load' = [load EXCEPT !.asked = "no"]
    BY <1>5 DEF TrendArrives, TrendFails
  <2> QED
    BY <2>1 DEF FlightInv
<1>6. CASE MemTick
  <2>1. /\ load.asked # "no" => load.since < Delay
        /\ clock' = clock + 1 /\ begun' = begun /\ card' = card
        /\ load' = [load EXCEPT !.since =
                      IF card.open /\ load.since < Period THEN load.since + 1 ELSE load.since]
        /\ UNCHANGED <<request>>
    BY <1>6 DEF MemTick
  <2>2. load.since \in 0 .. Period /\ load \in [asked : {"no", "queued", "running"}, since : 0 .. Period]
    BY DEF FlightInv
  <2>3. /\ load'.since \in 0 .. Period /\ load'.asked = load.asked
        /\ load' \in [asked : {"no", "queued", "running"}, since : 0 .. Period]
    BY <2>1, <2>2, CardSizes
  <2>4. ASSUME load.asked # "no" PROVE load'.since = load.since + 1 /\ load'.since <= Delay
    <3>1. card.open /\ load.since < Delay
      BY <2>1, <2>4 DEF FlightInv
    <3>2. load.since < Period /\ load.since + 1 <= Delay
      BY <2>2, <3>1, CardSizes
    <3> QED
      BY <2>1, <2>2, <3>1, <3>2
  <2>5. ASSUME load.asked = "running" PROVE clock' <= begun + load'.since
    <3>1. clock <= begun + load.since /\ load'.since = load.since + 1
      BY <2>4, <2>5 DEF FlightInv
    <3> QED
      BY <1>0, <2>1, <2>2, <3>1
  <2> QED
    BY <2>1, <2>3, <2>4, <2>5 DEF FlightInv, request, Row
<1> QED
  BY <1>1, <1>2, <1>3, <1>4, <1>5, <1>6 DEF CdNext

LEMMA CardStep ==
  ASSUME HeapInv, PaceInv, FlightInv, CardInv, [CdNext]_mcdVars
  PROVE  CardInv'
<1>0. /\ card \in [open : BOOLEAN, trend : [samples : Seq(Nat), begun : Nat, at : Nat], shown : Int]
      /\ Points \in Nat /\ card.trend.samples \in Seq(Nat)
  BY DEF CardInv, Points
<1>1. NoTrend \in [samples : Seq(Nat), begun : Nat, at : Nat] /\ TrendOK(NoTrend) /\ ~Drawn(NoTrend)
  <2>1. /\ NoTrend.samples = <<>> /\ NoTrend.begun = 0 /\ NoTrend.at = 0
        /\ NoTrend \in [samples : Seq(Nat), begun : Nat, at : Nat]
    BY DEF NoTrend
  <2>2. 0 * Period = 0 /\ (0 - 1) * Period <= 0
    BY CardSizes
  <2>3. Row(<<>>, 0)
    BY DEF Row
  <2> QED
    BY <2>1, <2>2, <2>3, CardSizes DEF TrendOK, Drawn
<1>2. CASE Sampled \/ Serve \/ AnswerStep \/ LoadAgain \/ TrendFails \/ MemTick \/ UNCHANGED mcdVars
  BY <1>2 DEF Sampled, Serve, AnswerStep, LoadAgain, TrendFails, MemTick, mcdVars, cardVars,
              CardInv, Points
<1>3. CASE OpenCard
  <2>1. card' = [open |-> TRUE, trend |-> NoTrend, shown |-> AtLoad] /\ back' = back
    BY <1>3 DEF OpenCard
  <2> QED
    BY <1>1, <2>1 DEF CardInv, AtLoad
<1>4. CASE CloseCard
  <2>1. card' = [card EXCEPT !.open = FALSE, !.trend = NoTrend] /\ back' = None
    BY <1>4 DEF CloseCard
  <2>2. /\ card'.trend = NoTrend
        /\ card' \in [open : BOOLEAN, trend : [samples : Seq(Nat), begun : Nat, at : Nat], shown : Int]
    BY <1>0, <1>1, <2>1
  <2> QED
    BY <1>1, <2>1, <2>2 DEF CardInv
<1>5. CASE TrendArrives
  <2> DEFINE trend == [samples |-> sent, begun |-> begun, at |-> clock]
  <2>1. /\ load.asked = "running" /\ pc = "done" /\ back' = back
        /\ card' = [card EXCEPT !.trend = trend, !.shown = free(trend)]
    BY <1>5 DEF TrendArrives
  <2>2. /\ sent \in Seq(Nat) /\ begun \in Nat /\ clock \in Nat /\ next \in Nat /\ opened \in Nat
        /\ opened <= next /\ next <= pushed /\ pushed \in Nat
    BY <2>1 DEF HeapInv, HeapRing, AnswerInv, PaceInv
  <2>3. /\ Row(sent, next) /\ clock <= begun + load.since /\ load.since <= Delay
        /\ begun <= opened * Period /\ load.since \in Int /\ card.open
        /\ \A i \in DOMAIN sent : opened <= sent[i] + N
    BY <2>1 DEF FlightInv
  <2>4. begun <= next * Period /\ (next - 1) * Period <= clock
    <3>1. /\ opened * Period <= next * Period /\ (next - 1) * Period <= (pushed - 1) * Period
          /\ opened * Period \in Int /\ next * Period \in Int
          /\ (next - 1) * Period \in Int /\ (pushed - 1) * Period \in Int
      <4>1. /\ opened \in Int /\ next \in Int /\ next - 1 \in Int /\ pushed - 1 \in Int
            /\ opened <= next /\ next - 1 <= pushed - 1
        BY <2>2
      <4> QED
        BY <4>1, Periods
    <3>2. begun <= opened * Period /\ (pushed - 1) * Period <= clock
      BY <2>3 DEF PaceInv
    <3> DEFINE a == opened * Period
               b == next * Period
               c == (next - 1) * Period
               d == (pushed - 1) * Period
    <3>3. /\ a \in Int /\ b \in Int /\ c \in Int /\ d \in Int /\ a <= b /\ c <= d
          /\ begun <= a /\ d <= clock
      BY <3>1, <3>2
    <3> HIDE DEF a, b, c, d
    <3>4. begun <= b /\ c <= clock
      BY <2>2, <3>3
    <3> QED
      BY <3>4 DEF b, c
  <2>5. ASSUME NEW i \in DOMAIN sent PROVE begun <= (sent[i] + N) * Period
    <3> DEFINE a == opened * Period
               b == (sent[i] + N) * Period
    <3>1. a <= b /\ a \in Int /\ b \in Int
      <4>1. sent[i] \in Nat
        BY <2>2
      <4>2. opened \in Int /\ sent[i] + N \in Int /\ opened <= sent[i] + N
        BY <2>2, <2>3, <4>1, RingSizes
      <4> QED
        BY <4>2, Periods
    <3>2. begun <= a
      BY <2>3
    <3> HIDE DEF a, b
    <3>3. begun <= b
      BY <2>2, <3>1, <3>2
    <3> QED
      BY <3>3 DEF b
  <2>6. begun <= clock /\ clock <= begun + Delay
    BY <2>2, <2>3, CardSizes DEF PaceInv
  <2>7. TrendOK(trend)
    BY <2>2, <2>4, <2>5, <2>6, <2>3 DEF TrendOK
  <2>8. free(trend) \in Int /\ (Drawn(trend) => free(trend) = sent[Len(sent)])
    <3>1. CASE Drawn(trend)
      <4>1. Len(sent) \in DOMAIN sent /\ sent[Len(sent)] \in Nat
        BY <2>2, <3>1 DEF Drawn
      <4> QED
        BY <3>1, <4>1 DEF free
    <3>2. CASE ~Drawn(trend)
      BY <3>2 DEF free, AtLoad
    <3> QED
      BY <3>1, <3>2
  <2>9. trend \in [samples : Seq(Nat), begun : Nat, at : Nat] /\ trend.samples = sent
    BY <2>2
  <2> HIDE DEF trend
  <2>10. /\ card'.trend = trend /\ card'.open = card.open /\ card'.shown = free(trend)
         /\ card' \in [open : BOOLEAN, trend : [samples : Seq(Nat), begun : Nat, at : Nat], shown : Int]
    BY <1>0, <2>1, <2>8, <2>9
  <2>11. Points' = Len(sent)
    BY <2>9, <2>10 DEF Points
  <2> QED
    BY <2>1, <2>3, <2>7, <2>8, <2>9, <2>10, <2>11 DEF CardInv
<1>6. CASE Scrub
  <2>1. card' = card /\ Drawn(card.trend)
    BY <1>6 DEF Scrub
  <2>2. Points >= 2 /\ \A i \in Int : clamp(i) \in 0 .. Points - 1
    BY <1>0, <2>1 DEF Drawn, Points, clamp
  <2>3. ASSUME NEW i \in Int, set(i) PROVE back' \in Nat
    <3> DEFINE c == clamp(i)
    <3>1. c \in 0 .. Points - 1 /\ Points \in Nat /\ back' = Points - 1 - c
      BY <1>0, <2>2, <2>3 DEF set, Points, CardInv
    <3> HIDE DEF c
    <3> QED
      BY <3>1
  <2>4. back' \in Nat \cup {None}
    <3>1. Selected \in Int /\ Big \in Int
      BY <1>0, <2>2 DEF Selected, Big, CardInv, None
    <3> DEFINE cur == IF Selected = None THEN Points - 1 ELSE Selected
    <3>2. /\ cur \in Int /\ \A i \in 0 .. Points - 1 : i \in Int
          /\ \A d \in {1, Big} : cur - d \in Int /\ cur + d \in Int
      BY <1>0, <3>1
    <3> QED
      BY <1>6, <2>3, <3>2 DEF Scrub
  <2> QED
    BY <2>1, <2>4 DEF CardInv, Points
<1> QED
  BY <1>2, <1>3, <1>4, <1>5, <1>6 DEF CdNext

\* An open card, whatever is asked, lost or scrolled, keeps the whole.
LEMMA CdInductive == CdInv /\ [CdNext]_mcdVars => CdInv'
<1> SUFFICES ASSUME CdInv, [CdNext]_mcdVars PROVE CdInv'
  OBVIOUS
<1>1. HeapInv /\ PaceInv /\ FlightInv /\ CardInv
  BY DEF CdInv
<1>2. Push \/ Answer \/ UNCHANGED <<ring, request>>
  BY DEF CdNext, mcdVars, Sampled, Serve, AnswerStep, OpenCard, CloseCard, LoadAgain, TrendArrives,
         TrendFails, Scrub, MemTick, Answer
<1> QED
  BY <1>1, <1>2, HeapStep, PaceStep, FlightStep, CardStep DEF CdInv

\* ring, answer, clock and card together: the invariant of CdSpec that CardIsTrue rests on.
THEOREM CdInvariant == CdSpec => []CdInv
<1>1. CdInit /\ RingInit => CdInv
  <2> SUFFICES ASSUME CdInit, RingInit PROVE CdInv
    OBVIOUS
  <2>1. HeapInv
    <3>1. HeapRing
      BY RingSizes DEF RingInit, HeapRing
    <3>2. AnswerInv
      BY DEF RingInit, AnswerInv, Ascending, Precedes
    <3> QED
      BY <3>1, <3>2 DEF HeapInv
  <2>2. PaceInv
    <3>1. 0 * Period = 0 /\ (0 - 1) * Period <= 0
      BY CardSizes
    <3> QED
      BY <3>1, RingSizes DEF CdInit, RingInit, PaceInv
  <2>3. FlightInv
    BY CardSizes DEF CdInit, FlightInv
  <2>4. CardInv
    <3>1. card = [open |-> FALSE, trend |-> NoTrend, shown |-> None] /\ back = None
      BY DEF CdInit
    <3>2. /\ NoTrend.samples = <<>> /\ NoTrend.begun = 0 /\ NoTrend.at = 0
          /\ NoTrend \in [samples : Seq(Nat), begun : Nat, at : Nat]
      BY DEF NoTrend
    <3>3. 0 * Period = 0 /\ (0 - 1) * Period <= 0
      BY CardSizes
    <3>4. Row(<<>>, 0)
      BY DEF Row
    <3>5. TrendOK(NoTrend) /\ ~Drawn(NoTrend)
      BY <3>2, <3>3, <3>4, CardSizes DEF TrendOK, Drawn
    <3> QED
      BY <3>1, <3>2, <3>5 DEF CardInv, None
  <2> QED
    BY <2>1, <2>2, <2>3, <2>4 DEF CdInv
<1> QED
  BY <1>1, CdInductive, PTL DEF CdSpec

\* mem-card.js, scrub.js: the time under each sample of the trend is its own, within a period
\* and an answer, also across the wrap of millis(), the times never decrease, and guide,
\* rows and line agree, for rings, batches and trends of any size.
THEOREM CardIsTrue == CdSpec => []CardTrue
<1>1. CdInv => TrendDated
  <2> SUFFICES ASSUME CdInv PROVE TrendDated
    OBVIOUS
  <2>1. CASE WrappedMeanwhile
    BY <2>1 DEF TrendDated
  <2>2. CASE ~WrappedMeanwhile
    BY <2>2, TrendTimes DEF CdInv
  <2> QED
    BY <2>1, <2>2
<1>2. CdInv => CardAgrees
  <2> SUFFICES ASSUME CdInv PROVE CardAgrees
    OBVIOUS
  <2>1. /\ Points \in Nat /\ back \in Nat \cup {None}
        /\ Drawn(card.trend) => card.open /\ card.shown = card.trend.samples[Points]
    BY DEF CdInv, CardInv, Points
  <2>2. Drawn(card.trend) => Points >= 2
    BY DEF Drawn, Points
  <2>3. /\ Selected \in {None} \cup 0 .. Points - 1
        /\ Drawn(card.trend) /\ back # None => Selected # None
    BY <2>1, <2>2 DEF Selected, clamp, None
  <2> QED
    BY <2>1, <2>3 DEF CardAgrees
<1>3. CdInv => CardTrue
  BY <1>1, <1>2 DEF CardTrue
<1> QED
  BY <1>3, CdInvariant, PTL

-----------------------------------------------------------------------------
(* The frame stream.                                                       *)

\* Before the page has a frame it has no text, none open and none asked for; what the
\* page has a list of the device has, which loses nothing without a restart.
HeadInv ==
  /\ frames.n <= log.n
  /\ newest = NoHead =>
       frames.n <= 0 /\ view.open = 0 /\ texts = {} /\ bodies = NoCache
  /\ newest # NoHead => frames.n > 0

\* The newest frame came after the list the page has: it is younger than that list, and
\* than the newest frame in it would be by the least gap less what its answer took.
\* Otherwise it is that frame.
AgeInv ==
  newest # NoHead =>
    IF frames.lag > 0
    THEN /\ log.age <= newest.ago
         /\ log.age + MinGap <= newest.age + newest.ago + Latency
    ELSE log.age <= newest.age + newest.ago + Latency

\* A text kept was fetched after the list, or the frames have not moved since it was.
MovedInv ==
  \A k \in Pos \X Mode :
    bodies[k] # Absent => /\ k[1] - 1 <= bodies[k]
                          /\ bodies[k] <= k[1] - 1 + frames.lag

StInv == StTypeOK /\ HeadInv /\ AgeInv /\ MovedInv

\* The bounds of the frame stream.
LEMMA StreamSizes ==
  /\ LogSlots \in Nat /\ Poll \in Nat /\ Latency \in Nat /\ Slack \in Nat /\ MinGap \in Nat
  /\ MaxTexts \in Nat /\ MaxStale \in Nat /\ Gone \in Nat
  /\ LogSlots > 0 /\ Latency \in 1 .. Poll /\ MaxStale > Poll /\ Gone > LogSlots
  /\ MinGap > Slack + Latency /\ Wide \subseteq BOOLEAN
  BY StreamTabAssumption

\* A distance that grows keeps its range.
LEMMA FartherIs ==
  ASSUME NEW d \in -1 .. Gone
  PROVE  /\ Farther(d) \in -1 .. Gone
         /\ Farther(d) = Absent <=> d = Absent
         /\ d # Absent => d <= Farther(d) /\ Farther(d) <= d + 1
         /\ d # Absent => Farther(d) = Gone \/ Farther(d) = d + 1
         /\ d # Absent => Farther(d) > 0
  BY StreamSizes DEF Farther, Absent

\* A request for a text of the list asks for a text of the list.
LEMMA FetchTyped ==
  ASSUME NEW p \in Pos, NEW m \in Mode, NEW force, NEW kept, texts \subseteq Pos \X Mode,
         fetchText(p, m, force, kept)
  PROVE  texts' \subseteq Pos \X Mode
  BY DEF fetchText

\* What the page has of the device is kept apart from what it shows: the types.
LEMMA StTyped == StInv /\ [StNext]_stVars => StTypeOK'
<1> SUFFICES ASSUME StInv, [StNext]_stVars PROVE StTypeOK'
  OBVIOUS
<1>0. /\ StTypeOK
      /\ log \in [n : 0 .. LogSlots, age : 0 .. MaxAge]
      /\ frames \in [n : -1 .. LogSlots, age : 0 .. MaxAge, lag : 0 .. Gone]
      /\ newest \in [n : 0 .. LogSlots, age : 0 .. MaxAge, ago : 0 .. MaxStale]
      /\ poll \in [on : BOOLEAN, wait : 0 .. Poll]
      /\ view \in [wide : BOOLEAN, tail : BOOLEAN, mode : Mode, open : 0 .. LogSlots]
      /\ bodies \in [Pos \X Mode -> -1 .. Gone] /\ texts \subseteq Pos \X Mode
      /\ MaxAge \in Nat
  BY StreamSizes DEF StInv, StTypeOK, MaxAge
<1>n. NoCache \in [Pos \X Mode -> -1 .. Gone]
  BY StreamSizes DEF NoCache, Absent
<1>1. CASE push
  <2>1. log' \in [n : 0 .. LogSlots, age : 0 .. MaxAge]
    BY <1>0, <1>1, StreamSizes DEF push
  <2>2. frames' \in [n : -1 .. LogSlots, age : 0 .. MaxAge, lag : 0 .. Gone]
    <3>1. Farther(frames.lag) \in 0 .. Gone
      BY <1>0, StreamSizes DEF Farther, Absent
    <3> QED
      BY <1>0, <1>1, <3>1 DEF push
  <2>3. bodies' \in [Pos \X Mode -> -1 .. Gone]
    <3>1. \A k \in Pos \X Mode : Farther(bodies[k]) \in -1 .. Gone
      BY <1>0, FartherIs
    <3>2. bodies' = [k \in Pos \X Mode |-> Farther(bodies[k])]
      BY <1>0, <1>1 DEF push
    <3> QED
      BY <3>1, <3>2
  <2> QED
    BY <1>0, <1>1, <2>1, <2>2, <2>3 DEF push, StTypeOK
<1>2. CASE Tick
  <2>1. log' \in [n : 0 .. LogSlots, age : 0 .. MaxAge]
    BY <1>0, <1>2 DEF Tick, Older
  <2>2. poll' \in [on : BOOLEAN, wait : 0 .. Poll]
    BY <1>0, <1>2, StreamSizes DEF Tick
  <2>3. newest' \in [n : 0 .. LogSlots, age : 0 .. MaxAge, ago : 0 .. MaxStale]
    BY <1>0, <1>2, StreamSizes DEF Tick
  <2> QED
    BY <1>0, <1>2, <2>1, <2>2, <2>3 DEF Tick, StTypeOK
<1>3. CASE PollAsked \/ PollFails
  <2>1. poll' = [on |-> TRUE, wait |-> 0] \/ poll' = [poll EXCEPT !.on = FALSE]
    BY <1>3 DEF PollAsked, PollFails
  <2>2. poll' \in [on : BOOLEAN, wait : 0 .. Poll]
    <3>1. 0 \in 0 .. Poll /\ TRUE \in BOOLEAN /\ FALSE \in BOOLEAN
      BY StreamSizes
    <3>2. CASE poll' = [on |-> TRUE, wait |-> 0]
      BY <3>1, <3>2
    <3>3. CASE poll' = [poll EXCEPT !.on = FALSE]
      BY <1>0, <3>1, <3>3
    <3> QED
      BY <2>1, <3>2, <3>3
  <2>3. UNCHANGED <<log, frames, view, bodies, texts, newest>>
    BY <1>3 DEF PollAsked, PollFails
  <2> QED
    BY <1>0, <2>2, <2>3 DEF StTypeOK
<1>4. CASE PollArrives
  <2>1. PICK late \in 0 .. Latency :
          late <= log.age /\ taken([n |-> log.n, age |-> log.age - late, lag |-> 0])
    BY <1>4 DEF PollArrives
  <2> DEFINE f == [n |-> log.n, age |-> log.age - late, lag |-> 0]
  <2>2. log.age - late \in 0 .. MaxAge
    BY <1>0, <2>1, StreamSizes
  <2>3. f \in [n : 0 .. LogSlots, age : 0 .. MaxAge, lag : {0}]
    BY <1>0, <2>2
  <2>4. taken(f)
    BY <2>1
  <2> HIDE DEF f
  <2>5. /\ log' = log
        /\ frames' \in [n : -1 .. LogSlots, age : 0 .. MaxAge, lag : 0 .. Gone]
        /\ poll' \in [on : BOOLEAN, wait : 0 .. Poll]
    <3>1. log' = log
      BY <1>4 DEF PollArrives
    <3>2. frames' = f /\ poll' = [poll EXCEPT !.on = FALSE]
      BY <2>4 DEF taken
    <3>3. frames' \in [n : -1 .. LogSlots, age : 0 .. MaxAge, lag : 0 .. Gone]
      BY <2>3, <3>2, StreamSizes
    <3>4. poll' \in [on : BOOLEAN, wait : 0 .. Poll]
      BY <1>0, <3>2
    <3> QED
      BY <3>1, <3>3, <3>4
  <2>6. newest' \in [n : 0 .. LogSlots, age : 0 .. MaxAge, ago : 0 .. MaxStale]
    BY <1>0, <2>3, <2>4, StreamSizes DEF taken, NoHead
  <2>7. bodies' \in [Pos \X Mode -> -1 .. Gone]
    BY <1>0, <1>n, <2>4 DEF taken
  <2>8. /\ view' \in [wide : BOOLEAN, tail : BOOLEAN, mode : Mode, open : 0 .. LogSlots]
        /\ texts' \subseteq Pos \X Mode
    <3>1. 1 \in Pos /\ 1 \in 0 .. LogSlots /\ (view.open # 0 => view.open \in Pos) /\ view.mode \in Mode
      BY <1>0, StreamSizes DEF Pos
    <3>2. \/ view' = view /\ texts' = texts
          \/ view' = [view EXCEPT !.open = 1] /\ fetchText(1, view.mode, FALSE, bodies)
          \/ view' = view /\ view.open # 0 /\ fetchText(view.open, view.mode, TRUE, NoCache)
      BY <2>4 DEF taken
    <3> QED
      BY <1>0, <3>1, <3>2, FetchTyped
  <2> QED
    BY <1>0, <2>5, <2>6, <2>7, <2>8 DEF StTypeOK
<1>5. CASE TextArrives
  <2>1. PICK t \in texts : /\ bodies' = [bodies EXCEPT ![t] = t[1] - 1]
                           /\ texts' = texts \ {t}
    BY <1>5 DEF TextArrives
  <2>2. t[1] - 1 \in -1 .. Gone
    BY <1>0, <2>1, StreamSizes DEF Pos
  <2> QED
    BY <1>0, <1>5, <2>1, <2>2 DEF TextArrives, StTypeOK
<1>6. CASE TextFails
  BY <1>0, <1>6 DEF TextFails, StTypeOK
<1>7. CASE toggleOpen
  <2>1. PICK p \in 1 .. frames.n :
          IF view.open = p /\ ~view.wide
          THEN view' = [view EXCEPT !.open = 0] /\ UNCHANGED texts
          ELSE view' = [view EXCEPT !.open = p] /\ fetchText(p, view.mode, FALSE, bodies)
    BY <1>7 DEF toggleOpen
  <2>2. p \in Pos /\ p \in 0 .. LogSlots /\ view.mode \in Mode /\ 0 \in 0 .. LogSlots
    BY <1>0, <2>1, StreamSizes DEF Pos
  <2>3. /\ view' \in [wide : BOOLEAN, tail : BOOLEAN, mode : Mode, open : 0 .. LogSlots]
        /\ texts' \subseteq Pos \X Mode
    BY <1>0, <2>1, <2>2, FetchTyped
  <2> QED
    BY <1>0, <1>7, <2>3 DEF toggleOpen, StTypeOK
<1>8. CASE pickMode
  <2>1. PICK m \in Mode :
          /\ view' = [view EXCEPT !.mode = m]
          /\ IF view.open # 0 THEN fetchText(view.open, m, FALSE, bodies) ELSE UNCHANGED texts
    BY <1>8 DEF pickMode
  <2>2. view.open # 0 => view.open \in Pos
    BY <1>0, StreamSizes DEF Pos
  <2>3. /\ view' \in [wide : BOOLEAN, tail : BOOLEAN, mode : Mode, open : 0 .. LogSlots]
        /\ texts' \subseteq Pos \X Mode
    BY <1>0, <2>1, <2>2, FetchTyped
  <2> QED
    BY <1>0, <1>8, <2>3 DEF pickMode, StTypeOK
<1>9. CASE setTail
  <2>1. /\ view' \in [wide : BOOLEAN, tail : BOOLEAN, mode : Mode, open : 0 .. LogSlots]
        /\ poll' \in [on : BOOLEAN, wait : 0 .. Poll]
    <3>1. (~view.tail) \in BOOLEAN
      OBVIOUS
    <3>2. view' = [view EXCEPT !.tail = ~view.tail] /\ poll' = [on |-> ~view.tail, wait |-> 0]
      BY <1>9 DEF setTail
    <3>3. view' \in [wide : BOOLEAN, tail : BOOLEAN, mode : Mode, open : 0 .. LogSlots]
      BY <1>0, <3>1, <3>2
    <3>4. 0 \in 0 .. Poll
      BY StreamSizes
    <3> QED
      BY <3>1, <3>2, <3>3, <3>4
  <2> QED
    BY <1>0, <1>9, <2>1 DEF setTail, StTypeOK
<1>10. CASE UNCHANGED stVars
  BY <1>0, <1>10 DEF stVars, StTypeOK
<1> QED
  BY <1>1, <1>2, <1>3, <1>4, <1>5, <1>6, <1>7, <1>8, <1>9, <1>10 DEF StNext

\* A list that shows no arrival finds the frames where they were.
LEMMA NoArrivalStays ==
  ASSUME StInv, NEW f, f.age <= log.age, f.age \in Int,
         newest # NoHead, NoArrival(f)
  PROVE  frames.lag = 0
<1>0. /\ frames.lag \in Nat /\ log.age \in Nat /\ newest.age \in Nat /\ newest.ago \in 0 .. MaxStale
      /\ MaxAge = MaxStale + Latency + Slack + 1
  BY DEF StInv, StTypeOK, MaxAge
<1>1. CASE frames.lag > 0
  <2>1. log.age <= newest.ago /\ log.age + MinGap <= newest.age + newest.ago + Latency
    BY <1>1 DEF StInv, AgeInv
  <2>2. f.age # MaxAge
    BY <1>0, <2>1, StreamSizes
  <2>3. f.age + Slack >= newest.age + newest.ago
    BY <2>2 DEF NoArrival
  <2> QED
    BY <1>0, <2>1, <2>3, StreamSizes
<1> QED
  BY <1>0, <1>1

\* Each text kept is a frame at its position or one that the next list drops.
LEMMA StMoved == StInv /\ [StNext]_stVars => MovedInv'
<1> SUFFICES ASSUME StInv, [StNext]_stVars PROVE MovedInv'
  OBVIOUS
<1>0. /\ frames.lag \in 0 .. Gone /\ bodies \in [Pos \X Mode -> -1 .. Gone]
      /\ log.age \in Nat /\ log.n \in Nat /\ texts \subseteq Pos \X Mode
      /\ \A k \in Pos \X Mode : k[1] \in 1 .. LogSlots
  BY DEF StInv, StTypeOK, Pos
<1>m. \A k \in Pos \X Mode :
        bodies[k] # Absent => k[1] - 1 <= bodies[k] /\ bodies[k] <= k[1] - 1 + frames.lag
  BY DEF StInv, MovedInv
<1>1. CASE push
  <2>1. /\ frames'.lag = Farther(frames.lag)
        /\ \A k \in Pos \X Mode : bodies'[k] = Farther(bodies[k])
    <3>1. frames' = [frames EXCEPT !.lag = Farther(@)] /\ frames \in [n : -1 .. LogSlots, age : 0 .. MaxAge, lag : 0 .. Gone]
      BY <1>1 DEF push, StInv, StTypeOK
    <3>2. bodies' = [k \in Pos \X Mode |-> Farther(bodies[k])]
      BY <1>0, <1>1 DEF push
    <3> QED
      BY <3>1, <3>2
  <2> SUFFICES ASSUME NEW k \in Pos \X Mode, bodies'[k] # Absent
               PROVE  k[1] - 1 <= bodies'[k] /\ bodies'[k] <= k[1] - 1 + frames'.lag
    BY DEF MovedInv
  <2>2. bodies[k] \in -1 .. Gone /\ bodies'[k] = Farther(bodies[k]) /\ bodies[k] # Absent
    BY <1>0, <2>1, FartherIs
  <2>3. k[1] - 1 <= bodies[k] /\ bodies[k] <= k[1] - 1 + frames.lag /\ k[1] \in 1 .. LogSlots
    BY <1>0, <1>m, <2>2
  <2>4. bodies[k] <= Farther(bodies[k]) /\ Farther(bodies[k]) <= bodies[k] + 1
        /\ Farther(bodies[k]) \in -1 .. Gone
    BY <2>2, FartherIs
  <2>5. frames'.lag = Gone \/ frames'.lag = frames.lag + 1
    BY <1>0, <2>1, StreamSizes, FartherIs DEF Absent
  <2> QED
    BY <1>0, <2>2, <2>3, <2>4, <2>5, StreamSizes
<1>2. CASE PollArrives
  <2>1. PICK late \in 0 .. Latency :
          late <= log.age /\ taken([n |-> log.n, age |-> log.age - late, lag |-> 0])
    BY <1>2 DEF PollArrives
  <2> DEFINE f == [n |-> log.n, age |-> log.age - late, lag |-> 0]
  <2>2. f.age <= log.age /\ f.age \in Int /\ f.n = log.n /\ f.lag = 0
    BY <1>0, <2>1, StreamSizes
  <2>3. taken(f)
    BY <2>1
  <2> HIDE DEF f
  <2>4. frames'.lag = 0
    BY <2>2, <2>3 DEF taken
  <2>5. CASE bodies' = NoCache
    BY <2>5 DEF NoCache, MovedInv
  <2>6. CASE bodies' = bodies /\ (f.n = 0 \/ newest = NoHead \/ NoArrival(f))
    <3>1. newest = NoHead => bodies = NoCache
      BY DEF StInv, HeadInv
    <3>2. f.n = 0 => newest = NoHead
      <4>1. newest # NoHead => log.n > 0
        <5>1. frames.n \in -1 .. LogSlots /\ frames.n <= log.n
          BY DEF StInv, StTypeOK, HeadInv
        <5> QED
          BY <1>0, <5>1, StreamSizes DEF StInv, HeadInv
      <4> QED
        BY <2>2, <4>1
    <3>3. CASE newest = NoHead
      BY <2>6, <3>1, <3>3 DEF NoCache, MovedInv
    <3>4. CASE newest # NoHead
      <4>1. frames.lag = 0
        BY <2>2, <2>6, <3>2, <3>4, NoArrivalStays
      <4> QED
        BY <1>m, <2>4, <2>6, <4>1 DEF MovedInv
    <3> QED
      BY <3>3, <3>4
  <2> QED
    BY <2>3, <2>5, <2>6 DEF taken
<1>3. CASE TextArrives
  <2>1. PICK t \in texts : bodies' = [bodies EXCEPT ![t] = t[1] - 1] /\ frames' = frames
    BY <1>3 DEF TextArrives
  <2> SUFFICES ASSUME NEW k \in Pos \X Mode, bodies'[k] # Absent
               PROVE  k[1] - 1 <= bodies'[k] /\ bodies'[k] <= k[1] - 1 + frames'.lag
    BY DEF MovedInv
  <2>2. CASE k = t
    <3>1. bodies'[k] = k[1] - 1
      BY <1>0, <2>1, <2>2
    <3> QED
      BY <1>0, <2>1, <3>1
  <2>3. CASE k # t
    BY <1>0, <1>m, <2>1, <2>3
  <2> QED
    BY <2>2, <2>3
<1>4. CASE Tick \/ PollAsked \/ PollFails \/ TextFails \/ toggleOpen \/ pickMode \/ setTail
           \/ UNCHANGED stVars
  <2>1. bodies' = bodies /\ frames' = frames
    BY <1>4 DEF Tick, PollAsked, PollFails, TextFails, toggleOpen, pickMode, setTail, stVars
  <2> QED
    BY <1>m, <2>1 DEF MovedInv
<1> QED
  BY <1>1, <1>2, <1>3, <1>4 DEF StNext

\* How old the newest frame is when it is the one of the list, and when not.
LEMMA StAges == StInv /\ [StNext]_stVars => AgeInv'
<1> SUFFICES ASSUME StInv, [StNext]_stVars PROVE AgeInv'
  OBVIOUS
<1>0. /\ log \in [n : 0 .. LogSlots, age : 0 .. MaxAge]
      /\ frames \in [n : -1 .. LogSlots, age : 0 .. MaxAge, lag : 0 .. Gone]
      /\ newest \in [n : 0 .. LogSlots, age : 0 .. MaxAge, ago : 0 .. MaxStale]
      /\ MaxAge = MaxStale + Latency + Slack + 1 /\ MaxAge \in Nat
  BY StreamSizes DEF StInv, StTypeOK, MaxAge
<1>a. newest # NoHead =>
        IF frames.lag > 0
        THEN /\ log.age <= newest.ago
             /\ log.age + MinGap <= newest.age + newest.ago + Latency
        ELSE log.age <= newest.age + newest.ago + Latency
  BY DEF StInv, AgeInv
<1>1. CASE push
  <2>1. newest' = newest /\ log.age >= MinGap /\ log'.age = 0
    BY <1>0, <1>1 DEF push
  <2>2. newest # NoHead => MinGap <= newest.age + newest.ago + Latency
    BY <1>0, <1>a, <2>1, StreamSizes
  <2>3. newest.age \in Nat /\ newest.ago \in Nat
    BY <1>0
  <2> QED
    BY <2>1, <2>2, <2>3, StreamSizes DEF AgeInv
<1>2. CASE Tick
  <2>1. /\ frames' = frames
        /\ log'.age <= log.age + 1 /\ log'.age \in Nat
    BY <1>0, <1>2 DEF Tick, Older
  <2>2. CASE newest # NoHead
    <3>1. newest' = [newest EXCEPT !.ago = newest.ago + 1]
      BY <1>2, <2>2 DEF Tick
    <3>2. newest'.age = newest.age /\ newest'.ago = newest.ago + 1
      BY <1>0, <3>1
    <3> QED
      BY <1>0, <1>a, <2>1, <2>2, <3>2, StreamSizes DEF AgeInv
  <2>3. CASE newest = NoHead
    <3>1. newest' = newest
      BY <1>0, <1>2, <2>3 DEF Tick
    <3> QED
      BY <2>3, <3>1 DEF AgeInv, NoHead
  <2> QED
    BY <2>2, <2>3
<1>3. CASE PollArrives
  <2>1. PICK late \in 0 .. Latency :
          late <= log.age /\ taken([n |-> log.n, age |-> log.age - late, lag |-> 0])
    BY <1>3 DEF PollArrives
  <2>2. /\ log' = log /\ frames'.lag = 0
        /\ newest' = IF log.n = 0 THEN NoHead ELSE [n |-> log.n, age |-> log.age - late, ago |-> 0]
    BY <1>3, <2>1 DEF PollArrives, taken
  <2>3. newest' # NoHead => newest'.age = log.age - late /\ newest'.ago = 0
    BY <2>2
  <2> QED
    BY <1>0, <2>1, <2>2, <2>3, StreamSizes DEF AgeInv
<1>4. CASE PollAsked \/ PollFails \/ TextArrives \/ TextFails \/ toggleOpen \/ pickMode \/ setTail
           \/ UNCHANGED stVars
  <2>1. log' = log /\ frames' = frames /\ newest' = newest
    BY <1>4 DEF PollAsked, PollFails, TextArrives, TextFails, toggleOpen, pickMode, setTail, stVars
  <2> QED
    BY <1>a, <2>1 DEF AgeInv
<1> QED
  BY <1>1, <1>2, <1>3, <1>4 DEF StNext

\* Until the first frame there is nothing to open, and after it the ring is never empty.
LEMMA StHead == StInv /\ [StNext]_stVars => HeadInv'
<1> SUFFICES ASSUME StInv, [StNext]_stVars PROVE HeadInv'
  OBVIOUS
<1>0. /\ log \in [n : 0 .. LogSlots, age : 0 .. MaxAge]
      /\ frames \in [n : -1 .. LogSlots, age : 0 .. MaxAge, lag : 0 .. Gone]
      /\ bodies \in [Pos \X Mode -> -1 .. Gone] /\ texts \subseteq Pos \X Mode
      /\ newest \in [n : 0 .. LogSlots, age : 0 .. MaxAge, ago : 0 .. MaxStale]
      /\ frames.n <= log.n
      /\ newest = NoHead =>
           frames.n <= 0 /\ view.open = 0 /\ texts = {} /\ bodies = NoCache
      /\ newest # NoHead => frames.n > 0
  BY DEF StInv, StTypeOK, HeadInv
<1>1. CASE push
  <2>1. /\ newest' = newest /\ view' = view /\ texts' = texts
        /\ log'.n >= log.n /\ frames'.n = frames.n /\ log'.n \in Nat
    BY <1>0, <1>1 DEF push
  <2>2. bodies = NoCache => bodies' = NoCache
    BY <1>1 DEF push, NoCache, Farther
  <2> QED
    BY <1>0, <2>1, <2>2 DEF HeadInv
<1>2. CASE Tick
  <2>1. /\ UNCHANGED <<frames, view, bodies, texts>> /\ log'.n = log.n
    BY <1>0, <1>2 DEF Tick
  <2>2. newest' = NoHead <=> newest = NoHead
    <3>1. CASE newest # NoHead
      <4>1. newest'.ago = newest.ago + 1
        <5>1. newest' = [newest EXCEPT !.ago = newest.ago + 1]
          BY <1>2, <3>1 DEF Tick
        <5> QED
          BY <1>0, <5>1
      <4> QED
        BY <1>0, <3>1, <4>1 DEF NoHead
    <3>2. CASE newest = NoHead
      BY <1>0, <1>2, <3>2 DEF Tick
    <3> QED
      BY <3>1, <3>2
  <2> QED
    BY <1>0, <2>1, <2>2 DEF HeadInv
<1>3. CASE PollArrives
  <2>1. PICK late \in 0 .. Latency :
          late <= log.age /\ taken([n |-> log.n, age |-> log.age - late, lag |-> 0])
    BY <1>3 DEF PollArrives
  <2> DEFINE f == [n |-> log.n, age |-> log.age - late, lag |-> 0]
  <2>2. log' = log /\ f.n = log.n /\ taken(f)
    BY <1>3, <2>1 DEF PollArrives
  <2> HIDE DEF f
  <2>3. frames'.n = log.n
    BY <2>2 DEF taken
  <2>4. ASSUME newest' = NoHead PROVE frames'.n <= 0 /\ view'.open = 0 /\ texts' = {} /\ bodies' = NoCache
    <3>1. f.n = 0
      <4>1. CASE f.n # 0
        <5>1. newest'.n = f.n
          BY <2>2, <4>1 DEF taken
        <5> QED
          BY <2>4, <4>1, <5>1 DEF NoHead
      <4> QED
        BY <4>1
    <3>2. newest = NoHead
      BY <1>0, <2>2, <3>1
    <3>3. view' = view /\ texts' = texts /\ bodies' = bodies
      BY <2>2, <3>1 DEF taken
    <3> QED
      BY <1>0, <2>2, <2>3, <3>1, <3>2, <3>3
  <2>5. newest' # NoHead => f.n # 0
    BY <2>2 DEF taken
  <2> QED
    BY <1>0, <2>2, <2>3, <2>4, <2>5 DEF HeadInv
<1>4. CASE TextArrives \/ TextFails
  <2>1. /\ UNCHANGED <<log, frames, view, newest>> /\ texts # {}
    BY <1>4 DEF TextArrives, TextFails
  <2> QED
    BY <1>0, <2>1 DEF HeadInv
<1>5. CASE toggleOpen
  <2>1. frames.n >= 1 /\ UNCHANGED <<log, frames, newest>>
    BY <1>0, <1>5 DEF toggleOpen
  <2> QED
    BY <1>0, <2>1 DEF HeadInv
<1>6. CASE pickMode
  <2>1. UNCHANGED <<log, frames, bodies, newest>>
    BY <1>6 DEF pickMode
  <2>2. view'.open = view.open /\ (view.open = 0 => texts' = texts)
    BY <1>6 DEF pickMode, StInv, StTypeOK
  <2> QED
    BY <1>0, <2>1, <2>2 DEF HeadInv
<1>7. CASE setTail
  <2>1. UNCHANGED <<log, frames, bodies, texts, newest>> /\ view'.open = view.open
    BY <1>7 DEF setTail, StInv, StTypeOK
  <2> QED
    BY <1>0, <2>1 DEF HeadInv
<1>8. CASE PollAsked \/ PollFails \/ UNCHANGED stVars
  <2>1. UNCHANGED <<log, frames, view, bodies, texts, newest>>
    BY <1>8 DEF PollAsked, PollFails, stVars
  <2> QED
    BY <1>0, <2>1 DEF HeadInv
<1> QED
  BY <1>1, <1>2, <1>3, <1>4, <1>5, <1>6, <1>7, <1>8 DEF StNext

\* stream-tab.js:58-71: when the list is the device's, the text under a header is of that
\* frame, however captures, lists and texts overtake each other, for rings of any size, as
\* long as the device is not restarted (with a restart it fails, run stream_after_restart).
THEOREM FramesAreTrue == StSpec => []FramesTrue
<1>1. StInit => StInv
  <2> SUFFICES ASSUME StInit PROVE StInv
    OBVIOUS
  <2>1. StTypeOK
    <3>1. MaxAge \in Nat /\ Absent = -1 /\ 0 \in 0 .. LogSlots /\ 0 \in 0 .. MaxStale
          /\ 0 \in 0 .. Poll /\ 0 \in 0 .. Gone /\ 0 \in 0 .. MaxAge /\ MaxAge \in 0 .. MaxAge
          /\ -1 \in -1 .. LogSlots /\ -1 \in -1 .. Gone
      BY StreamSizes DEF MaxAge, Absent
    <3>2. /\ log = [n |-> 0, age |-> MaxAge] /\ frames = [n |-> -1, age |-> 0, lag |-> 0]
          /\ newest = [n |-> 0, age |-> 0, ago |-> 0] /\ poll = [on |-> TRUE, wait |-> 0]
          /\ view \in [wide : Wide, tail : {TRUE}, mode : Mode, open : {0}]
          /\ bodies = [k \in Pos \X Mode |-> -1] /\ texts = {}
      BY <3>1 DEF StInit, NoList, NoHead, NoCache
    <3>3. log \in [n : 0 .. LogSlots, age : 0 .. MaxAge] /\ bodies \in [Pos \X Mode -> -1 .. Gone]
      BY <3>1, <3>2
    <3>4. /\ frames \in [n : -1 .. LogSlots, age : 0 .. MaxAge, lag : 0 .. Gone]
          /\ newest \in [n : 0 .. LogSlots, age : 0 .. MaxAge, ago : 0 .. MaxStale]
      BY <3>1, <3>2
    <3>5. TRUE \in BOOLEAN /\ {TRUE} \subseteq BOOLEAN /\ Wide \subseteq BOOLEAN
      BY StreamSizes
    <3>6. poll \in [on : BOOLEAN, wait : 0 .. Poll]
      BY <3>1, <3>2, <3>5
    <3>7. view \in [wide : BOOLEAN, tail : BOOLEAN, mode : Mode, open : 0 .. LogSlots]
      BY <3>1, <3>2, <3>5
    <3> QED
      BY <3>2, <3>3, <3>4, <3>6, <3>7 DEF StTypeOK
  <2>2. HeadInv
    BY StreamSizes DEF StInit, HeadInv, NoList, Absent
  <2> QED
    BY <2>1, <2>2 DEF StInit, StInv, AgeInv, MovedInv, NoCache
<1>2. StInv /\ [StNext]_stVars => StInv'
  BY StTyped, StHead, StAges, StMoved DEF StInv
<1>3. StInv => FramesTrue
  <2> SUFFICES ASSUME StInv PROVE FramesTrue
    OBVIOUS
  <2>1. ASSUME Settled, view.tail, frames.lag = 0 PROVE Body = Header
    <3> DEFINE k == <<view.open, view.mode>>
    <3>1. view.open \in 1 .. LogSlots /\ view.mode \in Mode
      BY <2>1 DEF Settled, StInv, StTypeOK
    <3>2. k \in Pos \X Mode /\ bodies[k] # Absent
      BY <2>1, <3>1 DEF Settled, Body, Pos
    <3>3. k[1] - 1 <= bodies[k] /\ bodies[k] <= k[1] - 1 + frames.lag
      BY <3>2 DEF StInv, MovedInv
    <3>4. bodies[k] \in Int
      BY <3>2 DEF StInv, StTypeOK
    <3> QED
      BY <2>1, <3>1, <3>3, <3>4 DEF Body, Header
  <2> QED
    BY <2>1 DEF FramesTrue, BodyOfHeader, StInv
<1> QED
  BY <1>1, <1>2, <1>3, PTL DEF StSpec

=============================================================================

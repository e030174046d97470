--------------------------- MODULE EventLogProofs ---------------------------
(***************************************************************************)
(* Proofs about EventLog, for rings of any size, any window, rate limit    *)
(* and number of restarts: entries survive in the order they were begun,   *)
(* repeats reach the flash in time, the dates of this boot's entries are   *)
(* exact and complete once there is a clock, and an update is recorded     *)
(* before it is forgotten.                                                 *)
(*                                                                         *)
(* The last section is about MCFlashLogs, which checks the event log next  *)
(* to the two instances of HistStore: what HistStoreProofs proves of the   *)
(* store carries over to the instance whose writes fail.                   *)
(***************************************************************************)
EXTENDS MCFlashLogs, TLAPS

-----------------------------------------------------------------------------
(* The ring.                                                               *)

LEMMA LogSizes ==
  /\ Cap \in Nat /\ Cap > 0 /\ FoldWindow \in Nat /\ FlushPeriod \in Nat /\ MaxRepeat \in Nat
  /\ MaxSeconds \in Nat /\ MaxSeconds > 0 /\ MaxBoots \in Nat /\ MaxImages \in Nat
  /\ MaxFaults \in Nat
BY SizesAssumption

\* A sum of less than two turns, reduced to a slot of the ring.
LEMMA OneTurn ==
  ASSUME NEW x \in Nat, x < Cap + Cap
  PROVE  x % Cap = IF x < Cap THEN x ELSE x - Cap
<1>1. \A y \in Nat : y < Cap => y % Cap = y /\ (y + Cap) % Cap = y
  BY LogSizes
<1>2. CASE x < Cap
  BY <1>1, <1>2
<1>3. CASE ~ (x < Cap)
  <2> DEFINE y == x - Cap
  <2>1. y \in Nat /\ y < Cap /\ x = y + Cap
    BY <1>3, LogSizes
  <2>2. (y + Cap) % Cap = y
    BY <1>1, <2>1
  <2> QED
    BY <1>3, <2>1, <2>2
<1> QED
  BY <1>2, <1>3

\* The slot of the i-th of c entries behind the head h.
RingSlot(h, c, i) == IF i < c - h THEN h + Cap - c + i ELSE h - c + i

LEMMA SlotOf ==
  ASSUME NEW b \in Blob, NEW i \in 0 .. b.count - 1
  PROVE  EntrySlot(b, i) = RingSlot(b.head, b.count, i) /\ EntrySlot(b, i) \in 0 .. Cap - 1
<1>1. b.head \in 0 .. Cap - 1 /\ b.count \in 0 .. Cap
  BY DEF Blob
<1>2. b.head + Cap - b.count + i \in Nat /\ b.head + Cap - b.count + i < Cap + Cap
  BY <1>1, LogSizes
<1>3. (b.head + Cap - b.count + i) % Cap =
        IF b.head + Cap - b.count + i < Cap THEN b.head + Cap - b.count + i
                                            ELSE (b.head + Cap - b.count + i) - Cap
  BY <1>2, OneTurn
<1> QED
  BY <1>1, <1>3, LogSizes DEF EntrySlot, RingSlot

\* Different entries are in different slots, and the newest is in NewestSlot.
LEMMA SlotsDiffer ==
  ASSUME NEW b \in Blob, NEW i \in 0 .. b.count - 1, NEW j \in 0 .. b.count - 1,
         EntrySlot(b, i) = EntrySlot(b, j)
  PROVE  i = j
<1>1. b.head \in 0 .. Cap - 1 /\ b.count \in 0 .. Cap
  BY DEF Blob
<1>2. RingSlot(b.head, b.count, i) = RingSlot(b.head, b.count, j)
  BY SlotOf
<1> QED
  BY <1>1, <1>2, LogSizes DEF RingSlot

LEMMA NewestIs ==
  ASSUME NEW b \in Blob, b.count > 0
  PROVE  NewestSlot(b) = EntrySlot(b, b.count - 1) /\ EntryAt(b, b.count - 1) = b.e[NewestSlot(b)]
<1>1. b.head \in 0 .. Cap - 1 /\ b.count \in 0 .. Cap /\ b.count - 1 \in 0 .. b.count - 1
  BY LogSizes DEF Blob
<1>2. b.head + Cap - 1 = b.head + Cap - b.count + (b.count - 1)
  BY <1>1, LogSizes
<1> QED
  BY <1>2 DEF NewestSlot, EntrySlot, EntryAt

LEMMA EntryTyped ==
  ASSUME NEW b \in Blob, NEW i \in 0 .. b.count - 1
  PROVE  EntryAt(b, i) \in Entry
BY SlotOf DEF EntryAt, Blob

\* The ring with x pushed, and the ring with its newest entry replaced by x.
Pushed(b, x) ==
  [e |-> [b.e EXCEPT ![b.head] = x],
   head |-> (b.head + 1) % Cap,
   count |-> IF b.count < Cap THEN b.count + 1 ELSE b.count]

Replaced(b, x) == [b EXCEPT !.e[NewestSlot(b)] = x]

\* How many entries a push drops.
Drop(b) == IF b.count < Cap THEN 0 ELSE 1

\* A push moves the head on and leaves the other entries where they are.
LEMMA HeadMoves ==
  ASSUME NEW h \in 0 .. Cap - 1
  PROVE  (h + 1) % Cap = IF h = Cap - 1 THEN 0 ELSE h + 1
<1>1. h + 1 \in Nat /\ h + 1 < Cap + Cap
  BY LogSizes
<1> QED
  BY <1>1, OneTurn, LogSizes

LEMMA SlotsStay ==
  ASSUME NEW h \in 0 .. Cap - 1, NEW c \in 0 .. Cap, NEW g, NEW n, NEW d,
         g = IF h = Cap - 1 THEN 0 ELSE h + 1,
         n = IF c < Cap THEN c + 1 ELSE c, d = IF c < Cap THEN 0 ELSE 1
  PROVE  /\ RingSlot(g, n, n - 1) = h
         /\ \A i \in 0 .. n - 2 : /\ i + d \in 0 .. c - 1
                                 /\ RingSlot(g, n, i) = RingSlot(h, c, i + d)
                                 /\ RingSlot(h, c, i + d) # h
<1>1. RingSlot(g, n, n - 1) = h
  BY LogSizes DEF RingSlot
<1> SUFFICES ASSUME NEW i \in 0 .. n - 2
             PROVE  /\ i + d \in 0 .. c - 1
                    /\ RingSlot(g, n, i) = RingSlot(h, c, i + d)
                    /\ RingSlot(h, c, i + d) # h
  BY <1>1
<1>2. CASE c < Cap
  BY <1>2, LogSizes DEF RingSlot
<1>3. CASE ~ (c < Cap)
  BY <1>3, LogSizes DEF RingSlot
<1> QED
  BY <1>2, <1>3

LEMMA PushedAt ==
  ASSUME NEW b \in Blob, NEW x \in Entry
  PROVE  /\ Pushed(b, x) \in Blob
         /\ Pushed(b, x).count = b.count + 1 - Drop(b)
         /\ EntryAt(Pushed(b, x), Pushed(b, x).count - 1) = x
         /\ \A i \in 0 .. Pushed(b, x).count - 2 :
              i + Drop(b) \in 0 .. b.count - 1 /\ EntryAt(Pushed(b, x), i) = EntryAt(b, i + Drop(b))
<1> DEFINE p == Pushed(b, x)
<1>1. /\ b.head \in 0 .. Cap - 1 /\ b.count \in 0 .. Cap /\ b.e \in [0 .. Cap - 1 -> Entry]
  BY DEF Blob
<1>2. /\ p.e = [b.e EXCEPT ![b.head] = x] /\ p.head = (b.head + 1) % Cap
      /\ p.count = IF b.count < Cap THEN b.count + 1 ELSE b.count
  BY DEF Pushed
<1>3. p.head = IF b.head = Cap - 1 THEN 0 ELSE b.head + 1
  BY <1>1, <1>2, HeadMoves
<1>4. /\ p.head \in 0 .. Cap - 1 /\ p.count \in 1 .. Cap /\ p.e \in [0 .. Cap - 1 -> Entry]
  BY <1>1, <1>2, <1>3, LogSizes
<1>5. p \in Blob
  <2>1. p = [e |-> p.e, head |-> p.head, count |-> p.count]
    BY DEF Pushed
  <2>2. p.count \in 0 .. Cap
    BY <1>4, LogSizes
  <2> QED
    BY <1>4, <2>1, <2>2 DEF Blob
<1>6. p.count = b.count + 1 - Drop(b)
  BY <1>1, <1>2, LogSizes DEF Drop
<1>7. p.e[b.head] = x /\ \A k \in 0 .. Cap - 1 : k # b.head => p.e[k] = b.e[k]
  BY <1>1, <1>2
<1>8. EntryAt(p, p.count - 1) = x
  <2>1. p.count - 1 \in 0 .. p.count - 1
    BY <1>4, LogSizes
  <2>2. EntrySlot(p, p.count - 1) = RingSlot(p.head, p.count, p.count - 1)
    BY <1>5, <2>1, SlotOf
  <2>3. RingSlot(p.head, p.count, p.count - 1) = b.head
    BY <1>1, <1>2, <1>3, SlotsStay
  <2> QED
    BY <1>7, <2>2, <2>3 DEF EntryAt
<1>9. ASSUME NEW i \in 0 .. p.count - 2
      PROVE  i + Drop(b) \in 0 .. b.count - 1 /\ EntryAt(p, i) = EntryAt(b, i + Drop(b))
  <2>1. i + Drop(b) \in 0 .. b.count - 1 /\ i \in 0 .. p.count - 1
    BY <1>1, <1>4, <1>6, <1>9, LogSizes DEF Drop
  <2>2. /\ EntrySlot(p, i) = RingSlot(p.head, p.count, i)
        /\ EntrySlot(b, i + Drop(b)) = RingSlot(b.head, b.count, i + Drop(b))
        /\ EntrySlot(b, i + Drop(b)) \in 0 .. Cap - 1
    BY <1>5, <2>1, SlotOf
  <2>3. RingSlot(p.head, p.count, i) = RingSlot(b.head, b.count, i + Drop(b))
        /\ RingSlot(b.head, b.count, i + Drop(b)) # b.head
    <3>1. \A k \in 0 .. p.count - 2 :
            /\ RingSlot(p.head, p.count, k) = RingSlot(b.head, b.count, k + Drop(b))
            /\ RingSlot(b.head, b.count, k + Drop(b)) # b.head
      <4> DEFINE g == p.head
                 n == p.count
                 d == Drop(b)
      <4>1. d = IF b.count < Cap THEN 0 ELSE 1
        BY DEF Drop
      <4>2. /\ g = IF b.head = Cap - 1 THEN 0 ELSE b.head + 1
            /\ n = IF b.count < Cap THEN b.count + 1 ELSE b.count
        BY <1>2, <1>3
      <4> HIDE DEF g, n, d
      <4>3. \A k \in 0 .. n - 2 : RingSlot(g, n, k) = RingSlot(b.head, b.count, k + d)
                                   /\ RingSlot(b.head, b.count, k + d) # b.head
        <5>1. ASSUME NEW h \in 0 .. Cap - 1, NEW c \in 0 .. Cap,
                     g = IF h = Cap - 1 THEN 0 ELSE h + 1,
                     n = IF c < Cap THEN c + 1 ELSE c, d = IF c < Cap THEN 0 ELSE 1
              PROVE  \A k \in 0 .. n - 2 : RingSlot(g, n, k) = RingSlot(h, c, k + d) /\ RingSlot(h, c, k + d) # h
          BY <5>1, SlotsStay
        <5>2. b.head \in 0 .. Cap - 1 /\ b.count \in 0 .. Cap
          BY <1>1
        <5> QED
          BY <4>1, <4>2, <5>1, <5>2
      <4> QED
        BY <4>3 DEF g, n, d
    <3> QED
      BY <1>9, <3>1
  <2> QED
    BY <1>7, <2>1, <2>2, <2>3 DEF EntryAt
<1> QED
  BY <1>5, <1>6, <1>8, <1>9

LEMMA ReplacedAt ==
  ASSUME NEW b \in Blob, NEW x \in Entry, b.count > 0
  PROVE  /\ Replaced(b, x) \in Blob /\ Replaced(b, x).count = b.count
         /\ EntryAt(Replaced(b, x), b.count - 1) = x
         /\ \A i \in 0 .. b.count - 2 : EntryAt(Replaced(b, x), i) = EntryAt(b, i)
<1> DEFINE r == Replaced(b, x)
<1>1. /\ b.head \in 0 .. Cap - 1 /\ b.count \in 0 .. Cap /\ b.e \in [0 .. Cap - 1 -> Entry]
  BY DEF Blob
<1>2. b.count - 1 \in 0 .. b.count - 1
  BY <1>1, LogSizes
<1>3. NewestSlot(b) = EntrySlot(b, b.count - 1) /\ NewestSlot(b) \in 0 .. Cap - 1
  BY <1>2, NewestIs, SlotOf
<1>4. r = [e |-> [b.e EXCEPT ![NewestSlot(b)] = x], head |-> b.head, count |-> b.count]
  BY DEF Replaced, Blob
<1>5. r \in Blob /\ r.count = b.count /\ r.head = b.head /\ r.e = [b.e EXCEPT ![NewestSlot(b)] = x]
  BY <1>1, <1>3, <1>4 DEF Blob
<1> HIDE DEF r
<1>6. \A i : EntrySlot(r, i) = EntrySlot(b, i)
  BY <1>5 DEF EntrySlot
<1>7. EntryAt(r, b.count - 1) = x
  BY <1>1, <1>3, <1>5, <1>6 DEF EntryAt
<1>8. ASSUME NEW i \in 0 .. b.count - 2 PROVE EntryAt(r, i) = EntryAt(b, i)
  <2>1. i \in 0 .. b.count - 1 /\ i # b.count - 1
    BY <1>1, LogSizes
  <2>2. EntrySlot(b, i) # NewestSlot(b) /\ EntrySlot(b, i) \in 0 .. Cap - 1
    BY <1>2, <1>3, <2>1, SlotsDiffer, SlotOf
  <2> QED
    BY <1>1, <1>3, <1>5, <1>6, <2>2 DEF EntryAt
<1> QED
  BY <1>5, <1>7, <1>8 DEF r

-----------------------------------------------------------------------------
(* Entries.                                                                *)

Kinds == Events \cup Reasons \cup {Ota, Storage, Asked}

\* What log_event_ begins.
Begun(ev) == [ev |-> ev, epoch |-> Epoch, up |-> Uptime, repeat |-> 0,
              born |-> boots, at |-> time, serial |-> total + 1]

\* Time does not run backwards within a boot.
ClockInv ==
  /\ time \in Nat /\ bootAt \in Nat /\ bootAt > 0 /\ bootAt <= time /\ synced \in BOOLEAN
  /\ boots \in Nat /\ total \in Nat

LEMMA BegunEntry ==
  ASSUME ClockInv, NEW ev \in Kinds
  PROVE  /\ Begun(ev) \in Entry /\ Begun(ev).ev = ev /\ Begun(ev).born = boots
         /\ Begun(ev).serial = total + 1 /\ Begun(ev).at = time /\ Begun(ev).up = Uptime
         /\ Begun(ev).epoch = IF synced THEN time ELSE 0
<1>1. Uptime \in Nat /\ Epoch \in Nat /\ total + 1 \in Nat /\ 0 \in 0 .. MaxRepeat
  BY LogSizes DEF ClockInv, Uptime, Epoch
<1> QED
  BY <1>1 DEF Begun, Entry, Kinds, ClockInv, Epoch

LEMMA AgainEntry ==
  ASSUME ClockInv, NEW x \in Entry
  PROVE  /\ Again(x) \in Entry /\ Again(x).ev = x.ev /\ Again(x).born = x.born
         /\ Again(x).serial = x.serial /\ Again(x).at = time /\ Again(x).up = Uptime
         /\ Again(x).epoch = IF synced THEN time ELSE x.epoch
<1> DEFINE r == IF x.repeat < MaxRepeat THEN x.repeat + 1 ELSE x.repeat
           p == IF synced THEN Epoch ELSE x.epoch
<1>1. Uptime \in Nat /\ r \in 0 .. MaxRepeat /\ p \in Nat /\ time \in Nat
  BY LogSizes DEF ClockInv, Uptime, Epoch, Entry
<1>2. p = IF synced THEN time ELSE x.epoch
  BY DEF Epoch
<1>3. Again(x) = [x EXCEPT !.repeat = r, !.up = Uptime, !.epoch = p, !.at = time]
  BY DEF Again
<1> HIDE DEF r, p
<1> QED
  BY <1>1, <1>2, <1>3 DEF Entry

LEMMA DatedEntry ==
  ASSUME ClockInv, NEW x \in Entry, x.up <= Uptime
  PROVE  /\ Dated(x) \in Entry /\ Dated(x).ev = x.ev /\ Dated(x).born = x.born
         /\ Dated(x).serial = x.serial /\ Dated(x).at = x.at /\ Dated(x).up = x.up
         /\ Dated(x).epoch = bootAt + x.up
<1>1. time - (Uptime - x.up) = bootAt + x.up /\ bootAt + x.up \in Nat
  BY DEF ClockInv, Uptime, Entry
<1>2. Dated(x) = [x EXCEPT !.epoch = bootAt + x.up]
  BY <1>1 DEF Dated
<1> QED
  BY <1>1, <1>2 DEF Entry

\* What log_event_ does to the log b: a repeat, or a new entry that goes to NVS.
Repeated(b, ev, f) ==
  /\ b.count > 0 /\ EntryAt(b, b.count - 1).ev = ev
  /\ log' = Replaced(b, Again(EntryAt(b, b.count - 1)))
  /\ dirty' = TRUE /\ faults' = f /\ onFlash' = onFlash /\ flushAt' = flushAt /\ total' = total
Recorded(b, ev, f) ==
  /\ log' = Pushed(b, Begun(ev)) /\ total' = total + 1
  /\ dirty' = FALSE /\ flushAt' = Uptime
  /\ \/ onFlash' = log' /\ faults' = f
     \/ f < MaxFaults /\ faults' = f + 1 /\ onFlash' = onFlash

LEMMA FoldIs ==
  ASSUME NEW b \in Blob, NEW ev, Folds(b, ev)
  PROVE  /\ b.count > 0 /\ EntryAt(b, b.count - 1).ev = ev
         /\ Extended(b, ev) = Replaced(b, Again(EntryAt(b, b.count - 1)))
<1>1. b.count > 0 /\ b.e[NewestSlot(b)].ev = ev
  BY DEF Folds
<1>2. EntryAt(b, b.count - 1) = b.e[NewestSlot(b)]
  BY <1>1, NewestIs
<1>3. Fold(b) = Replaced(b, Again(b.e[NewestSlot(b)]))
  BY DEF Fold, Replaced
<1> QED
  BY <1>1, <1>2, <1>3 DEF Extended

LEMMA PushIs ==
  ASSUME NEW b, NEW ev, ~ Folds(b, ev)
  PROVE  Extended(b, ev) = Pushed(b, Begun(ev))
BY DEF Extended, PushEntry, Pushed, Begun

LEMMA EventEither ==
  ASSUME NEW b \in Blob, NEW ev, NEW f, LogEvent(b, ev, f)
  PROVE  Repeated(b, ev, f) \/ Recorded(b, ev, f)
<1>1. CASE Folds(b, ev)
  BY <1>1, FoldIs DEF LogEvent, Repeated
<1>2. CASE ~ Folds(b, ev)
  BY <1>2, PushIs DEF LogEvent, Recorded, SaveBlob
<1> QED
  BY <1>1, <1>2

-----------------------------------------------------------------------------
(* What a log, in RAM or on flash, says.                                   *)

\* In the order they were begun: n entries so far, the latest in boot k.
InLine(b, n, k) ==
  /\ \A i \in 0 .. b.count - 1 : EntryAt(b, i).serial <= n /\ EntryAt(b, i).born <= k
  /\ \A i, j \in 0 .. b.count - 1 : i < j =>
       /\ EntryAt(b, i).serial < EntryAt(b, j).serial
       /\ EntryAt(b, i).born <= EntryAt(b, j).born

\* The entries of boot k, which began at second s and is in second t: their
\* uptimes and dates are those of the second they last happened in.
Exact(b, k, s, t) ==
  \A i \in 0 .. b.count - 1 : EntryAt(b, i).born = k =>
    /\ EntryAt(b, i).at = s + EntryAt(b, i).up /\ EntryAt(b, i).at <= t
    /\ EntryAt(b, i).epoch # 0 => EntryAt(b, i).epoch = EntryAt(b, i).at

\* All of them dated; none; dated or not alike.
AllDated(b, k) == \A i \in 0 .. b.count - 1 : EntryAt(b, i).born = k => EntryAt(b, i).epoch # 0
Undated(b, k) == \A i \in 0 .. b.count - 1 : EntryAt(b, i).born = k => EntryAt(b, i).epoch = 0
Alike(b, k) ==
  \A i, j \in 0 .. b.count - 1 : EntryAt(b, i).born = k /\ EntryAt(b, j).born = k =>
    (EntryAt(b, i).epoch = 0 <=> EntryAt(b, j).epoch = 0)

\* The newest entries of the n begun so far, as many as there is room for.
Newest(b, n) ==
  /\ b.count = IF n < Cap THEN n ELSE Cap
  /\ \A i \in 0 .. b.count - 1 : EntryAt(b, i).serial = n - b.count + 1 + i

Good(b, n, k, s, t) == b \in Blob /\ InLine(b, n, k) /\ Exact(b, k, s, t)

LEMMA PushKeeps ==
  ASSUME NEW n \in Nat, NEW k \in Nat, NEW s \in Nat, NEW t \in Nat,
         NEW b, Good(b, n, k, s, t), NEW x \in Entry,
         x.serial = n + 1, x.born = k, x.at = s + x.up, x.at <= t,
         x.epoch # 0 => x.epoch = x.at
  PROVE  /\ Good(Pushed(b, x), n + 1, k, s, t)
         /\ AllDated(b, k) /\ x.epoch # 0 => AllDated(Pushed(b, x), k)
         /\ Undated(b, k) /\ x.epoch = 0 => Undated(Pushed(b, x), k)
         /\ Newest(b, n) => Newest(Pushed(b, x), n + 1)
<1> DEFINE p == Pushed(b, x)
           d == Drop(b)
<1>1. /\ p \in Blob /\ p.count = b.count + 1 - d
      /\ EntryAt(p, p.count - 1) = x
      /\ \A i \in 0 .. p.count - 2 : i + d \in 0 .. b.count - 1 /\ EntryAt(p, i) = EntryAt(b, i + d)
  BY PushedAt DEF Good
<1>2. d \in {0, 1} /\ b.count \in Nat /\ p.count \in Nat /\ p.count >= 1 /\ b.count <= Cap
      /\ (d = 0 => b.count < Cap) /\ (d = 1 => b.count = Cap)
  BY <1>1, LogSizes DEF Drop, Good, Blob
<1> HIDE DEF p, d
<1>3. \A i \in 0 .. b.count - 1 :
        EntryAt(b, i).serial \in Nat /\ EntryAt(b, i).born \in Nat /\ EntryAt(b, i).serial <= n
        /\ EntryAt(b, i).born <= k
  BY EntryTyped DEF Good, InLine, Entry
<1>4. \A i \in 0 .. p.count - 1 : i = p.count - 1 \/ i \in 0 .. p.count - 2
  BY <1>2
<1>5. InLine(p, n + 1, k)
  <2>1. \A i \in 0 .. p.count - 1 : EntryAt(p, i).serial <= n + 1 /\ EntryAt(p, i).born <= k
    BY <1>1, <1>3, <1>4
  <2>2. ASSUME NEW i \in 0 .. p.count - 1, NEW j \in 0 .. p.count - 1, i < j
        PROVE  /\ EntryAt(p, i).serial < EntryAt(p, j).serial
               /\ EntryAt(p, i).born <= EntryAt(p, j).born
    <3>1. i \in 0 .. p.count - 2 /\ i + d \in 0 .. b.count - 1 /\ EntryAt(p, i) = EntryAt(b, i + d)
      BY <1>1, <1>2, <2>2
    <3>2. CASE j = p.count - 1
      BY <1>1, <1>3, <3>1, <3>2
    <3>3. CASE j # p.count - 1
      <4>1. j \in 0 .. p.count - 2 /\ j + d \in 0 .. b.count - 1 /\ EntryAt(p, j) = EntryAt(b, j + d)
        BY <1>1, <1>4, <3>3
      <4>2. i + d < j + d
        BY <1>2, <2>2
      <4> QED
        BY <3>1, <4>1, <4>2 DEF Good, InLine
    <3> QED
      BY <3>2, <3>3
  <2> QED
    BY <2>1, <2>2 DEF InLine
<1>6. Exact(p, k, s, t)
  BY <1>1, <1>4 DEF Good, Exact
<1>7. /\ AllDated(b, k) /\ x.epoch # 0 => AllDated(p, k)
      /\ Undated(b, k) /\ x.epoch = 0 => Undated(p, k)
  BY <1>1, <1>4 DEF AllDated, Undated
<1>8. ASSUME Newest(b, n) PROVE Newest(p, n + 1)
  <2>1. b.count = IF n < Cap THEN n ELSE Cap
    BY <1>8 DEF Newest
  <2>2. p.count = IF n + 1 < Cap THEN n + 1 ELSE Cap
    BY <1>1, <1>2, <2>1, LogSizes
  <2> DEFINE m == n + 1
  <2>3. ASSUME NEW i \in 0 .. p.count - 1 PROVE EntryAt(p, i).serial = m - p.count + 1 + i
    <3>1. CASE i = p.count - 1
      BY <1>1, <1>2, <3>1
    <3>2. CASE i # p.count - 1
      <4>1. i + d \in 0 .. b.count - 1 /\ EntryAt(p, i) = EntryAt(b, i + d)
        BY <1>1, <1>4, <3>2
      <4>2. EntryAt(b, i + d).serial = n - b.count + 1 + (i + d)
        BY <1>8, <4>1 DEF Newest
      <4>3. n - b.count + 1 + (i + d) = m - p.count + 1 + i
        BY <1>1, <1>2
      <4> QED
        BY <4>1, <4>2, <4>3
    <3> QED
      BY <3>1, <3>2
  <2> HIDE DEF m
  <2>4. p.count = IF m < Cap THEN m ELSE Cap
    BY <2>2 DEF m
  <2>5. Newest(p, m)
    BY <2>3, <2>4 DEF Newest
  <2> QED
    BY <2>5 DEF m
<1> QED
  BY <1>1, <1>5, <1>6, <1>7, <1>8 DEF Good, p

LEMMA ReplaceKeeps ==
  ASSUME NEW n \in Nat, NEW k \in Nat, NEW s \in Nat, NEW t \in Nat,
         NEW b, Good(b, n, k, s, t), b.count > 0, NEW x \in Entry,
         x.serial = EntryAt(b, b.count - 1).serial, x.born = EntryAt(b, b.count - 1).born,
         x.born = k => /\ x.at = s + x.up /\ x.at <= t
                       /\ x.epoch # 0 => x.epoch = x.at
  PROVE  /\ Good(Replaced(b, x), n, k, s, t)
         /\ AllDated(b, k) /\ (x.born = k => x.epoch # 0) => AllDated(Replaced(b, x), k)
         /\ Undated(b, k) /\ (x.born = k => x.epoch = 0) => Undated(Replaced(b, x), k)
         /\ Newest(b, n) => Newest(Replaced(b, x), n)
<1> DEFINE r == Replaced(b, x)
<1>1. /\ r \in Blob /\ r.count = b.count
      /\ EntryAt(r, b.count - 1) = x
      /\ \A i \in 0 .. b.count - 2 : EntryAt(r, i) = EntryAt(b, i)
  BY ReplacedAt DEF Good
<1> HIDE DEF r
<1>2. b.count \in Nat /\ b.count - 1 \in 0 .. b.count - 1
      /\ \A i \in 0 .. b.count - 1 : i = b.count - 1 \/ i \in 0 .. b.count - 2
  BY DEF Good, Blob
<1>3. \A i \in 0 .. b.count - 1 : /\ EntryAt(r, i).serial = EntryAt(b, i).serial
                                  /\ EntryAt(r, i).born = EntryAt(b, i).born
  BY <1>1, <1>2
<1>4. InLine(r, n, k)
  BY <1>1, <1>3 DEF Good, InLine
<1>5. Exact(r, k, s, t)
  BY <1>1, <1>2 DEF Good, Exact
<1>6. /\ AllDated(b, k) /\ (x.born = k => x.epoch # 0) => AllDated(r, k)
      /\ Undated(b, k) /\ (x.born = k => x.epoch = 0) => Undated(r, k)
  BY <1>1, <1>2 DEF AllDated, Undated
<1>7. ASSUME Newest(b, n) PROVE Newest(r, n)
  BY <1>1, <1>3, <1>7 DEF Newest
<1> QED
  BY <1>1, <1>4, <1>5, <1>6, <1>7 DEF Good, r

LEMMA EvenAlike ==
  ASSUME NEW b, NEW k, AllDated(b, k) \/ Undated(b, k)
  PROVE  Alike(b, k)
BY DEF AllDated, Undated, Alike

\* An empty log says nothing wrong.
LEMMA EmptyGood ==
  ASSUME NEW n, NEW k, NEW s, NEW t
  PROVE  /\ Empty \in Blob /\ Good(Empty, n, k, s, t) /\ Empty.count = 0
         /\ AllDated(Empty, k) /\ Undated(Empty, k)
<1>1. Blank \in Entry /\ 0 \in 0 .. Cap /\ 0 \in 0 .. Cap - 1
  BY LogSizes DEF Blank, Entry
<1>2. Empty \in Blob /\ Empty.count = 0
  BY <1>1 DEF Empty, Blob
<1>3. \A i \in 0 .. Empty.count - 1 : FALSE
  BY <1>2
<1> QED
  BY <1>2, <1>3 DEF Good, InLine, Exact, AllDated, Undated

\* Backdate dates the entries it may date and leaves the others.
LEMMA BackdateAt ==
  ASSUME ClockInv, NEW b \in Blob
  PROVE  /\ Backdate(b) \in Blob /\ Backdate(b).count = b.count
         /\ \A i \in 0 .. b.count - 1 :
              EntryAt(Backdate(b), i) = IF i \in Datable(b) THEN Dated(EntryAt(b, i)) ELSE EntryAt(b, i)
<1> DEFINE a == Backdate(b)
           Hit(s) == \E i \in Datable(b) : s = EntrySlot(b, i)
<1>1. /\ b.head \in 0 .. Cap - 1 /\ b.count \in 0 .. Cap /\ b.e \in [0 .. Cap - 1 -> Entry]
      /\ b.count \in Nat
  BY LogSizes DEF Blob
<1>2. a = [e |-> [s \in 0 .. Cap - 1 |-> IF Hit(s) THEN Dated(b.e[s]) ELSE b.e[s]],
           head |-> b.head, count |-> b.count]
  <2> DEFINE F == [s \in 0 .. Cap - 1 |-> IF Hit(s) THEN Dated(b.e[s]) ELSE b.e[s]]
  <2>1. a = [b EXCEPT !.e = F]
    BY DEF Backdate
  <2> HIDE DEF F, a
  <2>2. a = [e |-> F, head |-> b.head, count |-> b.count]
    BY <2>1 DEF Blob
  <2> QED
    BY <2>2 DEF F
<1>3. \A i \in Datable(b) : i \in 0 .. b.count - 1 /\ EntryAt(b, i).up <= Uptime
  BY <1>1 DEF Datable
<1>4. ASSUME NEW s \in 0 .. Cap - 1 PROVE (IF Hit(s) THEN Dated(b.e[s]) ELSE b.e[s]) \in Entry
  <2>1. CASE Hit(s)
    <3>1. b.e[s] \in Entry /\ b.e[s].up <= Uptime
      BY <1>1, <1>3, <2>1 DEF EntryAt
    <3> QED
      BY <2>1, <3>1, DatedEntry
  <2>2. CASE ~ Hit(s)
    BY <1>1, <2>2
  <2> QED
    BY <2>1, <2>2
<1>5. /\ a.head = b.head /\ a.count = b.count
      /\ a.e = [s \in 0 .. Cap - 1 |-> IF Hit(s) THEN Dated(b.e[s]) ELSE b.e[s]]
  BY <1>2
<1>6. a.e \in [0 .. Cap - 1 -> Entry]
  BY <1>4, <1>5
<1>7. a \in Blob
  <2>1. a = [e |-> a.e, head |-> a.head, count |-> a.count]
    BY <1>2
  <2> HIDE DEF a
  <2> QED
    BY <1>1, <1>5, <1>6, <2>1 DEF Blob
<1> HIDE DEF a
<1>8. ASSUME NEW i \in 0 .. b.count - 1
      PROVE  EntryAt(a, i) = IF i \in Datable(b) THEN Dated(EntryAt(b, i)) ELSE EntryAt(b, i)
  <2>1. EntrySlot(a, i) = EntrySlot(b, i) /\ EntrySlot(b, i) \in 0 .. Cap - 1
    BY <1>5, SlotOf DEF EntrySlot
  <2>2. Hit(EntrySlot(b, i)) <=> i \in Datable(b)
    BY <1>3, SlotsDiffer
  <2>3. a.e[EntrySlot(b, i)] = IF Hit(EntrySlot(b, i)) THEN Dated(b.e[EntrySlot(b, i)])
                                                       ELSE b.e[EntrySlot(b, i)]
    BY <1>5, <2>1
  <2> QED
    BY <2>1, <2>2, <2>3 DEF EntryAt
<1> QED
  BY <1>5, <1>7, <1>8 DEF a

\* The entries of this boot that had no date get theirs, all of them if none has one.
LEMMA BackdateKeeps ==
  ASSUME ClockInv, NEW b, Good(b, total, boots, bootAt, time), synced
  PROVE  /\ Good(Backdate(b), total, boots, bootAt, time)
         /\ Newest(b, total) => Newest(Backdate(b), total)
         /\ Alike(b, boots) => AllDated(Backdate(b), boots)
<1> DEFINE a == Backdate(b)
<1>1. /\ a \in Blob /\ a.count = b.count
      /\ \A i \in 0 .. b.count - 1 :
           EntryAt(a, i) = IF i \in Datable(b) THEN Dated(EntryAt(b, i)) ELSE EntryAt(b, i)
  BY BackdateAt DEF Good
<1> HIDE DEF a
<1>2. ASSUME NEW i \in 0 .. b.count - 1
      PROVE  /\ EntryAt(b, i) \in Entry /\ i \in Nat
             /\ i \in Datable(b) => EntryAt(b, i).up <= Uptime /\ EntryAt(b, i).epoch = 0
  <2>1. b.count \in Nat
    BY DEF Good, Blob
  <2> QED
    BY <2>1, EntryTyped DEF Datable, Good
<1>3. ASSUME NEW i \in 0 .. b.count - 1
      PROVE  /\ EntryAt(a, i).serial = EntryAt(b, i).serial /\ EntryAt(a, i).born = EntryAt(b, i).born
             /\ EntryAt(a, i).at = EntryAt(b, i).at /\ EntryAt(a, i).up = EntryAt(b, i).up
             /\ EntryAt(a, i).epoch = IF i \in Datable(b) THEN bootAt + EntryAt(b, i).up
                                                          ELSE EntryAt(b, i).epoch
  BY <1>1, <1>2, DatedEntry
<1>4. InLine(a, total, boots)
  BY <1>1, <1>3 DEF Good, InLine
<1>5. Exact(a, boots, bootAt, time)
  BY <1>1, <1>3 DEF Good, Exact
<1>6. ASSUME Newest(b, total) PROVE Newest(a, total)
  BY <1>1, <1>3, <1>6 DEF Newest
<1>7. ASSUME Alike(b, boots) PROVE AllDated(a, boots)
  <2> SUFFICES ASSUME NEW i \in 0 .. b.count - 1, EntryAt(b, i).born = boots
               PROVE  EntryAt(a, i).epoch # 0
    BY <1>1, <1>3 DEF AllDated
  <2>1. CASE EntryAt(b, i).epoch = 0
    <3>1. ASSUME NEW j \in i .. b.count - 1
          PROVE  EntryAt(b, j).epoch = 0 /\ EntryAt(b, j).up <= Uptime
      <4>1. b.count \in Nat /\ i \in Nat
        BY DEF Good, Blob
      <4>2. j \in 0 .. b.count - 1 /\ (i = j \/ i < j)
        BY <4>1
      <4>3. EntryAt(b, j).born = boots
        <5>1. EntryAt(b, j).born <= boots /\ boots <= EntryAt(b, j).born /\ EntryAt(b, j).born \in Nat
          BY <1>2, <4>2 DEF Good, InLine, ClockInv, Entry
        <5> QED
          BY <5>1 DEF ClockInv
      <4>4. EntryAt(b, j).at = bootAt + EntryAt(b, j).up /\ EntryAt(b, j).at <= time
            /\ EntryAt(b, j).up \in Nat
        BY <1>2, <4>2, <4>3 DEF Good, Exact, Entry
      <4>5. EntryAt(b, j).up <= Uptime
        BY <4>4 DEF ClockInv, Uptime
      <4> QED
        BY <1>7, <2>1, <4>2, <4>3, <4>5 DEF Alike
    <3>2. i \in Datable(b)
      BY <3>1 DEF Datable
    <3>3. EntryAt(b, i).up \in Nat
      BY <1>2 DEF Entry
    <3> QED
      BY <1>3, <3>2, <3>3 DEF ClockInv
  <2>2. CASE EntryAt(b, i).epoch # 0
    BY <1>2, <1>3, <2>2
  <2> QED
    BY <2>1, <2>2
<1> QED
  BY <1>1, <1>4, <1>5, <1>6, <1>7 DEF Good, a

-----------------------------------------------------------------------------
(* The inductive invariant.                                                *)

RingsInv ==
  /\ Good(log, total, boots, bootAt, time)
  /\ Good(onFlash, total, boots, bootAt, time)

\* In setup() the clock does not change, so the entries of this boot are all
\* dated or all undated.
SetupInv ==
  point # "run" =>
    /\ ~ backdated /\ ~ early
    /\ synced => AllDated(log, boots) /\ AllDated(onFlash, boots)

DatesInv ==
  /\ backdated => synced
  /\ ~ synced => Undated(log, boots) /\ Undated(onFlash, boots)
  /\ ~ early => IF backdated THEN AllDated(log, boots) ELSE Alike(log, boots)

KeptInv ==
  faults = 0 =>
    /\ Newest(onFlash, total)
    /\ IF point \in {"storage", "load"} THEN log = Empty
       ELSE Newest(log, total) /\ (~ dirty => onFlash = log)

FlushInv ==
  point = "run" /\ dirty /\ served =>
    Uptime - flushAt <= FlushPeriod \/ log.e[NewestSlot(log)].at = time

Noted == \E i \in 0 .. onFlash.count - 1 :
           EntryAt(onFlash, i).ev = Ota /\ EntryAt(onFlash, i).born = boots

ImageInv ==
  /\ point = "image" => log.count > 0 /\ EntryAt(log, log.count - 1).ev \in Reasons
  /\ point = "app" /\ seen \notin {NoKey, image} /\ faults = 0 => Noted

LogInv ==
  /\ LogTypeOK /\ ClockInv /\ RingsInv /\ SetupInv
  /\ DatesInv /\ KeptInv /\ FlushInv /\ ImageInv

LEMMA LogInitial == LogInit => LogInv
<1> SUFFICES ASSUME LogInit PROVE LogInv
  OBVIOUS
<1>1. ClockInv
  <2>1. time = 1 /\ bootAt = 1 /\ boots = 0 /\ total = 0 /\ synced \in BOOLEAN
    BY DEF LogInit
  <2> QED
    BY <2>1 DEF ClockInv
<1>2. /\ RingsInv /\ Empty \in Blob /\ Empty.count = 0
      /\ Undated(Empty, boots) /\ Alike(Empty, boots)
  BY EmptyGood, EvenAlike DEF LogInit, RingsInv
<1>3. LogTypeOK
  <2>1. 1 \in 1 .. MaxSeconds /\ 0 \in 0 .. MaxImages /\ 0 \in 0 .. MaxBoots /\ 0 \in 0 .. MaxFaults
    BY LogSizes
  <2> QED
    BY <1>2, <2>1 DEF LogInit, LogTypeOK
<1>4. SetupInv /\ DatesInv
  BY <1>2 DEF LogInit, SetupInv, DatesInv
<1>5. Newest(Empty, 0)
  <2>1. \A i \in 0 .. Empty.count - 1 : FALSE
    BY <1>2
  <2> QED
    BY <1>2, <2>1, LogSizes DEF Newest
<1>6. KeptInv /\ FlushInv /\ ImageInv
  BY <1>5 DEF LogInit, KeptInv, FlushInv, ImageInv
<1> QED
  BY <1>1, <1>2, <1>3, <1>4, <1>6 DEF LogInv

\* What log_event_ does to the log b keeps what is said of it.
LEMMA EventKeeps ==
  ASSUME ClockInv, NEW b, Good(b, total, boots, bootAt, time),
         Good(onFlash, total, boots, bootAt, time),
         synced \/ Undated(b, boots), flushAt \in Nat, NEW ev \in Kinds, NEW f \in 0 .. MaxFaults,
         Repeated(b, ev, f) \/ Recorded(b, ev, f)
  PROVE  /\ Good(log', total', boots, bootAt, time)
         /\ Good(onFlash', total', boots, bootAt, time)
         /\ total' \in Nat /\ dirty' \in BOOLEAN /\ flushAt' \in Nat /\ faults' \in 0 .. MaxFaults
         /\ faults' >= f
         /\ synced /\ AllDated(b, boots) => AllDated(log', boots)
         /\ synced /\ AllDated(b, boots) /\ AllDated(onFlash, boots) => AllDated(onFlash', boots)
         /\ ~ synced /\ Undated(b, boots) => Undated(log', boots)
         /\ ~ synced /\ Undated(b, boots) /\ Undated(onFlash, boots) => Undated(onFlash', boots)
         /\ faults' = 0 /\ Newest(b, total) /\ Newest(onFlash, total) =>
              Newest(log', total') /\ Newest(onFlash', total') /\ (~ dirty' => onFlash' = log')
         /\ log'.count > 0 /\ EntryAt(log', log'.count - 1).ev = ev
         /\ EntryAt(log', log'.count - 1) = log'.e[NewestSlot(log')]
         /\ EntryAt(log', log'.count - 1).at = time
<1>1. Uptime \in Nat /\ time = bootAt + Uptime
  BY DEF ClockInv, Uptime
<1>2. \A n : /\ InLine(onFlash, total, boots) => InLine(onFlash, total + 1, boots)
  <2>1. \A i \in 0 .. onFlash.count - 1 : EntryAt(onFlash, i).serial \in Nat
    BY EntryTyped DEF Good, Entry
  <2> QED
    BY <2>1 DEF InLine, ClockInv
<1>3. CASE Repeated(b, ev, f)
  <2> DEFINE y == EntryAt(b, b.count - 1)
             x == Again(y)
  <2>1. /\ b.count > 0 /\ y.ev = ev /\ log' = Replaced(b, x) /\ dirty' = TRUE /\ faults' = f
        /\ onFlash' = onFlash /\ flushAt' = flushAt /\ total' = total
    BY <1>3 DEF Repeated
  <2>2. b \in Blob /\ b.count \in Nat /\ b.count - 1 \in 0 .. b.count - 1
    BY <2>1 DEF Good, Blob
  <2>3. y \in Entry
    BY <2>2, EntryTyped
  <2> HIDE DEF y
  <2>4. /\ x \in Entry /\ x.ev = y.ev /\ x.born = y.born /\ x.serial = y.serial
        /\ x.at = time /\ x.up = Uptime /\ x.epoch = IF synced THEN time ELSE y.epoch
    BY <2>3, AgainEntry
  <2> HIDE DEF x
  <2>5. Undated(b, boots) => (y.born = boots => y.epoch = 0)
    BY <2>2 DEF Undated, y
  <2>6. /\ synced => x.epoch # 0 /\ x.epoch = x.at
        /\ ~ synced /\ Undated(b, boots) => (x.born = boots => x.epoch = 0)
        /\ x.at = bootAt + x.up /\ x.at <= time
    BY <1>1, <2>4, <2>5 DEF ClockInv
  <2>7. /\ total \in Nat /\ boots \in Nat /\ bootAt \in Nat /\ time \in Nat
        /\ x.serial = EntryAt(b, b.count - 1).serial /\ x.born = EntryAt(b, b.count - 1).born
    BY <2>4 DEF ClockInv, y
  <2>8. synced \/ Undated(b, boots) =>
          /\ Good(Replaced(b, x), total, boots, bootAt, time)
          /\ AllDated(b, boots) /\ (x.born = boots => x.epoch # 0) => AllDated(Replaced(b, x), boots)
          /\ Undated(b, boots) /\ (x.born = boots => x.epoch = 0) => Undated(Replaced(b, x), boots)
          /\ Newest(b, total) => Newest(Replaced(b, x), total)
    <3> SUFFICES ASSUME synced \/ Undated(b, boots)
                 PROVE  /\ Good(Replaced(b, x), total, boots, bootAt, time)
                        /\ AllDated(b, boots) /\ (x.born = boots => x.epoch # 0) => AllDated(Replaced(b, x), boots)
                        /\ Undated(b, boots) /\ (x.born = boots => x.epoch = 0) => Undated(Replaced(b, x), boots)
                        /\ Newest(b, total) => Newest(Replaced(b, x), total)
      OBVIOUS
    <3>1. x.born = boots => /\ x.at = bootAt + x.up /\ x.at <= time
                            /\ x.epoch # 0 => x.epoch = x.at
      BY <2>6
    <3> QED
      BY <2>1, <2>4, <2>7, <3>1, ReplaceKeeps
  <2>9. /\ Replaced(b, x) \in Blob /\ Replaced(b, x).count = b.count
        /\ EntryAt(Replaced(b, x), b.count - 1) = x
    BY <2>1, <2>2, <2>4, ReplacedAt
  <2>10. EntryAt(Replaced(b, x), b.count - 1) = Replaced(b, x).e[NewestSlot(Replaced(b, x))]
    BY <2>1, <2>9, NewestIs
  <2> QED
    BY <2>1, <2>4, <2>6, <2>7, <2>8, <2>9, <2>10
<1>4. CASE Recorded(b, ev, f)
  <2> DEFINE x == Begun(ev)
  <2>1. /\ log' = Pushed(b, x) /\ total' = total + 1 /\ dirty' = FALSE /\ flushAt' = Uptime
        /\ \/ onFlash' = log' /\ faults' = f
           \/ f < MaxFaults /\ faults' = f + 1 /\ onFlash' = onFlash
    BY <1>4 DEF Recorded
  <2>2. /\ x \in Entry /\ x.ev = ev /\ x.born = boots /\ x.serial = total + 1
        /\ x.at = time /\ x.up = Uptime /\ x.epoch = IF synced THEN time ELSE 0
    BY BegunEntry
  <2> HIDE DEF x
  <2>3. /\ (synced => x.epoch # 0) /\ (~ synced => x.epoch = 0)
        /\ (x.epoch # 0 => x.epoch = x.at) /\ x.at = bootAt + x.up /\ x.at <= time
    BY <1>1, <2>2 DEF ClockInv
  <2>4. /\ Good(Pushed(b, x), total + 1, boots, bootAt, time)
        /\ AllDated(b, boots) /\ x.epoch # 0 => AllDated(Pushed(b, x), boots)
        /\ Undated(b, boots) /\ x.epoch = 0 => Undated(Pushed(b, x), boots)
        /\ Newest(b, total) => Newest(Pushed(b, x), total + 1)
    <3>1. total \in Nat /\ boots \in Nat /\ bootAt \in Nat /\ time \in Nat
      BY DEF ClockInv
    <3> QED
      BY <2>2, <2>3, <3>1, PushKeeps
  <2>5. Good(onFlash, total + 1, boots, bootAt, time)
    BY <1>2 DEF Good
  <2>6. b \in Blob
    BY DEF Good
  <2>7. Pushed(b, x) \in Blob /\ EntryAt(Pushed(b, x), Pushed(b, x).count - 1) = x
        /\ Pushed(b, x).count > 0
    <3>1. Pushed(b, x).count = IF b.count < Cap THEN b.count + 1 ELSE b.count
      BY DEF Pushed
    <3>2. b.count \in 0 .. Cap
      BY <2>6 DEF Blob
    <3>3. Pushed(b, x).count > 0
      BY <3>1, <3>2, LogSizes
    <3> QED
      BY <2>2, <2>6, <3>3, PushedAt
  <2>8. EntryAt(Pushed(b, x), Pushed(b, x).count - 1) = Pushed(b, x).e[NewestSlot(Pushed(b, x))]
    BY <2>7, NewestIs
  <2>9. total + 1 \in Nat /\ faults' \in 0 .. MaxFaults /\ faults' >= f
        /\ (faults' = 0 => onFlash' = log')
    BY <2>1, LogSizes DEF ClockInv
  <2> QED
    BY <1>1, <2>1, <2>2, <2>3, <2>4, <2>5, <2>7, <2>8, <2>9
<1> QED
  BY <1>3, <1>4

\* Between restarts no step but Sync touches the world.
LEMMA SameWorld ==
  ASSUME ClockInv, UNCHANGED world, boots' = boots, total' \in Nat
  PROVE  /\ ClockInv' /\ time' = time /\ bootAt' = bootAt /\ synced' = synced /\ image' = image
         /\ Uptime' = Uptime
BY DEF ClockInv, world, Uptime

\* The steps of setup() and loop() that call log_event_ on a log b of which the
\* same is known as of log.
LEMMA EventStep ==
  ASSUME LogInv, UNCHANGED world, boots' = boots,
         NEW b, Good(b, total, boots, bootAt, time), ~ synced => Undated(b, boots),
         NEW ev \in Kinds, NEW f \in 0 .. MaxFaults, LogEvent(b, ev, f)
  PROVE  /\ ClockInv' /\ RingsInv' /\ Uptime' = Uptime
         /\ time' = time /\ synced' = synced /\ image' = image
         /\ log' \in Blob /\ onFlash' \in Blob
         /\ total' \in Nat /\ dirty' \in BOOLEAN /\ flushAt' \in Nat /\ faults' \in 0 .. MaxFaults
         /\ faults' >= f
         /\ synced /\ AllDated(b, boots) => AllDated(log, boots)'
         /\ synced /\ AllDated(b, boots) /\ AllDated(onFlash, boots) => AllDated(onFlash, boots)'
         /\ ~ synced => Undated(log, boots)' /\ Undated(onFlash, boots)'
         /\ faults' = 0 /\ Newest(b, total) /\ Newest(onFlash, total) =>
              Newest(log, total)' /\ Newest(onFlash, total)' /\ (~ dirty' => onFlash' = log')
         /\ log'.count > 0 /\ EntryAt(log', log'.count - 1).ev = ev
         /\ log'.e[NewestSlot(log')].at = time
         /\ Repeated(b, ev, f) \/ Recorded(b, ev, f)
<1>1. b \in Blob /\ (Repeated(b, ev, f) \/ Recorded(b, ev, f))
  BY EventEither DEF Good
<1>2. /\ ClockInv /\ Good(onFlash, total, boots, bootAt, time) /\ flushAt \in Nat
      /\ (~ synced => Undated(b, boots)) /\ (~ synced => Undated(onFlash, boots))
  BY DEF LogInv, RingsInv, LogTypeOK, DatesInv
<1>3. /\ Good(log', total', boots, bootAt, time)
      /\ Good(onFlash', total', boots, bootAt, time)
      /\ total' \in Nat /\ dirty' \in BOOLEAN /\ flushAt' \in Nat /\ faults' \in 0 .. MaxFaults
      /\ faults' >= f
      /\ synced /\ AllDated(b, boots) => AllDated(log', boots)
      /\ synced /\ AllDated(b, boots) /\ AllDated(onFlash, boots) => AllDated(onFlash', boots)
      /\ ~ synced => Undated(log', boots) /\ Undated(onFlash', boots)
      /\ faults' = 0 /\ Newest(b, total) /\ Newest(onFlash, total) =>
           Newest(log', total') /\ Newest(onFlash', total') /\ (~ dirty' => onFlash' = log')
      /\ log'.count > 0 /\ EntryAt(log', log'.count - 1).ev = ev
      /\ EntryAt(log', log'.count - 1) = log'.e[NewestSlot(log')]
      /\ EntryAt(log', log'.count - 1).at = time
  BY <1>1, <1>2, EventKeeps
<1>4. /\ ClockInv' /\ time' = time /\ bootAt' = bootAt /\ synced' = synced /\ image' = image
      /\ Uptime' = Uptime
  BY <1>2, <1>3, SameWorld
<1>5. log' \in Blob /\ onFlash' \in Blob
  BY <1>3 DEF Good
<1>6. RingsInv'
  BY <1>3, <1>4 DEF RingsInv
<1>7. /\ synced /\ AllDated(b, boots) => AllDated(log, boots)'
      /\ synced /\ AllDated(b, boots) /\ AllDated(onFlash, boots) => AllDated(onFlash, boots)'
      /\ ~ synced => Undated(log, boots)' /\ Undated(onFlash, boots)'
      /\ faults' = 0 /\ Newest(b, total) /\ Newest(onFlash, total) =>
           Newest(log, total)' /\ Newest(onFlash, total)' /\ (~ dirty' => onFlash' = log')
  BY <1>3, <1>4
<1> QED
  BY <1>1, <1>3, <1>4, <1>5, <1>6, <1>7

\* When only RAM and flash stay as they are, so does what is said of the logs.
LEMMA SameLogs ==
  ASSUME LogInv, UNCHANGED <<log, onFlash, total, boots, bootAt>>, time' \in Nat, time <= time'
  PROVE  /\ RingsInv'
         /\ AllDated(log, boots)' = AllDated(log, boots)
         /\ AllDated(onFlash, boots)' = AllDated(onFlash, boots)
         /\ Undated(log, boots)' = Undated(log, boots)
         /\ Undated(onFlash, boots)' = Undated(onFlash, boots)
         /\ Alike(log, boots)' = Alike(log, boots)
         /\ Newest(log, total)' = Newest(log, total)
         /\ Newest(onFlash, total)' = Newest(onFlash, total)
<1>1. /\ log' = log /\ onFlash' = onFlash /\ total' = total /\ boots' = boots /\ bootAt' = bootAt
  OBVIOUS
<1>2. \A b : Exact(b, boots, bootAt, time) /\ b \in Blob => Exact(b, boots, bootAt, time')
  <2> SUFFICES ASSUME NEW b \in Blob, Exact(b, boots, bootAt, time), NEW i \in 0 .. b.count - 1,
                      EntryAt(b, i).born = boots
               PROVE  EntryAt(b, i).at <= time'
    BY DEF Exact
  <2>1. EntryAt(b, i).at \in Nat /\ EntryAt(b, i).at <= time
    BY EntryTyped DEF Entry, Exact
  <2> QED
    BY <2>1 DEF LogInv, ClockInv
<1>3. RingsInv'
  BY <1>1, <1>2 DEF LogInv, RingsInv, Good
<1> QED
  BY <1>1, <1>3

LEMMA HistSetupStep ==
  ASSUME LogInv, HistSetup
  PROVE  LogInv'
<1>1. /\ point = "storage" /\ point' = "load" /\ UNCHANGED world
      /\ UNCHANGED <<backdated, served, seen, boots, early>>
  BY DEF HistSetup
<1>2. ~ backdated /\ ~ early /\ (synced => AllDated(log, boots) /\ AllDated(onFlash, boots))
  BY <1>1 DEF LogInv, SetupInv
<1>3. CASE UNCHANGED <<log, dirty, flushAt, onFlash, total, faults>>
  <2>1. /\ ClockInv' /\ time' = time /\ bootAt' = bootAt /\ synced' = synced /\ image' = image
        /\ Uptime' = Uptime
    BY <1>1, <1>3, SameWorld DEF LogInv, ClockInv
  <2>2. /\ RingsInv'
        /\ AllDated(log, boots)' = AllDated(log, boots)
        /\ AllDated(onFlash, boots)' = AllDated(onFlash, boots)
        /\ Undated(log, boots)' = Undated(log, boots)
        /\ Undated(onFlash, boots)' = Undated(onFlash, boots)
        /\ Alike(log, boots)' = Alike(log, boots)
        /\ Newest(log, total)' = Newest(log, total)
        /\ Newest(onFlash, total)' = Newest(onFlash, total)
    BY <1>1, <1>3, <2>1, SameLogs DEF LogInv, ClockInv
  <2>3. LogTypeOK'
    BY <1>1, <1>3, <2>1 DEF LogInv, LogTypeOK
  <2>4. SetupInv' /\ DatesInv'
    BY <1>1, <1>2, <1>3, <2>1, <2>2 DEF LogInv, SetupInv, DatesInv
  <2>5. KeptInv' /\ FlushInv' /\ ImageInv'
    BY <1>1, <1>3, <2>2 DEF LogInv, KeptInv, FlushInv, ImageInv
  <2> QED
    BY <2>1, <2>2, <2>3, <2>4, <2>5 DEF LogInv
<1>4. CASE faults < MaxFaults /\ LogEvent(log, Storage, faults + 1)
  <2>1. faults + 1 \in 0 .. MaxFaults /\ faults + 1 > 0 /\ Storage \in Kinds
    BY <1>4, LogSizes DEF LogInv, LogTypeOK, Kinds
  <2>2. Good(log, total, boots, bootAt, time) /\ (~ synced => Undated(log, boots))
    BY DEF LogInv, RingsInv, DatesInv
  <2>3. /\ ClockInv' /\ RingsInv' /\ Uptime' = Uptime
        /\ time' = time /\ synced' = synced /\ image' = image
        /\ log' \in Blob /\ onFlash' \in Blob
        /\ total' \in Nat /\ dirty' \in BOOLEAN /\ flushAt' \in Nat /\ faults' \in 0 .. MaxFaults
        /\ faults' >= faults + 1
        /\ synced /\ AllDated(log, boots) => AllDated(log, boots)'
        /\ synced /\ AllDated(log, boots) /\ AllDated(onFlash, boots) => AllDated(onFlash, boots)'
        /\ ~ synced => Undated(log, boots)' /\ Undated(onFlash, boots)'
    BY <1>1, <1>4, <2>1, <2>2, EventStep
  <2>4. LogTypeOK'
    BY <1>1, <2>3 DEF LogInv, LogTypeOK, world
  <2>5. AllDated(log, boots)' \/ Undated(log, boots)'
    BY <1>2, <2>3
  <2>6. Alike(log, boots)'
    BY <2>5, EvenAlike
  <2>7. SetupInv' /\ DatesInv'
    BY <1>1, <1>2, <2>3, <2>6 DEF LogInv, SetupInv, DatesInv
  <2>8. faults' # 0
    BY <2>1, <2>3
  <2>9. KeptInv' /\ FlushInv' /\ ImageInv'
    BY <1>1, <2>8 DEF KeptInv, FlushInv, ImageInv
  <2> QED
    BY <2>3, <2>4, <2>7, <2>9 DEF LogInv
<1> QED
  BY <1>3, <1>4 DEF HistSetup

LEMMA LogSetupStep ==
  ASSUME LogInv, LogSetup
  PROVE  LogInv'
<1> DEFINE b == IF onFlash = Empty THEN log ELSE onFlash
<1>1. /\ point = "load" /\ point' = "image" /\ UNCHANGED world
      /\ UNCHANGED <<backdated, served, seen, boots, early>>
  BY DEF LogSetup
<1>2. PICK reason \in Reasons : LogEvent(b, reason, faults)
  BY DEF LogSetup
<1>3. ~ backdated /\ ~ early /\ (synced => AllDated(b, boots) /\ AllDated(onFlash, boots))
  BY <1>1 DEF LogInv, SetupInv
<1>4. Good(b, total, boots, bootAt, time) /\ (~ synced => Undated(b, boots))
  BY DEF LogInv, RingsInv, DatesInv
<1>5. faults = 0 => Newest(b, total) /\ Newest(onFlash, total)
  BY <1>1 DEF LogInv, KeptInv
<1>6. faults \in 0 .. MaxFaults /\ reason \in Kinds
  BY DEF LogInv, LogTypeOK, Kinds
<1> HIDE DEF b
<1>7. /\ ClockInv' /\ RingsInv' /\ time' = time /\ synced' = synced /\ image' = image
      /\ log' \in Blob /\ onFlash' \in Blob
      /\ total' \in Nat /\ dirty' \in BOOLEAN /\ flushAt' \in Nat /\ faults' \in 0 .. MaxFaults
      /\ faults' >= faults
      /\ synced /\ AllDated(b, boots) => AllDated(log, boots)'
      /\ synced /\ AllDated(b, boots) /\ AllDated(onFlash, boots) => AllDated(onFlash, boots)'
      /\ ~ synced => Undated(log, boots)' /\ Undated(onFlash, boots)'
      /\ faults' = 0 /\ Newest(b, total) /\ Newest(onFlash, total) =>
           Newest(log, total)' /\ Newest(onFlash, total)' /\ (~ dirty' => onFlash' = log')
      /\ log'.count > 0 /\ EntryAt(log', log'.count - 1).ev = reason
  BY <1>1, <1>2, <1>4, <1>6, EventStep
<1>8. LogTypeOK'
  BY <1>1, <1>7 DEF LogInv, LogTypeOK, world
<1>9. AllDated(log, boots)' \/ Undated(log, boots)'
  BY <1>3, <1>7
<1>10. Alike(log, boots)'
  BY <1>9, EvenAlike
<1>11. SetupInv' /\ DatesInv'
  BY <1>1, <1>3, <1>7, <1>10 DEF LogInv, SetupInv, DatesInv
<1>12. faults' = 0 => faults = 0
  BY <1>6, <1>7
<1>13. KeptInv'
  BY <1>1, <1>5, <1>7, <1>12 DEF KeptInv
<1>14. FlushInv' /\ ImageInv'
  BY <1>1, <1>7 DEF FlushInv, ImageInv
<1> QED
  BY <1>7, <1>8, <1>11, <1>13, <1>14 DEF LogInv

LEMMA LogImageStep ==
  ASSUME LogInv, LogImage
  PROVE  LogInv'
<1>1. /\ point = "image" /\ point' = "app" /\ UNCHANGED world
      /\ UNCHANGED <<backdated, served, seen, boots, early>>
  BY DEF LogImage
<1>2. ~ backdated /\ ~ early /\ (synced => AllDated(log, boots) /\ AllDated(onFlash, boots))
  BY <1>1 DEF LogInv, SetupInv
<1>3. CASE seen \in {NoKey, image} /\ UNCHANGED <<log, dirty, flushAt, onFlash, total, faults>>
  <2>1. /\ ClockInv' /\ time' = time /\ bootAt' = bootAt /\ synced' = synced /\ image' = image
        /\ Uptime' = Uptime
    BY <1>1, <1>3, SameWorld DEF LogInv, ClockInv
  <2>2. /\ RingsInv'
        /\ AllDated(log, boots)' = AllDated(log, boots)
        /\ AllDated(onFlash, boots)' = AllDated(onFlash, boots)
        /\ Undated(log, boots)' = Undated(log, boots)
        /\ Undated(onFlash, boots)' = Undated(onFlash, boots)
        /\ Alike(log, boots)' = Alike(log, boots)
        /\ Newest(log, total)' = Newest(log, total)
        /\ Newest(onFlash, total)' = Newest(onFlash, total)
    BY <1>1, <1>3, <2>1, SameLogs DEF LogInv, ClockInv
  <2>3. LogTypeOK'
    BY <1>1, <1>3, <2>1 DEF LogInv, LogTypeOK
  <2>4. SetupInv' /\ DatesInv'
    BY <1>1, <1>2, <1>3, <2>1, <2>2 DEF LogInv, SetupInv, DatesInv
  <2>5. KeptInv' /\ FlushInv' /\ ImageInv'
    BY <1>1, <1>3, <2>1, <2>2 DEF LogInv, KeptInv, FlushInv, ImageInv
  <2> QED
    BY <2>1, <2>2, <2>3, <2>4, <2>5 DEF LogInv
<1>4. CASE LogEvent(log, Ota, faults)
  <2>1. faults \in 0 .. MaxFaults /\ Ota \in Kinds
    BY DEF LogInv, LogTypeOK, Kinds
  <2>2. Good(log, total, boots, bootAt, time) /\ (~ synced => Undated(log, boots))
    BY DEF LogInv, RingsInv, DatesInv
  <2>3. /\ ClockInv' /\ RingsInv' /\ Uptime' = Uptime
        /\ time' = time /\ synced' = synced /\ image' = image
        /\ log' \in Blob /\ onFlash' \in Blob
        /\ total' \in Nat /\ dirty' \in BOOLEAN /\ flushAt' \in Nat /\ faults' \in 0 .. MaxFaults
        /\ faults' >= faults
        /\ synced /\ AllDated(log, boots) => AllDated(log, boots)'
        /\ synced /\ AllDated(log, boots) /\ AllDated(onFlash, boots) => AllDated(onFlash, boots)'
        /\ ~ synced => Undated(log, boots)' /\ Undated(onFlash, boots)'
        /\ faults' = 0 /\ Newest(log, total) /\ Newest(onFlash, total) =>
             Newest(log, total)' /\ Newest(onFlash, total)' /\ (~ dirty' => onFlash' = log')
        /\ Repeated(log, Ota, faults) \/ Recorded(log, Ota, faults)
    BY <1>1, <1>4, <2>1, <2>2, EventStep
  <2>4. LogTypeOK'
    BY <1>1, <2>3 DEF LogInv, LogTypeOK, world
  <2>5. AllDated(log, boots)' \/ Undated(log, boots)'
    BY <1>2, <2>3
  <2>6. Alike(log, boots)'
    BY <2>5, EvenAlike
  <2>7. SetupInv' /\ DatesInv'
    BY <1>1, <1>2, <2>3, <2>6 DEF LogInv, SetupInv, DatesInv
  <2>8. faults' = 0 => faults = 0
    BY <2>1, <2>3
  <2>9. KeptInv' /\ FlushInv'
    BY <1>1, <2>3, <2>8 DEF LogInv, KeptInv, FlushInv
  <2>10. Recorded(log, Ota, faults)
    <3>1. ~ Repeated(log, Ota, faults)
      BY <1>1, EventsAssumption DEF LogInv, ImageInv, Repeated
    <3> QED
      BY <2>3, <3>1
  <2>11. ASSUME faults' = 0 PROVE Noted'
    <3>1. log' = Pushed(log, Begun(Ota)) /\ onFlash' = log'
      BY <2>1, <2>10, <2>11 DEF Recorded
    <3>2. Begun(Ota) \in Entry /\ Begun(Ota).ev = Ota /\ Begun(Ota).born = boots
      BY <2>1, BegunEntry DEF LogInv
    <3>3. EntryAt(onFlash', onFlash'.count - 1) = Begun(Ota)
      BY <2>2, <3>1, <3>2, PushedAt DEF Good
    <3>4. onFlash'.count - 1 \in 0 .. onFlash'.count - 1
      <4>1. onFlash'.count = IF log.count < Cap THEN log.count + 1 ELSE log.count
        BY <3>1 DEF Pushed
      <4>2. log.count \in 0 .. Cap
        BY <2>2 DEF Good, Blob
      <4> QED
        BY <4>1, <4>2, LogSizes
    <3> QED
      BY <1>1, <3>2, <3>3, <3>4 DEF Noted
  <2>12. ImageInv'
    BY <1>1, <2>11 DEF ImageInv
  <2> QED
    BY <2>3, <2>4, <2>7, <2>9, <2>12 DEF LogInv
<1> QED
  BY <1>3, <1>4 DEF LogImage

\* The image that ran is remembered: its update is on flash by then.
LEMMA SaveImageStep ==
  ASSUME LogInv, SaveImage
  PROVE  LogInv' /\ (seen' # seen /\ seen # NoKey /\ faults = 0 => Noted')
<1>1. /\ point = "app" /\ point' = "flush"
      /\ UNCHANGED <<world, log, dirty, flushAt, backdated, served, onFlash, boots, total, early>>
      /\ \/ seen' = image /\ faults' = faults
         \/ faults < MaxFaults /\ faults' = faults + 1 /\ seen' = seen
  BY DEF SaveImage, ram
<1>2. /\ ClockInv' /\ time' = time /\ bootAt' = bootAt /\ synced' = synced /\ image' = image
      /\ Uptime' = Uptime
  BY <1>1, SameWorld DEF LogInv, ClockInv
<1>3. /\ RingsInv'
      /\ AllDated(log, boots)' = AllDated(log, boots)
      /\ AllDated(onFlash, boots)' = AllDated(onFlash, boots)
      /\ Undated(log, boots)' = Undated(log, boots)
      /\ Undated(onFlash, boots)' = Undated(onFlash, boots)
      /\ Alike(log, boots)' = Alike(log, boots)
      /\ Newest(log, total)' = Newest(log, total)
      /\ Newest(onFlash, total)' = Newest(onFlash, total)
  BY <1>1, <1>2, SameLogs DEF LogInv, ClockInv
<1>4. faults' \in 0 .. MaxFaults /\ (faults' = 0 => faults = 0)
  BY <1>1, LogSizes DEF LogInv, LogTypeOK
<1>5. LogTypeOK'
  BY <1>1, <1>2, <1>4 DEF LogInv, LogTypeOK
<1>6. SetupInv' /\ DatesInv'
  BY <1>1, <1>2, <1>3 DEF LogInv, SetupInv, DatesInv
<1>7. KeptInv' /\ FlushInv' /\ ImageInv'
  BY <1>1, <1>3, <1>4 DEF LogInv, KeptInv, FlushInv, ImageInv
<1>8. seen' # seen /\ seen # NoKey /\ faults = 0 => Noted'
  BY <1>1 DEF LogInv, ImageInv, Noted
<1> QED
  BY <1>2, <1>3, <1>5, <1>6, <1>7, <1>8 DEF LogInv

\* log_flush_ of the log as the step leaves it; what is not flushed has not changed.
LEMMA FlushStep ==
  ASSUME LogInv, UNCHANGED world, boots' = boots, total' = total,
         point \notin {"storage", "load"}, point' = "run",
         Good(log', total, boots, bootAt, time), faults = 0 => Newest(log', total),
         ~ synced => Undated(log', boots),
         NEW d \in BOOLEAN, ~ d => log' = log, Flush(log', d)
  PROVE  /\ ClockInv' /\ RingsInv' /\ KeptInv'
         /\ time' = time /\ synced' = synced /\ image' = image /\ Uptime' = Uptime
         /\ log' \in Blob /\ onFlash' \in Blob
         /\ flushAt' \in Nat /\ faults' \in 0 .. MaxFaults
         /\ IF d THEN dirty' = FALSE ELSE dirty' = dirty /\ flushAt' = flushAt
         /\ ~ synced => Undated(log, boots)' /\ Undated(onFlash, boots)'
<1>1. /\ ClockInv' /\ time' = time /\ bootAt' = bootAt /\ synced' = synced /\ image' = image
      /\ Uptime' = Uptime
  BY SameWorld DEF LogInv, ClockInv
<1>2. Uptime \in Nat
  BY DEF LogInv, ClockInv, Uptime
<1>3. /\ Good(onFlash, total, boots, bootAt, time) /\ (~ synced => Undated(onFlash, boots))
      /\ flushAt \in Nat /\ faults \in 0 .. MaxFaults
  BY DEF LogInv, RingsInv, DatesInv, LogTypeOK
<1>4. CASE d
  <2>1. /\ dirty' = FALSE /\ flushAt' = Uptime
        /\ \/ onFlash' = log' /\ faults' = faults
           \/ faults < MaxFaults /\ faults' = faults + 1 /\ onFlash' = onFlash
    BY <1>4 DEF Flush, SaveBlob
  <2>2. faults' \in 0 .. MaxFaults /\ (faults' = 0 => faults = 0 /\ onFlash' = log')
    BY <1>3, <2>1, LogSizes
  <2>3. Good(onFlash', total, boots, bootAt, time) /\ (~ synced => Undated(onFlash', boots))
    BY <1>3, <2>1
  <2>4. RingsInv'
    BY <1>1, <2>3 DEF RingsInv
  <2>5. KeptInv'
    BY <2>2 DEF KeptInv
  <2> QED
    BY <1>1, <1>2, <1>4, <2>1, <2>2, <2>3, <2>4, <2>5 DEF Good
<1>5. CASE ~ d
  <2>1. /\ dirty' = dirty /\ flushAt' = flushAt /\ onFlash' = onFlash /\ faults' = faults
        /\ log' = log
    BY <1>5 DEF Flush
  <2>2. RingsInv'
    BY <1>1, <1>3, <2>1 DEF RingsInv
  <2>3. KeptInv'
    BY <2>1 DEF LogInv, KeptInv
  <2> QED
    BY <1>1, <1>3, <1>5, <2>1, <2>2, <2>3 DEF Good
<1> QED
  BY <1>4, <1>5

LEMMA SetupEndsStep ==
  ASSUME LogInv, SetupEnds
  PROVE  LogInv'
<1>1. /\ point = "flush" /\ point' = "run" /\ Flush(log, dirty) /\ UNCHANGED world
      /\ UNCHANGED <<log, backdated, served, seen, boots, total, early>>
  BY DEF SetupEnds
<1>2. /\ dirty \in BOOLEAN /\ Good(log, total, boots, bootAt, time)
      /\ (faults = 0 => Newest(log, total)) /\ (~ synced => Undated(log, boots))
      /\ ~ backdated /\ ~ early /\ Alike(log, boots)
  BY <1>1 DEF LogInv, LogTypeOK, RingsInv, KeptInv, DatesInv, SetupInv
<1>3. /\ ClockInv' /\ RingsInv' /\ KeptInv'
      /\ time' = time /\ synced' = synced /\ image' = image /\ Uptime' = Uptime
      /\ log' \in Blob /\ onFlash' \in Blob
      /\ flushAt' \in Nat /\ faults' \in 0 .. MaxFaults
      /\ IF dirty THEN dirty' = FALSE ELSE dirty' = dirty /\ flushAt' = flushAt
      /\ ~ synced => Undated(log, boots)' /\ Undated(onFlash, boots)'
  BY <1>1, <1>2, FlushStep
<1>4. ~ dirty'
  BY <1>2, <1>3
<1>5. LogTypeOK'
  BY <1>1, <1>3, <1>4 DEF LogInv, LogTypeOK, world
<1>6. Alike(log, boots)'
  BY <1>1, <1>2
<1>7. SetupInv' /\ DatesInv' /\ FlushInv' /\ ImageInv'
  BY <1>1, <1>2, <1>3, <1>4, <1>6 DEF SetupInv, DatesInv, FlushInv, ImageInv
<1> QED
  BY <1>3, <1>5, <1>7 DEF LogInv

LEMMA ServiceStep ==
  ASSUME LogInv, Service
  PROVE  LogInv'
<1>1. /\ point = "run" /\ point' = "run" /\ served' = TRUE /\ UNCHANGED world
      /\ UNCHANGED <<seen, boots, total, early>>
  BY DEF Service
<1>2. /\ dirty \in BOOLEAN /\ Good(log, total, boots, bootAt, time) /\ ClockInv
      /\ (faults = 0 => Newest(log, total)) /\ (~ synced => Undated(log, boots))
  BY <1>1 DEF LogInv, LogTypeOK, RingsInv, KeptInv, DatesInv
<1>3. CASE synced /\ ~ backdated
  <2>1. /\ backdated' = TRUE /\ log' = Backdate(log)
        /\ Flush(log', dirty \/ log' # log)
    BY <1>3 DEF Service
  <2>2. /\ Good(log', total, boots, bootAt, time) /\ (Newest(log, total) => Newest(log', total))
        /\ (Alike(log, boots) => AllDated(log', boots))
    BY <1>2, <1>3, <2>1, BackdateKeeps
  <2> DEFINE d == dirty \/ log' # log
  <2>3. d \in BOOLEAN /\ (~ d => log' = log) /\ Flush(log', d)
    BY <2>1
  <2>4. (dirty => d) /\ (~ d => ~ dirty)
    OBVIOUS
  <2> HIDE DEF d
  <2>5. /\ ClockInv' /\ RingsInv' /\ KeptInv'
        /\ time' = time /\ synced' = synced /\ image' = image /\ Uptime' = Uptime
        /\ log' \in Blob /\ onFlash' \in Blob
        /\ flushAt' \in Nat /\ faults' \in 0 .. MaxFaults
        /\ IF d THEN dirty' = FALSE ELSE dirty' = dirty /\ flushAt' = flushAt
    BY <1>1, <1>2, <1>3, <2>2, <2>3, FlushStep
  <2>6. dirty' \in BOOLEAN /\ ~ dirty'
    BY <1>2, <2>4, <2>5
  <2>7. LogTypeOK'
    BY <1>1, <2>1, <2>5, <2>6 DEF LogInv, LogTypeOK, world
  <2>8. ~ early => AllDated(log, boots)'
    <3>1. ~ early => Alike(log, boots)
      BY <1>3 DEF LogInv, DatesInv
    <3> QED
      BY <1>1, <2>2, <3>1
  <2>9. SetupInv' /\ DatesInv' /\ FlushInv' /\ ImageInv'
    BY <1>1, <1>3, <2>1, <2>5, <2>6, <2>8 DEF SetupInv, DatesInv, FlushInv, ImageInv
  <2> QED
    BY <2>5, <2>7, <2>9 DEF LogInv
<1>4. CASE ~ (synced /\ ~ backdated)
  <2>1. /\ backdated' = backdated /\ log' = log /\ Flush(log', dirty /\ Overdue)
    BY <1>4 DEF Service
  <2> DEFINE d == dirty /\ Overdue
  <2>2. d \in BOOLEAN /\ (~ d => log' = log) /\ Flush(log', d)
    BY <1>2, <2>1 DEF Overdue
  <2>3. ~ d /\ dirty => ~ Overdue
    OBVIOUS
  <2> HIDE DEF d
  <2>4. /\ ClockInv' /\ RingsInv' /\ KeptInv'
        /\ time' = time /\ synced' = synced /\ image' = image /\ Uptime' = Uptime
        /\ log' \in Blob /\ onFlash' \in Blob
        /\ flushAt' \in Nat /\ faults' \in 0 .. MaxFaults
        /\ IF d THEN dirty' = FALSE ELSE dirty' = dirty /\ flushAt' = flushAt
        /\ ~ synced => Undated(log, boots)' /\ Undated(onFlash, boots)'
    BY <1>1, <1>2, <2>1, <2>2, FlushStep
  <2>5. dirty' \in BOOLEAN /\ (dirty' => dirty /\ ~ d /\ flushAt' = flushAt)
    BY <1>2, <2>4
  <2>6. LogTypeOK'
    BY <1>1, <2>1, <2>4, <2>5 DEF LogInv, LogTypeOK, world
  <2>7. Alike(log, boots)' = Alike(log, boots) /\ AllDated(log, boots)' = AllDated(log, boots)
    BY <1>1, <2>1
  <2>8. SetupInv' /\ DatesInv' /\ ImageInv'
    BY <1>1, <2>1, <2>4, <2>7 DEF LogInv, SetupInv, DatesInv, ImageInv
  <2>9. FlushInv'
    <3>1. ASSUME dirty' PROVE Uptime' - flushAt' <= FlushPeriod
      <4>1. ~ Overdue /\ flushAt' = flushAt /\ Uptime' = Uptime
        BY <2>3, <2>4, <2>5, <3>1
      <4>2. Uptime \in Int /\ flushAt \in Int
        BY DEF LogInv, LogTypeOK, ClockInv, Uptime
      <4> QED
        BY <4>1, <4>2, LogSizes DEF Overdue
    <3> QED
      BY <3>1 DEF FlushInv
  <2> QED
    BY <2>4, <2>6, <2>8, <2>9 DEF LogInv
<1> QED
  BY <1>3, <1>4

LEMMA TickStep ==
  ASSUME LogInv, Tick
  PROVE  LogInv'
<1>1. /\ point = "run" /\ point' = "run" /\ time < MaxSeconds /\ time' = time + 1 /\ served' = FALSE
      /\ UNCHANGED <<bootAt, synced, image, log, dirty, flushAt, backdated, onFlash, seen,
                     boots, total, faults, early>>
  BY DEF Tick, ram
<1>2. time' \in Nat /\ time <= time' /\ time' \in 1 .. MaxSeconds
  BY <1>1, LogSizes DEF LogInv, ClockInv
<1>3. ClockInv'
  BY <1>1, <1>2 DEF LogInv, ClockInv
<1>4. /\ RingsInv'
      /\ AllDated(log, boots)' = AllDated(log, boots)
      /\ Undated(log, boots)' = Undated(log, boots)
      /\ Undated(onFlash, boots)' = Undated(onFlash, boots)
      /\ Alike(log, boots)' = Alike(log, boots)
      /\ Newest(log, total)' = Newest(log, total)
      /\ Newest(onFlash, total)' = Newest(onFlash, total)
  BY <1>1, <1>2, SameLogs
<1>5. LogTypeOK'
  BY <1>1, <1>2 DEF LogInv, LogTypeOK
<1>6. SetupInv' /\ DatesInv'
  BY <1>1, <1>4 DEF LogInv, SetupInv, DatesInv
<1>7. KeptInv' /\ FlushInv' /\ ImageInv'
  BY <1>1, <1>4 DEF LogInv, KeptInv, FlushInv, ImageInv
<1> QED
  BY <1>3, <1>4, <1>5, <1>6, <1>7 DEF LogInv

LEMMA SyncStep ==
  ASSUME LogInv, Sync
  PROVE  LogInv'
<1>1. /\ point = "run" /\ point' = "run" /\ ~ synced /\ synced' = TRUE
      /\ UNCHANGED <<time, bootAt, image, log, dirty, flushAt, backdated, served, onFlash, seen,
                     boots, total, faults, early>>
  BY DEF Sync, ram
<1>2. time' \in Nat /\ time <= time' /\ Uptime' = Uptime
  BY <1>1 DEF LogInv, ClockInv, Uptime
<1>3. ClockInv'
  BY <1>1 DEF LogInv, ClockInv
<1>4. /\ RingsInv'
      /\ AllDated(log, boots)' = AllDated(log, boots)
      /\ Alike(log, boots)' = Alike(log, boots)
      /\ Newest(log, total)' = Newest(log, total)
      /\ Newest(onFlash, total)' = Newest(onFlash, total)
  BY <1>1, <1>2, SameLogs
<1>5. LogTypeOK'
  BY <1>1 DEF LogInv, LogTypeOK
<1>6. SetupInv' /\ DatesInv'
  BY <1>1, <1>4 DEF LogInv, SetupInv, DatesInv
<1>7. KeptInv' /\ FlushInv' /\ ImageInv'
  BY <1>1, <1>2, <1>4 DEF LogInv, KeptInv, FlushInv, ImageInv
<1> QED
  BY <1>3, <1>4, <1>5, <1>6, <1>7 DEF LogInv

LEMMA OccurStep ==
  ASSUME LogInv, Occur
  PROVE  LogInv'
<1>1. /\ point = "run" /\ point' = "run" /\ UNCHANGED world
      /\ UNCHANGED <<backdated, served, seen, boots>>
      /\ early' = \/ early
                  \/ /\ synced /\ ~ backdated
                     /\ \E e \in Entries(log) : e.born = boots /\ e.epoch = 0
  BY DEF Occur
<1>2. PICK ev \in Events : LogEvent(log, ev, faults)
  BY DEF Occur
<1>3. faults \in 0 .. MaxFaults /\ ev \in Kinds
  BY DEF LogInv, LogTypeOK, Kinds
<1>4. Good(log, total, boots, bootAt, time) /\ (~ synced => Undated(log, boots))
  BY DEF LogInv, RingsInv, DatesInv
<1>5. /\ ClockInv' /\ RingsInv' /\ Uptime' = Uptime
      /\ time' = time /\ synced' = synced /\ image' = image
      /\ log' \in Blob /\ onFlash' \in Blob
      /\ total' \in Nat /\ dirty' \in BOOLEAN /\ flushAt' \in Nat /\ faults' \in 0 .. MaxFaults
      /\ faults' >= faults
      /\ synced /\ AllDated(log, boots) => AllDated(log, boots)'
      /\ ~ synced => Undated(log, boots)' /\ Undated(onFlash, boots)'
      /\ faults' = 0 /\ Newest(log, total) /\ Newest(onFlash, total) =>
           Newest(log, total)' /\ Newest(onFlash, total)' /\ (~ dirty' => onFlash' = log')
      /\ log'.e[NewestSlot(log')].at = time
  BY <1>1, <1>2, <1>3, <1>4, EventStep
<1>6. early' \in BOOLEAN
  BY <1>1 DEF LogInv, LogTypeOK
<1>7. LogTypeOK'
  BY <1>1, <1>5, <1>6 DEF LogInv, LogTypeOK, world
<1>8. ASSUME ~ early'
      PROVE  IF backdated THEN AllDated(log, boots)' ELSE Alike(log, boots)'
  <2>1. ~ early /\ (synced /\ ~ backdated => AllDated(log, boots))
    BY <1>1, <1>8 DEF AllDated, Entries
  <2>2. CASE backdated
    BY <1>5, <2>1, <2>2 DEF LogInv, DatesInv
  <2>3. CASE ~ backdated
    <3>1. AllDated(log, boots)' \/ Undated(log, boots)'
      BY <1>5, <2>1, <2>3
    <3>2. Alike(log, boots)'
      BY <3>1, EvenAlike
    <3> QED
      BY <2>3, <3>2
  <2> QED
    BY <2>2, <2>3
<1>9. SetupInv' /\ DatesInv'
  BY <1>1, <1>5, <1>8 DEF LogInv, SetupInv, DatesInv
<1>10. faults' = 0 => faults = 0
  BY <1>3, <1>5
<1>11. KeptInv'
  BY <1>1, <1>5, <1>10 DEF LogInv, KeptInv
<1>12. FlushInv' /\ ImageInv'
  BY <1>1, <1>5 DEF FlushInv, ImageInv
<1> QED
  BY <1>5, <1>7, <1>9, <1>11, <1>12 DEF LogInv

\* In the next boot no entry is of this boot yet.
LEMMA NextBoot ==
  ASSUME NEW n, NEW k \in Nat, NEW s, NEW t, NEW q, NEW r, NEW b, Good(b, n, k, s, t)
  PROVE  /\ Good(b, n, k + 1, q, r)
         /\ AllDated(b, k + 1) /\ Undated(b, k + 1)
<1>1. \A i \in 0 .. b.count - 1 : EntryAt(b, i).born \in Nat /\ EntryAt(b, i).born <= k
  BY EntryTyped DEF Good, InLine, Entry
<1> DEFINE j == k + 1
<1>2. \A i \in 0 .. b.count - 1 : EntryAt(b, i).born <= j /\ EntryAt(b, i).born # j
  BY <1>1
<1> HIDE DEF j
<1>3. InLine(b, n, j)
  BY <1>2 DEF Good, InLine
<1>4. Exact(b, j, q, r) /\ AllDated(b, j) /\ Undated(b, j)
  BY <1>2 DEF Exact, AllDated, Undated
<1> QED
  BY <1>3, <1>4 DEF Good, j

\* A restart: RAM is empty, and what is said of the flash is as before.
LEMMA RebornStep ==
  ASSUME LogInv, Reborn, total' \in Nat, faults' \in 0 .. MaxFaults,
         Good(onFlash', total', boots, bootAt, time), faults' = 0 => Newest(onFlash', total')
  PROVE  LogInv'
<1>1. /\ boots < MaxBoots /\ boots' = boots + 1 /\ point' = "storage" /\ served' = TRUE
      /\ bootAt' = time /\ synced' \in {synced, FALSE} /\ image' \in 0 .. MaxImages
      /\ log' = Empty /\ dirty' = FALSE /\ flushAt' = 0 /\ backdated' = FALSE /\ early' = FALSE
      /\ time' = time /\ seen' = seen
  BY DEF Reborn
<1>2. ClockInv' /\ boots \in Nat
  <2>1. time \in Nat /\ time > 0 /\ boots \in Nat /\ synced \in BOOLEAN
    BY DEF LogInv, ClockInv
  <2>2. time' > 0 /\ bootAt' > 0 /\ bootAt' <= time' /\ boots' \in Nat /\ time' \in Nat
        /\ bootAt' \in Nat
    BY <1>1, <2>1
  <2>3. synced' \in BOOLEAN
    BY <1>1, <2>1, Zenon
  <2> QED
    BY <2>1, <2>2, <2>3 DEF ClockInv
<1>3. /\ Good(onFlash', total', boots + 1, time, time)
      /\ AllDated(onFlash', boots + 1) /\ Undated(onFlash', boots + 1)
  BY <1>2, NextBoot
<1>4. /\ Empty \in Blob /\ Good(Empty, total', boots + 1, time, time)
      /\ AllDated(Empty, boots + 1) /\ Undated(Empty, boots + 1)
  BY EmptyGood
<1>5. /\ Good(log', total', boots', bootAt', time') /\ Good(onFlash', total', boots', bootAt', time')
      /\ AllDated(log', boots') /\ Undated(log', boots')
      /\ AllDated(onFlash', boots') /\ Undated(onFlash', boots')
  BY <1>1, <1>3, <1>4
<1>6. RingsInv' /\ Alike(log', boots')
  BY <1>5, EvenAlike DEF RingsInv
<1>7. LogTypeOK'
  <2>1. boots' \in 0 .. MaxBoots
    BY <1>1, LogSizes DEF LogInv, LogTypeOK
  <2>2. onFlash' \in Blob
    BY <1>5 DEF Good
  <2> QED
    BY <1>1, <1>4, <2>1, <2>2 DEF LogInv, LogTypeOK
<1>8. SetupInv' /\ DatesInv'
  BY <1>1, <1>5, <1>6 DEF SetupInv, DatesInv
<1>9. KeptInv' /\ FlushInv' /\ ImageInv'
  BY <1>1 DEF KeptInv, FlushInv, ImageInv
<1> QED
  BY <1>2, <1>6, <1>7, <1>8, <1>9 DEF LogInv

LEMMA CrashStep ==
  ASSUME LogInv, Crash
  PROVE  LogInv'
<1>1. Reborn /\ onFlash' = onFlash /\ total' = total /\ faults' = faults
  BY DEF Crash
<1>2. /\ total' \in Nat /\ faults' \in 0 .. MaxFaults
      /\ Good(onFlash', total', boots, bootAt, time) /\ (faults' = 0 => Newest(onFlash', total'))
  BY <1>1 DEF LogInv, LogTypeOK, RingsInv, KeptInv
<1> QED
  BY <1>1, <1>2, RebornStep

LEMMA RebootStep ==
  ASSUME LogInv, Reboot
  PROVE  LogInv'
<1>1. /\ point = "run" /\ Reborn
      /\ \/ onFlash' = Extended(log, Asked) /\ faults' = faults
         \/ faults < MaxFaults /\ faults' = faults + 1 /\ onFlash' = onFlash
      /\ total' = IF Folds(log, Asked) THEN total ELSE total + 1
  BY DEF Reboot
<1>2. /\ ClockInv /\ Good(log, total, boots, bootAt, time) /\ Good(onFlash, total, boots, bootAt, time)
      /\ faults \in 0 .. MaxFaults /\ (faults = 0 => Newest(log, total))
      /\ (synced \/ Undated(log, boots))
  BY <1>1 DEF LogInv, LogTypeOK, RingsInv, KeptInv, DatesInv
<1>3. faults' \in 0 .. MaxFaults /\ (faults' = 0 => faults = 0 /\ onFlash' = Extended(log, Asked))
  BY <1>1, <1>2, LogSizes
<1>4. /\ total \in Nat /\ boots \in Nat /\ bootAt \in Nat /\ time \in Nat
      /\ time = bootAt + Uptime
  BY <1>2 DEF ClockInv, Uptime
<1>5. /\ total' \in Nat
      /\ Good(Extended(log, Asked), total', boots, bootAt, time)
      /\ Newest(log, total) => Newest(Extended(log, Asked), total')
  <2>1. CASE Folds(log, Asked)
    <3> DEFINE y == EntryAt(log, log.count - 1)
               x == Again(y)
    <3>1. log.count > 0 /\ Extended(log, Asked) = Replaced(log, x) /\ total' = total
      BY <1>1, <1>2, <2>1, FoldIs DEF Good
    <3>2. log.count - 1 \in 0 .. log.count - 1
      BY <1>2, <3>1 DEF Good, Blob
    <3>3. y \in Entry
      BY <1>2, <3>2, EntryTyped DEF Good
    <3>4. Undated(log, boots) => (y.born = boots => y.epoch = 0)
      BY <3>2 DEF Undated
    <3> HIDE DEF y
    <3>5. /\ x \in Entry /\ x.born = y.born /\ x.serial = y.serial
          /\ x.at = time /\ x.up = Uptime /\ x.epoch = IF synced THEN time ELSE y.epoch
      BY <1>2, <3>3, AgainEntry
    <3> HIDE DEF x
    <3>6. x.born = boots => /\ x.at = bootAt + x.up /\ x.at <= time
                            /\ x.epoch # 0 => x.epoch = x.at
      BY <1>2, <1>4, <3>4, <3>5
    <3>7. x.serial = EntryAt(log, log.count - 1).serial /\ x.born = EntryAt(log, log.count - 1).born
      BY <3>5 DEF y
    <3>8. /\ Good(Replaced(log, x), total, boots, bootAt, time)
          /\ Newest(log, total) => Newest(Replaced(log, x), total)
      BY <1>2, <1>4, <3>1, <3>5, <3>6, <3>7, ReplaceKeeps
    <3> QED
      BY <1>4, <3>1, <3>8
  <2>2. CASE ~ Folds(log, Asked)
    <3> DEFINE x == Begun(Asked)
    <3>1. Extended(log, Asked) = Pushed(log, x) /\ total' = total + 1
      BY <1>1, <2>2, PushIs
    <3>2. /\ x \in Entry /\ x.born = boots /\ x.serial = total + 1
          /\ x.at = time /\ x.up = Uptime /\ x.epoch = IF synced THEN time ELSE 0
      BY <1>2, BegunEntry DEF Kinds
    <3> HIDE DEF x
    <3>3. x.at = bootAt + x.up /\ x.at <= time /\ (x.epoch # 0 => x.epoch = x.at)
      BY <1>4, <3>2
    <3>4. /\ Good(Pushed(log, x), total + 1, boots, bootAt, time)
          /\ Newest(log, total) => Newest(Pushed(log, x), total + 1)
      BY <1>2, <1>4, <3>2, <3>3, PushKeeps
    <3> QED
      BY <1>4, <3>1, <3>4
  <2> QED
    BY <2>1, <2>2
<1>6. Good(onFlash, total', boots, bootAt, time)
  <2>1. total <= total'
    BY <1>1, <1>4
  <2>2. \A i \in 0 .. onFlash.count - 1 :
          EntryAt(onFlash, i).serial \in Nat /\ EntryAt(onFlash, i).serial <= total
    BY <1>2, EntryTyped DEF Good, InLine, Entry
  <2>3. \A i \in 0 .. onFlash.count - 1 : EntryAt(onFlash, i).serial <= total'
    BY <1>4, <1>5, <2>1, <2>2
  <2>4. InLine(onFlash, total', boots)
    BY <1>2, <2>3 DEF Good, InLine
  <2> QED
    BY <1>2, <2>4 DEF Good
<1>7. Good(onFlash', total', boots, bootAt, time)
  BY <1>1, <1>5, <1>6
<1>8. faults' = 0 => Newest(onFlash', total')
  BY <1>2, <1>3, <1>5
<1> QED
  BY <1>1, <1>3, <1>5, <1>7, <1>8, RebornStep

LEMMA LogStep ==
  ASSUME LogInv, [LogNext]_logVars
  PROVE  LogInv'
<1>1. CASE LogNext
  BY <1>1, HistSetupStep, LogSetupStep, LogImageStep, SaveImageStep, SetupEndsStep, TickStep,
     SyncStep, OccurStep, ServiceStep, CrashStep, RebootStep DEF LogNext
<1>2. CASE UNCHANGED logVars
  <2>1. /\ time' = time /\ bootAt' = bootAt /\ synced' = synced /\ image' = image
        /\ log' = log /\ dirty' = dirty /\ flushAt' = flushAt /\ backdated' = backdated
        /\ point' = point /\ served' = served /\ onFlash' = onFlash /\ seen' = seen
        /\ boots' = boots /\ total' = total /\ faults' = faults /\ early' = early
    BY <1>2 DEF logVars, world, ram
  <2>2. /\ LogTypeOK' = LogTypeOK /\ ClockInv' = ClockInv /\ RingsInv' = RingsInv
        /\ SetupInv' = SetupInv
    BY <2>1 DEF LogTypeOK, ClockInv, RingsInv, SetupInv
  <2>3. DatesInv' = DatesInv /\ KeptInv' = KeptInv /\ FlushInv' = FlushInv /\ ImageInv' = ImageInv
    BY <2>1 DEF DatesInv, KeptInv, FlushInv, ImageInv, Noted, Uptime
  <2> QED
    BY <2>2, <2>3 DEF LogInv
<1> QED
  BY <1>1, <1>2

-----------------------------------------------------------------------------
(* The theorems.                                                           *)

LEMMA LogInvariant == LogSpec => []LogInv
<1>1. LogInit => LogInv
  BY LogInitial
<1>2. LogInv /\ [LogNext]_logVars => LogInv'
  BY LogStep
<1> QED
  BY <1>1, <1>2, PTL DEF LogSpec

LEMMA SameSerials ==
  ASSUME LogInv, Running, faults = 0
  PROVE  Serials(onFlash) = Serials(log)
<1>1. Newest(log, total) /\ Newest(onFlash, total)
  BY DEF Running, LogInv, KeptInv
<1>2. log.count = onFlash.count
  BY <1>1 DEF Newest
<1>3. \A i \in 0 .. log.count - 1 : EntryAt(log, i).serial = EntryAt(onFlash, i).serial
  BY <1>1, <1>2 DEF Newest
<1> QED
  BY <1>2, <1>3 DEF Serials

LEMMA LogKeeps == LogInv => EventsKept
<1> SUFFICES ASSUME LogInv PROVE EventsKept
  OBVIOUS
<1>1. InOrder
  BY DEF LogInv, RingsInv, Good, InLine, InOrder
<1>2. SurvivesReboot
  BY DEF LogInv, KeptInv, Newest, SurvivesReboot, KeepsEntries, Running
<1>3. CrashLosesNoEntry
  BY SameSerials DEF CrashLosesNoEntry
<1>4. RepeatsFlushed
  BY DEF LogInv, KeptInv, FlushInv, RepeatsFlushed, Running
<1> QED
  BY <1>1, <1>2, <1>3, <1>4 DEF LogInv, EventsKept

LEMMA LogDates == LogInv => EventsDated
<1> SUFFICES ASSUME LogInv PROVE EventsDated
  OBVIOUS
<1>1. OwnDatesExact
  BY DEF LogInv, RingsInv, Good, Exact, OwnDatesExact, Entries
<1>2. DatedAfterSync
  BY DEF LogInv, DatesInv, AllDated, DatedAfterSync, Entries
<1> QED
  BY <1>1, <1>2 DEF EventsDated

\* Whatever restarts, crashes and refused writes come in between: the entries are
\* in the order they were begun, and as long as flash takes every write the log
\* holds the newest ones in RAM and on flash, with the repeats as they are within
\* the rate limit (log_event_, log_flush_, log_setup_).
THEOREM EventsAreKept == LogSpec => []EventsKept
BY LogInvariant, LogKeeps, PTL

\* An entry's wall clock is the second it last happened in, known at once or
\* computed by backdate(), and after it no entry of this boot is undated unless it
\* came between the clock and log_service_.
THEOREM EventsAreDated == LogSpec => []EventsDated
BY LogInvariant, LogDates, PTL

\* The firmware that ran last is forgotten only when the update is on record in
\* NVS (log_setup_, "app" after "log").
THEOREM UpdateIsRecorded == LogSpec => UpdateRecorded
<1>1. LogInv /\ [LogNext]_logVars =>
        [seen' # seen /\ seen # NoKey /\ faults = 0 =>
           \E e \in Entries(onFlash') : e.ev = Ota /\ e.born = boots]_logVars
  <2> SUFFICES ASSUME LogInv, LogNext, seen' # seen, seen # NoKey, faults = 0
               PROVE  \E e \in Entries(onFlash') : e.ev = Ota /\ e.born = boots
    OBVIOUS
  <2>1. SaveImage
    BY DEF LogNext, HistSetup, LogSetup, LogImage, SetupEnds, Tick, Sync, Occur, Service,
           Crash, Reboot, Reborn
  <2>2. Noted' /\ boots' = boots
    BY <2>1, SaveImageStep DEF SaveImage
  <2> QED
    BY <2>2 DEF Noted, Entries
<1> QED
  BY <1>1, LogInvariant, PTL DEF LogSpec, UpdateRecorded

-----------------------------------------------------------------------------
(* The instance MCFlashLogs.                                               *)

\* What is proved of the store, for the instance whose writes fail.
FaultyStore == INSTANCE HistStoreProofs
                 WITH Sectors <- 2, MaxAppends <- 6, MaxDamage <- 2, RecordFaults <- TRUE

\* What the module assumes of its constants.
LEMMA FaultyAssumptions ==
  /\ 2 \in Nat /\ 2 >= 2
  /\ Slots \in Nat /\ Slots >= 1
  /\ {6, 2} \subseteq Nat
  /\ TRUE \in BOOLEAN /\ ClockSyncs \in BOOLEAN
BY SlotsAssumption, FaultsAssumption

LEMMA FaultyKept ==
  ASSUME ClockSyncs
  PROVE  FaultyStore!Spec =>
           [](FaultyStore!FaultContained /\ FaultyStore!LogOrder /\ FaultyStore!CountExact)
BY FaultyAssumptions, FaultyStore!FaultsAreContained, Zenon

\* The two instances of HistStore are one.
LEMMA FaultySame ==
  /\ Faulty!Init <=> FaultyStore!Init
  /\ Faulty!Next <=> FaultyStore!Next
<1>1. Faulty!Init <=> FaultyStore!Init
  BY DEF Faulty!Init, FaultyStore!Init, Faulty!NoSec, FaultyStore!NoSec, Faulty!Torn,
         FaultyStore!Torn, Faulty!Slot, FaultyStore!Slot, Faulty!Sec, FaultyStore!Sec,
         Faulty!Virgin, FaultyStore!Virgin
<1>2. Faulty!Next <=> FaultyStore!Next
  BY DEF Faulty!Next, FaultyStore!Next, Faulty!PowerCutInWrite, FaultyStore!PowerCutInWrite,
         Faulty!LosePower, FaultyStore!LosePower, Faulty!Return, FaultyStore!Return,
         Faulty!NoSec, FaultyStore!NoSec, Faulty!Damage, FaultyStore!Damage, Faulty!WriteTag,
         FaultyStore!WriteTag, Faulty!TagCutShort, FaultyStore!TagCutShort, Faulty!Tagged,
         FaultyStore!Tagged, Faulty!WritePayload, FaultyStore!WritePayload, Faulty!CutShort,
         FaultyStore!CutShort, Faulty!Programmed, FaultyStore!Programmed, Faulty!Torn,
         FaultyStore!Torn, Faulty!Virgin, FaultyStore!Virgin, Faulty!NewSeq, FaultyStore!NewSeq,
         Faulty!ErasePartly, FaultyStore!ErasePartly, Faulty!Slot, FaultyStore!Slot,
         Faulty!PowerCut, FaultyStore!PowerCut, Faulty!hist, FaultyStore!hist, Faulty!flash,
         FaultyStore!flash, Faulty!PatchDone, FaultyStore!PatchDone, Faulty!meta,
         FaultyStore!meta, Faulty!PatchSlot, FaultyStore!PatchSlot, Faulty!unk, FaultyStore!unk,
         Faulty!Succ, FaultyStore!Succ, Faulty!TagFailed, FaultyStore!TagFailed, Faulty!Filled,
         FaultyStore!Filled, Faulty!Patch, FaultyStore!Patch, Faulty!ServiceErase,
         FaultyStore!ServiceErase, Faulty!Prepare, FaultyStore!Prepare, Faulty!ClockInTime,
         FaultyStore!ClockInTime, Faulty!Tag, FaultyStore!Tag, Faulty!TagFail,
         FaultyStore!TagFail, Faulty!GiveUp, FaultyStore!GiveUp, Faulty!TagOk,
         FaultyStore!TagOk, Faulty!Appended, FaultyStore!Appended, Faulty!PreArmed,
         FaultyStore!PreArmed, Faulty!Payload, FaultyStore!Payload, Faulty!PayloadFail,
         FaultyStore!PayloadFail, Faulty!Failed, FaultyStore!Failed, Faulty!PayloadOk,
         FaultyStore!PayloadOk, Faulty!args, FaultyStore!args, Faulty!BeginAppend,
         FaultyStore!BeginAppend, Faulty!Advance, FaultyStore!Advance, Faulty!AdvanceDone,
         FaultyStore!AdvanceDone, Faulty!DropOldest, FaultyStore!DropOldest, Faulty!WriteHeader,
         FaultyStore!WriteHeader, Faulty!ServiceDone, FaultyStore!ServiceDone,
         Faulty!FormatDone, FaultyStore!FormatDone, Faulty!HeaderFail, FaultyStore!HeaderFail,
         Faulty!EraseFail, FaultyStore!EraseFail, Faulty!EraseOk, FaultyStore!EraseOk,
         Faulty!EraseAll, FaultyStore!EraseAll, Faulty!Begin, FaultyStore!Begin, Faulty!Dist,
         FaultyStore!Dist, Faulty!IsFreeSlot, FaultyStore!IsFreeSlot, Faulty!CellVirgin,
         FaultyStore!CellVirgin, Faulty!IsOldest, FaultyStore!IsOldest, Faulty!Pred,
         FaultyStore!Pred, Faulty!HdrValid, FaultyStore!HdrValid, Faulty!IsRun,
         FaultyStore!IsRun, Faulty!Sec, FaultyStore!Sec, Faulty!IsNewest, FaultyStore!IsNewest,
         Faulty!BeginFresh, FaultyStore!BeginFresh
<1> QED
  BY <1>1, <1>2

\* What is said of the two is the same, too.
LEMMA FaultyClaims ==
  (FaultyStore!FaultContained /\ FaultyStore!LogOrder /\ FaultyStore!CountExact)
    => (Faulty!FaultContained /\ Faulty!LogOrder /\ Faulty!CountExact)
<1>1. FaultyStore!FaultContained <=> Faulty!FaultContained
  BY DEF FaultyStore!FaultContained, Faulty!FaultContained, FaultyStore!CellVirgin,
         Faulty!CellVirgin, FaultyStore!Slot, Faulty!Slot, FaultyStore!Virgin, Faulty!Virgin
<1>2. FaultyStore!LogOrder <=> Faulty!LogOrder
  BY DEF FaultyStore!LogOrder, Faulty!LogOrder, FaultyStore!HdrValid, Faulty!HdrValid,
         FaultyStore!Slot, Faulty!Slot, FaultyStore!Sec, Faulty!Sec
<1>3. FaultyStore!CountExact <=> Faulty!CountExact
  BY DEF FaultyStore!CountExact, Faulty!CountExact, FaultyStore!Dist, Faulty!Dist
<1> QED
  BY <1>1, <1>2, <1>3

LEMMA FaultyStart == FlashInit /\ focus = "faults" => FaultyStore!Init
<1> SUFFICES ASSUME FlashInit, focus = "faults" PROVE Faulty!Init
  BY FaultySame
<1> QED
  BY Zenon DEF FlashInit

\* A behaviour stays with the instance it started in.
LEMMA FocusStep ==
  ASSUME [FlashNext]_<<focus, vars, xvars, logVars>>
  PROVE  /\ focus' = focus
         /\ focus = "faults" => [FaultyStore!Next]_(FaultyStore!vars)
<1>1. CASE FlashNext
  <2>1. focus' = focus
    BY <1>1, Zenon DEF FlashNext
  <2>2. ASSUME focus = "faults" PROVE Faulty!Next
    BY <1>1, <2>2 DEF FlashNext
  <2> QED
    BY <2>1, <2>2, FaultySame
<1>2. CASE UNCHANGED <<focus, vars, xvars, logVars>>
  <2>1. focus' = focus /\ vars' = vars
    BY <1>2
  <2>2. FaultyStore!vars' = FaultyStore!vars
    BY <2>1 DEF FaultyStore!vars, vars, FaultyStore!flash, flash, FaultyStore!meta, meta,
                FaultyStore!unk, unk, FaultyStore!args, args, FaultyStore!hist, hist
  <2> QED
    BY <2>1, <2>2
<1> QED
  BY <1>1, <1>2

\* FaultsContained of MCFlashLogs, whatever the number of slots and the bounds of the other
\* two logs: a write of HistoryStore::append that reports failure while the device stays
\* powered leaves the slots beyond the frontier, the order of the records and the count as
\* the ring needs them.
THEOREM FaultsStayContained ==
  ASSUME ClockSyncs
  PROVE  FlashSpec => []FaultsContained
<1> DEFINE Here == focus = "faults"
           Claim == FaultyStore!FaultContained /\ FaultyStore!LogOrder /\ FaultyStore!CountExact
<1>1. FlashInit /\ Here => FaultyStore!Init
  BY FaultyStart
<1>2. [FlashNext]_<<focus, vars, xvars, logVars>>
        => /\ (Here => Here') /\ (~ Here => ~ Here')
           /\ Here => [FaultyStore!Next]_(FaultyStore!vars)
  BY FocusStep
<1>3. FaultyStore!Init /\ [][FaultyStore!Next]_(FaultyStore!vars) => []Claim
  BY FaultyKept DEF FaultyStore!Spec
<1>4. Claim => FaultsContained
  BY FaultyClaims DEF FaultsContained
<1>5. ~ Here => FaultsContained
  BY DEF FaultsContained
<1> HIDE DEF Here, Claim
<1> QED
  BY <1>1, <1>2, <1>3, <1>4, <1>5, PTL DEF FlashSpec

=============================================================================

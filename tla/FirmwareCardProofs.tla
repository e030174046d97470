------------------------- MODULE FirmwareCardProofs -------------------------
(***************************************************************************)
(* Proofs about FirmwareCard, for any images and files, any time-outs and  *)
(* any number of flows in flight: the types, that the device is said to be *)
(* back only after it did restart, and that the verdict names the image    *)
(* that runs.                                                              *)
(***************************************************************************)
EXTENDS FirmwareCard, TLAPS

FlowSet == [kind : {"none", "mount", "read", "check", "restart", "upload", "release", "follow"},
            alive : BOOLEAN, at : {"", "ask", "status", "send", "poll", "wait"},
            t : 0..RelTimeout, before : Image, want : Image, missed : 0..(Misses - 1),
            fresh : BOOLEAN]

UnitSet == [img : Image, next : Image, up : 0..UpCap, down : BOOLEAN, todo : BOOLEAN,
            offer : Offers]

CardSet == [on : BOOLEAN, phase : Phases, rel : {"null", "again", "checking", "available"},
            file : File \cup {NoFile}, timer : {"off", "confirm", "rconfirm"}]

\* A clock runs from the tap: a device u that has not restarted since is older than it.
Good(f, u) ==
  /\ f \in FlowSet
  /\ ~Timed(f) => f.t = 0
  /\ Timed(f) /\ ~f.fresh => u.down \/ u.up = UpCap \/ u.up >= f.t + Slack

\* The inductive invariant.
FwIInv == unit \in UnitSet /\ card \in CardSet /\ flows \in [Slots -> FlowSet]
          /\ \A i \in Slots : Good(flows[i], unit)

\* Steps in which the device's age stands still.
Steady == unit'.up = unit.up /\ (unit.down => unit'.down)

-----------------------------------------------------------------------------
(* The helpers keep the invariant. *)

LEMMA TimeBounds ==
  /\ RelTimeout \in Nat /\ RestartTimeout \in Nat /\ RebootTimeout \in Nat /\ Misses \in Nat
  /\ RestartTimeout <= RelTimeout /\ RebootTimeout <= RelTimeout /\ Misses >= 1
  /\ UpCap = RelTimeout /\ Slack = 1 /\ Factory \in Image /\ Release \in Image
BY FirmwareAssumption DEF UpCap, Slack

\* Every limit is one of the three time-outs.
LEMMA LimitBound == ASSUME NEW f PROVE Limit(f) \in Nat /\ Limit(f) <= RelTimeout
BY TimeBounds DEF Limit

\* A slot without a flow, and a flow that has just been begun.
LEMMA EmptySlot == ASSUME NEW u PROVE Good(NoFlow, u)
BY TimeBounds DEF Good, NoFlow, FlowSet, Timed

LEMMA NewUntimed ==
  ASSUME NEW kind \in {"mount", "read", "check", "upload", "release"}, NEW u,
         NEW at \in {"ask", "status", "poll"}, at = "poll" => kind = "check",
         NEW want \in Image
  PROVE  Good(NewFlow(kind, at, want), u)
<1> DEFINE f == NewFlow(kind, at, want)
<1>1. NoFlow \in FlowSet /\ NoFlow.t = 0
  BY TimeBounds DEF NoFlow, FlowSet
<1>2. f \in FlowSet /\ f.t = 0 /\ f.kind = kind /\ f.at = at
  BY <1>1 DEF NewFlow, FlowSet
<1>3. ~Timed(f)
  BY <1>2 DEF Timed
<1> QED
  BY <1>2, <1>3 DEF Good

\* A flow whose clock starts now.
LEMMA ClockStarts ==
  ASSUME NEW f \in FlowSet, NEW u \in UnitSet, f.t = 0, u.up < Slack => f.fresh
  PROVE  Good(f, u)
<1>1. u.up \in Nat
  BY TimeBounds DEF UnitSet
<1>2. ~f.fresh => u.up >= f.t + Slack
  BY <1>1, TimeBounds
<1> QED
  BY <1>2 DEF Good

\* What is good stays so while the age of the device stands still.
LEMMA GoodStays ==
  ASSUME Steady, NEW f, Good(f, unit)
  PROVE  Good(f, unit')
BY DEF Steady, Good

LEMMA SlotsKeep ==
  ASSUME FwIInv, Steady, NEW i \in Slots, NEW g, Good(g, unit'),
         flows' = [flows EXCEPT ![i] = g]
  PROVE  flows' \in [Slots -> FlowSet] /\ \A j \in Slots : Good(flows'[j], unit')
<1>1. g \in FlowSet
  BY DEF Good
<1>2. \A j \in Slots : flows'[j] = IF j = i THEN g ELSE flows[j]
  BY DEF FwIInv
<1> QED
  BY <1>1, <1>2, GoodStays DEF FwIInv

LEMMA FlowsUnchanged ==
  ASSUME FwIInv, Steady, UNCHANGED flows
  PROVE  flows' \in [Slots -> FlowSet] /\ \A j \in Slots : Good(flows'[j], unit')
BY GoodStays DEF FwIInv

LEMMA EndKeeps ==
  ASSUME FwIInv, Steady, NEW i \in Slots, End(i)
  PROVE  flows' \in [Slots -> FlowSet] /\ \A j \in Slots : Good(flows'[j], unit')
BY EmptySlot, SlotsKeep DEF End

LEMMA GoKeeps ==
  ASSUME FwIInv, Steady, NEW i \in Slots, NEW g, Good(g, unit'), Go(i, g)
  PROVE  flows' \in [Slots -> FlowSet] /\ \A j \in Slots : Good(flows'[j], unit')
<1>1. CASE g.alive \/ Asking(g)
  BY <1>1, SlotsKeep DEF Go
<1>2. CASE ~(g.alive \/ Asking(g))
  BY <1>2, EmptySlot, SlotsKeep DEF Go
<1> QED
  BY <1>1, <1>2

LEMMA StartKeeps ==
  ASSUME FwIInv, Steady, NEW g, Good(g, unit'), Start(g)
  PROVE  flows' \in [Slots -> FlowSet] /\ \A j \in Slots : Good(flows'[j], unit')
BY SlotsKeep DEF Start

LEMMA CardKeeps ==
  ASSUME FwIInv, NEW f
  PROVE  /\ \A p \in Phases : SetPhase(f, p) => card' \in CardSet
         /\ \A r \in {"null", "again", "checking", "available"} : SetRel(f, r) => card' \in CardSet
         /\ UNCHANGED card => card' \in CardSet
BY DEF FwIInv, CardSet, SetPhase, SetRel

\* What the release part shows.
LEMMA ShownTyped ==
  ASSUME FwIInv
  PROVE  Shown(unit.offer) \in {"null", "again", "checking", "available"}
BY DEF FwIInv, UnitSet, Offers, Shown

\* What a status request before an install can tell.
LEMMA BeforeTyped == ASSUME FwIInv PROVE Before \subseteq Image
BY TimeBounds DEF FwIInv, UnitSet, Before

-----------------------------------------------------------------------------
(* Every step keeps the invariant. *)

LEMMA InitKeeps == FwInit => FwIInv
<1> SUFFICES ASSUME FwInit PROVE FwIInv
  OBVIOUS
<1>1. unit \in UnitSet
  BY TimeBounds DEF FwInit, UnitSet, Offers
<1>2. card \in CardSet
  BY DEF FwInit, NoCard, CardSet, Phases, Busy
<1>3. NoFlow \in FlowSet
  BY EmptySlot DEF Good
<1> QED
  BY <1>1, <1>2, <1>3, EmptySlot DEF FwInit, FwIInv

\* The device's steps: only its boot sets its age back, and every wait then knows it.
LEMMA DeviceKeeps == ASSUME FwIInv, DeviceStep PROVE FwIInv'
<1>0. unit.offer \in Offers /\ unit.img \in Image /\ unit.next \in Image /\ unit.up \in 0..UpCap
  BY DEF FwIInv, UnitSet
<1>1. CASE GoDown
  <2>1. unit' \in UnitSet /\ Steady
    BY <1>1 DEF FwIInv, UnitSet, GoDown, Steady
  <2> QED
    BY <1>1, <2>1, FlowsUnchanged, CardKeeps DEF GoDown, FwIInv
<1>2. CASE ComeUp
  <2>1. unit' \in UnitSet
    BY <1>0, <1>2, TimeBounds DEF ComeUp, UnitSet, Offers
  <2>2. ASSUME NEW i \in Slots PROVE flows'[i] \in FlowSet /\ Good(flows'[i], unit')
    <3>1. flows[i] \in FlowSet /\ Good(flows[i], unit)
      BY DEF FwIInv
    <3>2. flows'[i] = [flows[i] EXCEPT !.fresh = Timed(flows[i])]
      BY <1>2 DEF ComeUp
    <3>3. Timed(flows[i]) \in BOOLEAN
      BY DEF Timed
    <3>4. flows'[i] \in FlowSet /\ flows'[i].at = flows[i].at /\ flows'[i].kind = flows[i].kind
          /\ flows'[i].t = flows[i].t /\ (Timed(flows[i]) => flows'[i].fresh)
      BY <3>1, <3>2, <3>3 DEF FlowSet
    <3>5. Timed(flows'[i]) <=> Timed(flows[i])
      BY <3>4 DEF Timed
    <3> QED
      BY <3>1, <3>4, <3>5 DEF Good
  <2>3. flows' \in [Slots -> FlowSet]
    BY <1>2, <2>2 DEF ComeUp
  <2> QED
    BY <1>2, <2>1, <2>2, <2>3 DEF ComeUp, FwIInv
<1>3. CASE OtherRestart
  <2>1. unit' \in UnitSet /\ Steady
    BY <1>3 DEF FwIInv, UnitSet, OtherRestart, Steady
  <2> QED
    BY <1>3, <2>1, FlowsUnchanged, CardKeeps DEF OtherRestart, FwIInv
<1>4. CASE CheckEnds
  <2>1. unit' \in UnitSet /\ Steady
    BY <1>4 DEF FwIInv, UnitSet, CheckEnds, Steady, Offers
  <2> QED
    BY <1>4, <2>1, FlowsUnchanged, CardKeeps DEF CheckEnds, FwIInv
<1>5. CASE InstallEnds
  <2>1. unit' \in UnitSet /\ Steady
    BY <1>5, TimeBounds DEF FwIInv, UnitSet, InstallEnds, Steady, Offers
  <2> QED
    BY <1>5, <2>1, FlowsUnchanged, CardKeeps DEF InstallEnds, FwIInv
<1> QED
  BY <1>1, <1>2, <1>3, <1>4, <1>5 DEF DeviceStep

\* Time: a wait and the device's age go on together, up to the age that tells nothing more.
LEMMA TickKeeps == ASSUME FwIInv, Tick PROVE FwIInv'
<1>1. unit' \in UnitSet /\ unit'.down = unit.down
      /\ (unit.up = UpCap => unit'.up = UpCap)
      /\ (~unit.down /\ unit.up # UpCap => unit'.up = unit.up + 1)
  BY TimeBounds DEF FwIInv, UnitSet, Tick
<1>2. ASSUME NEW i \in Slots PROVE flows'[i] \in FlowSet /\ Good(flows'[i], unit')
  <2>1. flows[i] \in FlowSet /\ Good(flows[i], unit) /\ unit.up \in Nat
    BY TimeBounds DEF FwIInv, UnitSet
  <2>2. CASE Timed(flows[i])
    <3>1. flows'[i] = [flows[i] EXCEPT !.t = @ + 1]
      BY <2>2 DEF Tick
    <3>2. flows[i].t \in Nat /\ flows[i].t + 1 <= RelTimeout
      <4>1. flows[i].t \in 0..RelTimeout
        BY <2>1 DEF FlowSet
      <4>2. ~(flows[i].t >= Limit(flows[i]))
        BY <2>2 DEF Tick, Expired
      <4>3. Limit(flows[i]) \in Nat /\ Limit(flows[i]) <= RelTimeout
        BY LimitBound
      <4> QED
        BY <4>1, <4>2, <4>3, TimeBounds
    <3>3. flows[i].t + 1 \in 0..RelTimeout
      BY <3>2, TimeBounds
    <3>4. flows'[i] \in FlowSet /\ flows'[i].at = flows[i].at /\ flows'[i].kind = flows[i].kind
          /\ flows'[i].t = flows[i].t + 1 /\ flows'[i].fresh = flows[i].fresh
      BY <2>1, <3>1, <3>3 DEF FlowSet
    <3>5. Timed(flows'[i])
      BY <2>2, <3>4 DEF Timed
    <3>6. ~flows[i].fresh => unit'.down \/ unit'.up = UpCap \/ unit'.up >= flows'[i].t + Slack
      BY <1>1, <2>1, <2>2, <3>2, <3>4, TimeBounds DEF Good
    <3> QED
      BY <3>4, <3>5, <3>6 DEF Good
  <2>3. CASE ~Timed(flows[i])
    BY <2>1, <2>3 DEF Tick, Good
  <2> QED
    BY <2>2, <2>3
<1>3. flows' \in [Slots -> FlowSet]
  BY <1>2 DEF Tick
<1> QED
  BY <1>1, <1>2, <1>3, CardKeeps DEF Tick, FwIInv

\* The user's steps begin flows without a clock, or with one that starts now.
LEMMA UserKeeps == ASSUME FwIInv, UserStep PROVE FwIInv'
<1>0. unit \in UnitSet /\ card \in CardSet
  BY DEF FwIInv
<1>1. CASE Enter
  <2>1. Good(NewFlow("mount", "ask", Release), unit') /\ Steady /\ unit' \in UnitSet
    BY <1>0, <1>1, NewUntimed, TimeBounds DEF Enter, Steady
  <2>2. card' \in CardSet
    BY <1>0, <1>1 DEF Enter, CardSet
  <2> QED
    BY <1>1, <2>1, <2>2, StartKeeps DEF Enter, FwIInv
<1>2. CASE Leave
  <2>1. unit' \in UnitSet /\ Steady
    BY <1>0, <1>2 DEF Leave, Steady
  <2>2. card' \in CardSet
    BY <1>2 DEF Leave, NoCard, CardSet, Phases, Busy
  <2>3. ASSUME NEW i \in Slots PROVE flows'[i] \in FlowSet /\ Good(flows'[i], unit')
    <3>1. CASE Asking(flows[i])
      <4>1. flows[i] \in FlowSet /\ Good(flows[i], unit) /\ ~Timed(flows[i])
        BY <3>1 DEF FwIInv, Asking, Timed
      <4>2. flows'[i] = [flows[i] EXCEPT !.alive = FALSE]
        BY <1>2, <3>1 DEF Leave
      <4>3. flows'[i] \in FlowSet /\ flows'[i].at = flows[i].at /\ flows'[i].t = flows[i].t
            /\ flows'[i].kind = flows[i].kind
        BY <4>1, <4>2 DEF FlowSet
      <4>4. ~Timed(flows'[i])
        BY <4>1, <4>3 DEF Timed
      <4> QED
        BY <4>1, <4>3, <4>4 DEF Good
    <3>2. CASE ~Asking(flows[i])
      BY <1>2, <3>2, EmptySlot DEF Leave, Good
    <3> QED
      BY <3>1, <3>2
  <2>4. flows' \in [Slots -> FlowSet]
    BY <1>2, <2>3 DEF Leave
  <2> QED
    BY <2>1, <2>2, <2>3, <2>4 DEF FwIInv
<1>3. CASE Pick \/ Cancel \/ askRestart \/ askRelease
  <2>1. unit' \in UnitSet /\ Steady /\ UNCHANGED flows
    BY <1>0, <1>3 DEF Pick, Cancel, askRestart, askRelease, Tap, Steady
  <2>2. card' \in CardSet
    BY <1>0, <1>3 DEF Pick, Cancel, askRestart, askRelease, Tap, CardSet, Phases, Busy
  <2> QED
    BY <2>1, <2>2, FlowsUnchanged DEF FwIInv
<1>4. CASE install
  <2>1. card.file.img \in Image
    BY <1>0, FirmwareAssumption DEF CardSet, NoFile
  <2>2. Good(NewFlow("upload", "status", card.file.img), unit') /\ Steady /\ unit' \in UnitSet
    BY <1>0, <1>4, <2>1, NewUntimed DEF install, Tap, Steady
  <2>3. card' \in CardSet
    BY <1>0, <1>4 DEF install, Tap
  <2> QED
    BY <1>4, <2>2, <2>3, StartKeeps DEF install, FwIInv
<1>5. CASE installRelease
  <2>1. Good(NewFlow("release", "status", Release), unit') /\ Steady /\ unit' \in UnitSet
    BY <1>0, <1>5, NewUntimed, TimeBounds DEF installRelease, Tap, Steady
  <2>2. card' \in CardSet
    BY <1>0, <1>5 DEF installRelease, Tap, CardSet
  <2> QED
    BY <1>5, <2>1, <2>2, StartKeeps DEF installRelease, FwIInv
<1>6. CASE restart
  <2> DEFINE f == [NewFlow("restart", "wait", Factory) EXCEPT !.fresh = unit.up < Slack]
  <2>1. NoFlow \in FlowSet /\ NoFlow.t = 0
    BY TimeBounds DEF NoFlow, FlowSet
  <2>2. (unit.up < Slack) \in BOOLEAN
    BY <1>0, TimeBounds DEF UnitSet
  <2>3. f \in FlowSet /\ f.t = 0 /\ f.fresh = (unit.up < Slack)
    BY <2>1, <2>2, TimeBounds DEF NewFlow, FlowSet
  <2>4. unit' \in UnitSet /\ Steady
    BY <1>0, <1>6 DEF restart, UnitSet, Steady
  <2>5. Good(f, unit')
    BY <2>3, <2>4, ClockStarts DEF Steady
  <2>6. card' \in CardSet
    BY <1>0, <1>6 DEF restart, CardSet, Phases, Busy
  <2> QED
    BY <1>6, <2>4, <2>5, <2>6, StartKeeps DEF restart, FwIInv
<1>7. CASE checkRelease
  <2>1. unit' \in UnitSet /\ Steady
    BY <1>0, <1>7 DEF checkRelease, UnitSet, Offers, Steady
  <2>2. Good(NewFlow("check", "poll", Release), unit')
    BY NewUntimed, TimeBounds
  <2>3. card' \in CardSet
    BY <1>0, <1>7 DEF checkRelease, CardSet
  <2> QED
    BY <1>7, <2>1, <2>2, <2>3, StartKeeps DEF checkRelease, FwIInv
<1> QED
  BY <1>1, <1>2, <1>3, <1>4, <1>5, <1>6, <1>7 DEF UserStep

LEMMA TimerKeeps == ASSUME FwIInv, TimerFires PROVE FwIInv'
<1>1. unit' \in UnitSet /\ Steady /\ UNCHANGED flows
  BY DEF FwIInv, TimerFires, Steady
<1>2. card' \in CardSet
  BY DEF FwIInv, TimerFires, CardSet, Phases
<1> QED
  BY <1>1, <1>2, FlowsUnchanged DEF FwIInv

\* Before an upload: its flow has no clock yet; once it waits, the clock starts.
LEMMA UploadKeeps ==
  ASSUME FwIInv, NEW i \in Slots, UploadBegins(i) \/ UploadAccepted(i) \/ UploadRefused(i)
  PROVE  FwIInv'
<1> DEFINE f == flows[i]
<1>0. unit \in UnitSet /\ f \in FlowSet /\ Good(f, unit)
  BY DEF FwIInv
<1>1. CASE UploadBegins(i)
  <2>1. ~Timed(f) /\ f.t = 0 /\ f.at = "status"
    BY <1>0, <1>1 DEF UploadBegins, Timed, Good
  <2>2. unit' \in UnitSet /\ Steady
    BY <1>0, <1>1 DEF UploadBegins, Steady
  <2>3. PICK img \in Before : Go(i, [f EXCEPT !.before = img, !.at = "send"])
    BY <1>1 DEF UploadBegins
  <2> DEFINE g == [f EXCEPT !.before = img, !.at = "send"]
  <2>4. g \in FlowSet /\ g.t = 0 /\ g.at = "send"
    BY <1>0, <2>1, <2>3, BeforeTyped DEF FlowSet
  <2>5. Good(g, unit')
    BY <2>4 DEF Good, Timed
  <2>6. card' \in CardSet
    BY <1>1, CardKeeps DEF UploadBegins, Phases, Busy
  <2> QED
    BY <2>2, <2>3, <2>5, <2>6, GoKeeps DEF FwIInv
<1>2. CASE UploadAccepted(i)
  <2>1. f.t = 0 /\ f.want \in Image
    BY <1>0, <1>2 DEF UploadAccepted, Timed, Good, FlowSet
  <2>2. unit' \in UnitSet /\ Steady /\ unit'.up = unit.up
    BY <1>0, <1>2, <2>1 DEF UploadAccepted, UnitSet, Steady
  <2>3. card' \in CardSet
    BY <1>2, CardKeeps DEF UploadAccepted, Phases, Busy
  <2> DEFINE g == [f EXCEPT !.at = "wait", !.fresh = unit.up < Slack]
  <2>4. (unit.up < Slack) \in BOOLEAN
    BY <1>0, TimeBounds DEF UnitSet
  <2>5. g \in FlowSet /\ g.t = 0 /\ g.fresh = (unit.up < Slack)
    BY <1>0, <2>1, <2>4 DEF FlowSet
  <2>6. Good(g, unit')
    BY <2>2, <2>5, ClockStarts
  <2>7. Go(i, g) \/ End(i)
    BY <1>2 DEF UploadAccepted
  <2> QED
    BY <2>2, <2>3, <2>6, <2>7, GoKeeps, EndKeeps DEF FwIInv
<1>3. CASE UploadRefused(i)
  <2>1. unit' \in UnitSet /\ Steady /\ End(i)
    BY <1>0, <1>3 DEF UploadRefused, Steady
  <2>2. card' \in CardSet
    BY <1>3, CardKeeps DEF UploadRefused, Phases, Busy
  <2> QED
    BY <2>1, <2>2, EndKeeps DEF FwIInv
<1> QED
  BY <1>1, <1>2, <1>3

\* After a refused install the card reads again.
LEMMA ReadFlow ==
  ASSUME NEW u, NEW b \in BOOLEAN
  PROVE  Good([NewFlow("read", "ask", Release) EXCEPT !.alive = b], u)
<1> DEFINE f == [NewFlow("read", "ask", Release) EXCEPT !.alive = b]
<1>1. NewFlow("read", "ask", Release) \in FlowSet
  BY NewUntimed, TimeBounds DEF Good
<1>2. NewFlow("read", "ask", Release).at = "ask" /\ NewFlow("read", "ask", Release).t = 0
  <2>1. NoFlow \in FlowSet /\ NoFlow.t = 0
    BY TimeBounds DEF NoFlow, FlowSet
  <2> QED
    BY <2>1 DEF NewFlow, FlowSet
<1>3. f \in FlowSet /\ f.at = "ask" /\ f.t = 0
  BY <1>1, <1>2 DEF FlowSet
<1> QED
  BY <1>3 DEF Good, Timed

\* The request to install: the clock starts when it is taken.
LEMMA InstallKeeps ==
  ASSUME FwIInv, NEW i \in Slots, InstallTaken(i) \/ InstallRefused(i)
  PROVE  FwIInv'
<1> DEFINE f == flows[i]
<1> DEFINE r == [NewFlow("read", "ask", Release) EXCEPT !.alive = f.alive]
<1>0. unit \in UnitSet /\ f \in FlowSet /\ Good(f, unit) /\ f.alive \in BOOLEAN
  BY DEF FwIInv, FlowSet
<1>1. Good(r, unit')
  BY <1>0, ReadFlow
<1>2. CASE InstallTaken(i)
  <2>1. f.t = 0
    BY <1>0, <1>2 DEF InstallTaken, Timed, Good
  <2>2. unit' \in UnitSet /\ Steady /\ unit'.up = unit.up
    BY <1>0, <1>2 DEF InstallTaken, UnitSet, Steady, Offers
  <2>3. card' \in CardSet
    BY <1>2, CardKeeps DEF InstallTaken, Phases, Busy
  <2>4. (unit.up < Slack) \in BOOLEAN
    BY <1>0, TimeBounds DEF UnitSet
  <2>5. ASSUME NEW img \in Before
        PROVE  Good([f EXCEPT !.before = img, !.at = "poll", !.fresh = unit.up < Slack], unit')
    <3> DEFINE g == [f EXCEPT !.before = img, !.at = "poll", !.fresh = unit.up < Slack]
    <3>1. g \in FlowSet /\ g.t = 0 /\ g.fresh = (unit.up < Slack)
      BY <1>0, <2>1, <2>4, BeforeTyped DEF FlowSet
    <3> QED
      BY <2>2, <3>1, ClockStarts
  <2>6. \/ \E img \in Before :
             Go(i, [f EXCEPT !.before = img, !.at = "poll", !.fresh = unit.up < Slack])
        \/ Go(i, r)
    BY <1>2 DEF InstallTaken
  <2> QED
    BY <1>1, <2>2, <2>3, <2>5, <2>6, GoKeeps DEF FwIInv
<1>3. CASE InstallRefused(i)
  <2>1. unit' \in UnitSet /\ Steady /\ (End(i) \/ Go(i, r))
    BY <1>0, <1>3 DEF InstallRefused, Steady
  <2>2. card' \in CardSet
    BY <1>3, CardKeeps DEF InstallRefused, Phases, Busy
  <2> QED
    BY <1>1, <2>1, <2>2, EndKeeps, GoKeeps DEF FwIInv
<1> QED
  BY <1>2, <1>3

\* What is read on entering the tab, after a refusal, and while a check runs.
LEMMA ReadKeeps ==
  ASSUME FwIInv, NEW i \in Slots, MountRead(i) \/ ReadAgain(i) \/ CheckPoll(i)
  PROVE  FwIInv'
<1> DEFINE f == flows[i]
<1>0. unit \in UnitSet /\ card \in CardSet /\ f \in FlowSet /\ Good(f, unit)
      /\ unit' = unit /\ Steady
  BY DEF FwIInv, MountRead, ReadAgain, CheckPoll, Steady
<1>1. CASE MountRead(i)
  <2>1. f.t = 0
    BY <1>0, <1>1 DEF MountRead, Timed, Good
  <2>2. card' \in CardSet
    <3>1. \/ card' = [card EXCEPT !.rel = Shown(unit.offer), !.phase = "download"]
          \/ SetRel(f, Shown(unit.offer))
          \/ UNCHANGED card
      BY <1>1 DEF MountRead
    <3> QED
      BY <1>0, <3>1, ShownTyped, CardKeeps DEF CardSet, Phases, Busy
  <2> DEFINE g == [f EXCEPT !.kind = "follow", !.at = "poll", !.fresh = unit.up < Slack]
  <2>3. (unit.up < Slack) \in BOOLEAN
    BY <1>0, TimeBounds DEF UnitSet
  <2>4. g \in FlowSet /\ g.t = 0 /\ g.fresh = (unit.up < Slack)
    BY <1>0, <2>1, <2>3 DEF FlowSet
  <2>5. Good(g, unit')
    BY <1>0, <2>4, ClockStarts
  <2>6. Go(i, g) \/ End(i)
    BY <1>1 DEF MountRead
  <2> QED
    BY <1>0, <2>2, <2>5, <2>6, GoKeeps, EndKeeps DEF FwIInv
<1>2. CASE ReadAgain(i)
  <2>1. card' \in CardSet
    BY <1>2, ShownTyped, CardKeeps DEF ReadAgain
  <2> QED
    BY <1>0, <1>2, <2>1, EndKeeps DEF ReadAgain, FwIInv
<1>3. CASE CheckPoll(i)
  <2>1. card' \in CardSet
    BY <1>3, ShownTyped, CardKeeps DEF CheckPoll
  <2>2. End(i) \/ UNCHANGED flows
    BY <1>3 DEF CheckPoll
  <2> QED
    BY <1>0, <2>1, <2>2, EndKeeps, FlowsUnchanged DEF FwIInv
<1> QED
  BY <1>1, <1>2, <1>3

\* A step within a wait, or to it from the download: its clock goes on.
LEMMA WaitGoesOn ==
  ASSUME FwIInv, NEW i \in Slots, UNCHANGED unit, flows[i].kind \in {"release", "follow"},
         flows[i].at = "poll", NEW at \in {"poll", "wait"}, NEW m \in 0..(Misses - 1)
  PROVE  Good([flows[i] EXCEPT !.at = at, !.missed = m], unit')
<1> DEFINE f == flows[i]
<1> DEFINE g == [f EXCEPT !.at = at, !.missed = m]
<1>1. f \in FlowSet /\ Good(f, unit) /\ Timed(f)
  BY DEF FwIInv, Timed
<1>2. g \in FlowSet /\ g.t = f.t /\ g.fresh = f.fresh /\ g.kind = f.kind /\ g.at = at
  BY <1>1 DEF FlowSet
<1>3. Timed(g)
  BY <1>2 DEF Timed
<1> QED
  BY <1>1, <1>2, <1>3 DEF Good

\* The download, poll by poll.
LEMMA FollowKeeps ==
  ASSUME FwIInv, NEW i \in Slots, FollowPoll(i) \/ FollowMissed(i)
  PROVE  FwIInv'
<1> DEFINE f == flows[i]
<1>0. unit \in UnitSet /\ card \in CardSet /\ f \in FlowSet /\ unit' = unit /\ Steady
      /\ f.kind \in {"release", "follow"} /\ f.at = "poll"
  BY DEF FwIInv, FollowPoll, FollowMissed, Steady
<1>1. f.missed \in 0..(Misses - 1) /\ 0 \in 0..(Misses - 1)
  <2>1. f.missed \in 0..(Misses - 1)
    BY <1>0 DEF FlowSet
  <2> QED
    BY <2>1, TimeBounds
<1>2. [f EXCEPT !.missed = 0] = [f EXCEPT !.at = "poll", !.missed = 0]
      /\ [f EXCEPT !.missed = @ + 1] = [f EXCEPT !.at = "poll", !.missed = f.missed + 1]
  BY <1>0 DEF FlowSet
<1>3. card' \in CardSet
  <2>1. \/ UNCHANGED card
        \/ card' = [card EXCEPT !.rel = "again", !.phase = "failed"]
        \/ SetPhase(f, "reboot")
    BY DEF FollowPoll, FollowMissed
  <2> QED
    BY <1>0, <2>1, CardKeeps DEF CardSet, Phases, Busy
<1>4. CASE FollowPoll(i)
  <2>1. \/ End(i) \/ Go(i, [f EXCEPT !.missed = 0])
        \/ Go(i, [f EXCEPT !.at = "wait", !.missed = 0])
    BY <1>4 DEF FollowPoll
  <2>2. Good([f EXCEPT !.missed = 0], unit') /\ Good([f EXCEPT !.at = "wait", !.missed = 0], unit')
    BY <1>0, <1>1, <1>2, WaitGoesOn
  <2> QED
    BY <1>0, <1>3, <2>1, <2>2, EndKeeps, GoKeeps DEF FwIInv
<1>5. CASE FollowMissed(i)
  <2>1. \/ End(i)
        \/ Go(i, [f EXCEPT !.at = "wait", !.missed = 0])
        \/ f.missed # Misses - 1 /\ Go(i, [f EXCEPT !.missed = @ + 1])
    BY <1>5 DEF FollowMissed
  <2>2. Good([f EXCEPT !.at = "wait", !.missed = 0], unit')
    BY <1>0, <1>1, WaitGoesOn
  <2>3. CASE f.missed # Misses - 1
    <3>1. f.missed + 1 \in 0..(Misses - 1)
      BY <1>1, <2>3, TimeBounds
    <3>2. Good([f EXCEPT !.missed = @ + 1], unit')
      BY <1>0, <1>2, <3>1, WaitGoesOn
    <3> QED
      BY <1>0, <1>3, <2>1, <2>2, <3>2, EndKeeps, GoKeeps DEF FwIInv
  <2> QED
    BY <1>0, <1>3, <2>1, <2>2, <2>3, EndKeeps, GoKeeps DEF FwIInv
<1> QED
  BY <1>4, <1>5

\* The verdicts are phases.
LEMMA OutcomeTyped == ASSUME NEW f PROVE Outcome(f) \in {"back", "done", "same"}
BY DEF Outcome

\* The end of a wait.
LEMMA WaitEnds ==
  ASSUME FwIInv, NEW i \in Slots, Back(i) \/ NotBack(i)
  PROVE  FwIInv'
<1>1. unit' \in UnitSet /\ Steady /\ End(i)
  BY DEF FwIInv, Back, NotBack, Steady
<1>2. CASE Back(i)
  <2>1. card' \in CardSet
    BY <1>2, OutcomeTyped DEF Back, FwIInv, CardSet, Phases
  <2> QED
    BY <1>1, <2>1, EndKeeps DEF FwIInv
<1>3. CASE NotBack(i)
  <2>1. card' \in CardSet
    BY <1>3, CardKeeps DEF NotBack, Phases
  <2> QED
    BY <1>1, <2>1, EndKeeps DEF FwIInv
<1> QED
  BY <1>2, <1>3

LEMMA StepKeeps == FwIInv /\ [FwNext]_fwVars => FwIInv'
<1> SUFFICES ASSUME FwIInv, [FwNext]_fwVars PROVE FwIInv'
  OBVIOUS
<1>1. CASE \E i \in Slots : FlowStep(i)
  BY <1>1, UploadKeeps, InstallKeeps, ReadKeeps, FollowKeeps, WaitEnds DEF FlowStep
<1>2. CASE UNCHANGED fwVars
  <2>1. unit' \in UnitSet /\ card' \in CardSet /\ Steady /\ UNCHANGED flows
    BY <1>2 DEF fwVars, FwIInv, Steady
  <2> QED
    BY <2>1, FlowsUnchanged DEF FwIInv
<1> QED
  BY <1>1, <1>2, DeviceKeeps, UserKeeps, TimerKeeps, TickKeeps DEF FwNext

\* FirmwareCard(): the card, its flows and the
\* device keep their types, for any images, time-outs and number of flows.
THEOREM FwTypeCorrect == FwSpec => []FwTypeOK
<1>1. FwIInv => FwTypeOK
  BY DEF FwIInv, FwTypeOK, UnitSet, CardSet, FlowSet
<1> QED
  BY <1>1, InitKeeps, StepKeeps, PTL DEF FwSpec

-----------------------------------------------------------------------------
(* What the card says at the end of a wait. *)

\* A flow that waits is concluded by Back or by NotBack.
LEMMA ConcludedBy ==
  ASSUME FwIInv, [FwNext]_fwVars, NEW i \in Slots, Concludes(i)
  PROVE  Back(i) \/ NotBack(i)
<1>0. flows[i].at = "wait" /\ flows'[i] = NoFlow /\ card'.on /\ flows[i] # NoFlow
      /\ flows[i] \in FlowSet /\ flows'[i] # flows[i] /\ NoFlow.at = ""
  <2>1. NoFlow.at = ""
    BY DEF NoFlow
  <2> QED
    BY <2>1 DEF Concludes, FwIInv
<1>1. ASSUME DeviceStep \/ TimerFires \/ UNCHANGED fwVars PROVE FALSE
  <2>1. CASE ComeUp
    <3>1. flows'[i] = [flows[i] EXCEPT !.fresh = Timed(flows[i])]
      BY <2>1 DEF ComeUp
    <3>2. flows'[i].at = "wait"
      BY <1>0, <3>1 DEF FlowSet
    <3> QED
      BY <1>0, <3>2
  <2> QED
    BY <1>0, <1>1, <2>1
       DEF DeviceStep, GoDown, OtherRestart, CheckEnds, InstallEnds, TimerFires, fwVars
<1>2. ASSUME Tick PROVE FALSE
  <2>1. flows'[i] = [flows[i] EXCEPT !.t = @ + 1] \/ flows'[i] = flows[i]
    BY <1>2 DEF Tick
  <2>2. flows'[i].at = "wait"
    BY <1>0, <2>1 DEF FlowSet
  <2> QED
    BY <1>0, <2>2
<1>3. ASSUME UserStep PROVE FALSE
  <2>1. CASE Leave
    BY <1>0, <2>1 DEF Leave, NoCard
  <2>2. CASE \E g : Start(g)
    BY <1>0, <2>2 DEF Start, FwIInv
  <2> QED
    BY <1>0, <1>3, <2>1, <2>2 DEF UserStep, Enter, Pick, Cancel, askRestart, askRelease, install,
       installRelease, restart, checkRelease
<1>4. ASSUME NEW j \in Slots, FlowStep(j), j # i PROVE FALSE
  <2>1. End(j) \/ (\E h : Go(j, h)) \/ UNCHANGED flows
    BY <1>4 DEF FlowStep, UploadBegins, UploadAccepted, UploadRefused, InstallTaken, InstallRefused,
       MountRead, ReadAgain, FollowPoll, FollowMissed, CheckPoll, Back, NotBack
  <2> QED
    BY <1>0, <1>4, <2>1 DEF End, Go, FwIInv
<1>5. ASSUME FlowStep(i) PROVE Back(i) \/ NotBack(i)
  <2>1. ~(UploadBegins(i) \/ UploadAccepted(i) \/ UploadRefused(i) \/ InstallTaken(i)
          \/ InstallRefused(i) \/ MountRead(i) \/ ReadAgain(i) \/ FollowPoll(i)
          \/ FollowMissed(i) \/ CheckPoll(i))
    BY <1>0 DEF UploadBegins, UploadAccepted, UploadRefused, InstallTaken, InstallRefused,
       MountRead, ReadAgain, FollowPoll, FollowMissed, CheckPoll
  <2> QED
    BY <1>5, <2>1 DEF FlowStep
<1> QED
  BY <1>1, <1>2, <1>3, <1>4, <1>5 DEF FwNext

\* A device that is taken for back has booted since the tap.
LEMMA BackIsFresh ==
  ASSUME FwIInv, NEW i \in Slots, Back(i)
  PROVE  flows[i].fresh
<1> DEFINE f == flows[i]
<1>1. f \in FlowSet /\ Good(f, unit) /\ Timed(f)
  BY DEF FwIInv, Back, Timed
<1>2. f.t \in 0..RelTimeout /\ unit.up \in 0..UpCap
  BY <1>1 DEF FlowSet, FwIInv, UnitSet
<1>3. ~unit.down /\ unit.up < f.t + Slack /\ ~(f.t >= Limit(f))
  BY DEF Back, IsBack, Expired
<1>4. Limit(f) \in Nat /\ Limit(f) <= RelTimeout
  BY LimitBound
<1>5. ~(unit.up = UpCap) /\ ~(unit.up >= f.t + Slack)
  BY <1>2, <1>3, <1>4, TimeBounds
<1> QED
  BY <1>1, <1>3, <1>5 DEF Good

\* The phase in which a wait that was given up leaves the card.
LEMMA GivenUp ==
  ASSUME FwIInv, NEW i \in Slots, NotBack(i), Concludes(i)
  PROVE  card'.phase \in {"lost", "failed"}
BY DEF FwIInv, CardSet, NotBack, Concludes, SetPhase

\* waitForReboot(): whatever else happens meanwhile, the card says that the device is back,
\* or names the image it runs, only after the device did restart since the tap.
THEOREM BackAfterRestart == FwSpec => BackMeansRestarted
<1>1. ASSUME FwIInv, [FwNext]_fwVars
      PROVE  \A i \in Slots : Concludes(i) /\ card'.phase \in {"back", "done", "same"}
                              => flows[i].fresh
  BY <1>1, ConcludedBy, BackIsFresh, GivenUp
<1>2. FwIInv /\ [FwNext]_fwVars
      => [\A i \in Slots : Concludes(i) /\ card'.phase \in {"back", "done", "same"}
                              => flows[i].fresh]_fwVars
  BY <1>1
<1> QED
  BY <1>2, InitKeeps, StepKeeps, PTL DEF FwSpec, BackMeansRestarted

-----------------------------------------------------------------------------
(* The verdict. *)

\* Every image carries a version, and neither a version nor a hash is of two images.
ImagesTold ==
  /\ \A i \in Image : i.fw # ""
  /\ \A i, j \in Image : i.fw = j.fw \/ (i.app # "" /\ i.app = j.app) => i = j

\* A verdict of a flow f about the running image is true.
Right(f, verdict) ==
  /\ verdict = "done" => \/ unit.img = f.want
                         \/ unit.img.app = "" /\ unit.img # f.before
  /\ verdict = "same" => \/ unit.img # f.want
                         \/ unit.img.app = "" /\ unit.img.build = f.before.build

\* What is said of the image is true of it.
LEMMA OutcomeRight ==
  ASSUME ImagesTold, FwIInv, NEW i \in Slots, Back(i)
  PROVE  Right(flows[i], Outcome(flows[i]))
<1> DEFINE f == flows[i]
<1>1. f.want \in Image /\ unit.img \in Image /\ unit.img.fw # ""
  BY DEF FwIInv, FlowSet, UnitSet, ImagesTold
<1>2. /\ unit.img.fw = f.want.fw => unit.img = f.want
      /\ unit.img.app # "" /\ unit.img.app = f.want.app => unit.img = f.want
  BY <1>1 DEF ImagesTold
<1>3. unit.img = f.want => unit.img.fw = f.want.fw /\ unit.img.app = f.want.app
  OBVIOUS
<1>4. CASE f.kind = "upload" /\ unit.img.app # ""
  BY <1>2, <1>3, <1>4 DEF Outcome, Right
<1>5. CASE f.kind = "upload" /\ unit.img.app = ""
  BY <1>5 DEF Outcome, Right
<1>6. CASE f.kind = "restart"
  BY <1>6 DEF Outcome, Right
<1>7. CASE f.kind \in {"release", "follow"}
  <2>1. Outcome(f) = IF unit.img.fw = f.want.fw THEN "done" ELSE "same"
    BY <1>1, <1>7 DEF Outcome
  <2> QED
    BY <1>2, <1>3, <2>1 DEF Right
<1> QED
  BY <1>4, <1>5, <1>6, <1>7 DEF Back

\* install(), followInstall(): the card says that an update is installed, or that the same
\* image runs, only when it does, an image that reports no hash being told by its build time.
THEOREM VerdictIsRight == ImagesTold => (FwSpec => VerdictRight)
<1>1. ASSUME ImagesTold, FwIInv, [FwNext]_fwVars, NEW i \in Slots, Concludes(i)
      PROVE  Right(flows[i], card'.phase)
  <2>1. CASE Back(i)
    <3>1. card' = [card EXCEPT !.phase = Outcome(flows[i]),
                     !.rel = IF flows[i].kind \in {"release", "follow"} THEN "null" ELSE @]
      BY <1>1, <2>1 DEF Back, Concludes
    <3>2. card'.phase = Outcome(flows[i])
      BY <1>1, <3>1 DEF FwIInv, CardSet
    <3> QED
      BY <1>1, <2>1, <3>2, OutcomeRight
  <2>2. CASE NotBack(i)
    BY <1>1, <2>2, GivenUp DEF Right
  <2> QED
    BY <1>1, <2>1, <2>2, ConcludedBy
<1>2. ASSUME ImagesTold PROVE FwSpec => VerdictRight
  <2>1. FwIInv /\ [FwNext]_fwVars
        => [\A i \in Slots : LET f == flows[i] IN Concludes(i) =>
              /\ card'.phase = "done" => \/ unit.img = f.want
                                         \/ unit.img.app = "" /\ unit.img # f.before
              /\ card'.phase = "same" => \/ unit.img # f.want
                                         \/ unit.img.app = "" /\ unit.img.build = f.before.build]_fwVars
    BY <1>1, <1>2 DEF Right
  <2> QED
    BY <2>1, InitKeeps, StepKeeps, PTL DEF FwSpec, VerdictRight
<1> QED
  BY <1>2
=============================================================================

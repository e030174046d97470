----------------------------- MODULE StreamTab ------------------------------
(***************************************************************************)
(* The frame stream: the device's ring of captured frames                  *)
(* (firmware/components/gplug_smi/frame_log.h) and the tab that lists them *)
(* and shows the text of an opened one (spa/src/live/stream-tab.js).  A    *)
(* frame is addressed by its position, newest first, so every capture      *)
(* moves the others one place down; the page learns of it from the next    *)
(* list, by comparing the age of the newest frame with the one it expects. *)
(*                                                                         *)
(* A frame is told by the number of captures since, its distance: the      *)
(* distances of all that is held grow with every capture (up to Gone).     *)
(* The device answers one request at a time and its answers arrive in that *)
(* order: an answer is taken over in the step that gives it, the age in a  *)
(* list being up to Latency old by then.  Positions start at 1 here; a     *)
(* tick is some four seconds.                                              *)
(***************************************************************************)
EXTENDS Integers, FiniteSets

CONSTANTS
  LogSlots,  \* slots of the device's ring
  Poll,      \* ticks between two polls of the list
  Latency,   \* ticks within which a poll is answered or fails
  Slack,     \* ticks the newest frame may seem too young without being new
  MinGap,    \* ticks between two captures, at least
  Mode,      \* the two texts of a frame
  Wide,      \* the layouts: FALSE the list alone, TRUE with a pane beside it
  MaxTexts,  \* bound: texts in flight when another is asked for by a tap
  MaxStale,  \* bound: ticks without a new list, failing or frozen
  Gone       \* bound: distances are told apart up to here

ASSUME StreamTabAssumption ==
  /\ {LogSlots, Poll, Latency, Slack, MinGap, MaxTexts, MaxStale, Gone} \subseteq Nat
  /\ LogSlots > 0 /\ Latency \in 1..Poll /\ MaxStale > Poll /\ Gone > LogSlots
  /\ MinGap > Slack + Latency /\ Wide \subseteq BOOLEAN

VARIABLES
  log,     \* the device's ring: [n, age], its frames and the age of the newest (or
           \* the time since the start)
  frames,  \* the list on the page: [n, age, lag], lag captures behind the ring
  poll,    \* the poll of the list: [on, wait], on while one is on its way
  view,    \* [wide, tail, mode, open], open = 0 for none
  bodies,  \* <<position, mode>> -> the distance of the frame whose text is kept
  texts,   \* the <<position, mode>> whose text has been asked for
  newest   \* the newest frame when the list was last taken over: [n, age, ago]

stVars == <<log, frames, poll, view, bodies, texts, newest>>

Pos       == 1..LogSlots
\* Ages are told apart as far as two lists MaxStale apart can tell them.
MaxAge    == MaxStale + Latency + Slack + 1
Absent    == -1
NoList    == [n |-> Absent, age |-> 0, lag |-> 0]   \* not loaded yet
NoHead    == [n |-> 0, age |-> 0, ago |-> 0]
NoCache   == [k \in Pos \X Mode |-> Absent]
Older(n)  == IF n < MaxAge THEN n + 1 ELSE n
Farther(d) == IF d = Absent \/ d = Gone THEN d ELSE d + 1

StInit ==
  /\ log = [n |-> 0, age |-> MaxAge] /\ frames = NoList /\ newest = NoHead
  /\ poll = [on |-> TRUE, wait |-> 0]
  /\ view \in [wide : Wide, tail : {TRUE}, mode : Mode, open : {0}]
  /\ bodies = NoCache /\ texts = {}

-----------------------------------------------------------------------------
(* The device *)

\* FrameLog::push: the new frame comes first, the oldest of a full ring goes.
push ==
  /\ log.age >= MinGap
  /\ log' = [n |-> IF log.n < LogSlots THEN log.n + 1 ELSE log.n, age |-> 0]
  /\ frames' = [frames EXCEPT !.lag = Farther(@)]
  /\ bodies' = [k \in DOMAIN bodies |-> Farther(bodies[k])]
  /\ UNCHANGED <<poll, view, texts, newest>>

\* A restart, which takes as long as a gap between frames, at least; the ring is in RAM.
reboot ==
  /\ log.n > 0
  /\ log' = [n |-> 0, age |-> 0]
  /\ frames' = [frames EXCEPT !.lag = Gone]
  /\ bodies' = [k \in DOMAIN bodies |-> IF bodies[k] = Absent THEN Absent ELSE Gone]
  /\ UNCHANGED <<poll, view, texts, newest>>

\* A poll is answered or given up (after 4 s), well before the next one.
Tick ==
  /\ view.tail => poll.wait < Poll
  /\ poll.on => poll.wait < Latency
  /\ newest.ago < MaxStale
  /\ log' = [log EXCEPT !.age = Older(@)]
  /\ poll' = [poll EXCEPT !.wait = IF view.tail THEN @ + 1 ELSE @]
  /\ newest' = [newest EXCEPT !.ago = IF newest = NoHead THEN @ ELSE @ + 1]
  /\ UNCHANGED <<frames, view, bodies, texts>>

-----------------------------------------------------------------------------
(* The page *)

\* fetchText: from the cache unless forced, else asked of the device.
fetchText(p, m, force, kept) ==
  /\ texts' = IF ~force /\ kept[<<p, m>>] # Absent THEN texts ELSE texts \cup {<<p, m>>}
  /\ texts' = texts \/ force \/ Cardinality(texts) < MaxTexts

PollAsked ==
  /\ view.tail /\ ~poll.on /\ poll.wait = Poll
  /\ poll' = [on |-> TRUE, wait |-> 0]
  /\ UNCHANGED <<log, frames, view, bodies, texts, newest>>

PollFails ==
  /\ poll.on
  /\ poll' = [poll EXCEPT !.on = FALSE]
  /\ UNCHANGED <<log, frames, view, bodies, texts, newest>>

\* Mutant: a capture is told by the number of frames alone.
NoArrival_Count(f) == f.n = newest.n

\* An age at the bound stands for any age from there on.
NoArrival(f) == /\ f.age = MaxAge \/ f.age + Slack >= newest.age + newest.ago
                /\ f.n = newest.n

\* The device's list, the effect that takes it over
\* and, in the wide layout, the pane that opens.
taken(f) ==
  /\ frames' = f /\ poll' = [poll EXCEPT !.on = FALSE]
  /\ newest' = IF f.n = 0 THEN NoHead ELSE [n |-> f.n, age |-> f.age, ago |-> 0]
  /\ IF f.n = 0 \/ newest = NoHead \/ NoArrival(f)
     THEN /\ UNCHANGED bodies
          /\ IF view.wide /\ view.open = 0 /\ f.n > 0 /\ frames.n \in {0, Absent}
             THEN view' = [view EXCEPT !.open = 1] /\ fetchText(1, view.mode, FALSE, bodies)
             ELSE UNCHANGED <<view, texts>>
     ELSE /\ bodies' = NoCache
          /\ IF view.open # 0 THEN fetchText(view.open, view.mode, TRUE, NoCache)
             ELSE UNCHANGED texts
          /\ UNCHANGED view

PollArrives ==
  /\ poll.on
  /\ \E late \in 0..Latency :
       late <= log.age /\ taken([n |-> log.n, age |-> log.age - late, lag |-> 0])
  /\ UNCHANGED log

\* handle_frame_detail_ answers with the frame at that position now.
TextArrives ==
  /\ \E t \in texts : /\ t[1] <= log.n
                      /\ bodies' = [bodies EXCEPT ![t] = t[1] - 1]
                      /\ texts' = texts \ {t}
  /\ UNCHANGED <<log, frames, poll, view, newest>>

TextFails ==
  /\ \E t \in texts : texts' = texts \ {t}
  /\ UNCHANGED <<log, frames, poll, view, bodies, newest>>

toggleOpen ==
  /\ \E p \in 1..frames.n :
       IF view.open = p /\ ~view.wide
       THEN view' = [view EXCEPT !.open = 0] /\ UNCHANGED texts
       ELSE view' = [view EXCEPT !.open = p] /\ fetchText(p, view.mode, FALSE, bodies)
  /\ UNCHANGED <<log, frames, poll, bodies, newest>>

pickMode ==
  /\ \E m \in Mode : /\ m # view.mode /\ IF view.wide THEN frames.n > 0 ELSE frames.n # Absent
                     /\ view' = [view EXCEPT !.mode = m]
                     /\ IF view.open # 0 THEN fetchText(view.open, m, FALSE, bodies)
                        ELSE UNCHANGED texts
  /\ UNCHANGED <<log, frames, poll, bodies, newest>>

\* Freezing stops the polling, a poll on its way included; thawing polls at once.
setTail ==
  /\ frames.n # Absent
  /\ view' = [view EXCEPT !.tail = ~@]
  /\ poll' = [on |-> ~view.tail, wait |-> 0]
  /\ UNCHANGED <<log, frames, bodies, texts, newest>>

StNext == \/ push \/ Tick \/ PollAsked \/ PollFails
          \/ PollArrives \/ TextArrives \/ TextFails \/ toggleOpen \/ pickMode \/ setTail

StSpec == StInit /\ [][StNext]_stVars

\* The same with a device that may restart under the page.
StRestartSpec == StInit /\ [][StNext \/ reboot]_stVars

-----------------------------------------------------------------------------
(* Properties *)

\* Type correctness of the ring, the list and the texts.
StTypeOK ==
  LET Dist == -1..Gone
      List == [n : -1..LogSlots, age : 0..MaxAge, lag : 0..Gone]
  IN /\ log \in [n : 0..LogSlots, age : 0..MaxAge]
     /\ frames \in List /\ newest \in [n : 0..LogSlots, age : 0..MaxAge, ago : 0..MaxStale]
     /\ poll \in [on : BOOLEAN, wait : 0..Poll]
     /\ view \in [wide : BOOLEAN, tail : BOOLEAN, mode : Mode, open : 0..LogSlots]
     /\ bodies \in [Pos \X Mode -> Dist]
     /\ texts \subseteq Pos \X Mode

\* The frame whose text is on display, the one its header is about, and nothing on
\* its way that could still change either.
Body    == bodies[<<view.open, view.mode>>]
Header  == frames.lag + view.open - 1
Settled == /\ view.open \in 1..frames.n /\ Body # Absent
           /\ texts = {} /\ ~poll.on

\* stream-tab.js:58: the text under a frame's header is that frame's ("so the body always
\* matches the header drawn above it"), once the list is the device's and nothing is on its
\* way: no text of a frame that has moved on is left in its place.
BodyOfHeader == Settled /\ view.tail /\ frames.lag = 0 => Body = Header

FramesTrue == StTypeOK /\ BodyOfHeader
=============================================================================

------------------------------ MODULE HistTab -------------------------------
(***************************************************************************)
(* Which stored history the browser shows: the live screen re-reads the    *)
(* day range from time to time (spa/src/live/index.js), the History tab    *)
(* (spa/src/live/hist-tab.js) takes it from there and fetches the other    *)
(* ranges, keeping each until the store has a newer record.  The device    *)
(* goes on storing records meanwhile, dated ones and, before its clock is  *)
(* set, undated ones.                                                      *)
(*                                                                         *)
(* An answer is a copy [range, records, newest]: how many records had been *)
(* written when it was made, and the newest quarter hour among them.  A    *)
(* fetch whose effect was cleaned up (stop) does nothing when it ends and  *)
(* is dropped at once.                                                     *)
(***************************************************************************)
EXTENDS Integers

CONSTANTS
  TabRange,   \* the ranges of the tab, "day" among them
  Clocked,    \* every record the device writes is dated
  MaxRecords  \* bound: records written

ASSUME HistTabAssumption ==
  "day" \in TabRange /\ "none" \notin TabRange /\ Clocked \in BOOLEAN /\ MaxRecords \in Nat

VARIABLES
  stored,  \* the device's history: [records, newest]
  day,     \* the live screen's day history, None before the first answer
  dayReq,  \* its read: [at, copy]
  tab,     \* the tab: [on, range, hist, loading, err]
  cache,   \* range -> the copy kept, None without one; outlives the tab
  fetch    \* the read of the running effect: [at, range, copy]

htVars == <<stored, day, dayReq, tab, cache, fetch>>

None    == [range |-> "none", records |-> 0, newest |-> 0]
Copy(r) == [range |-> r, records |-> stored.records, newest |-> stored.newest]
NoRead  == [at |-> "idle", range |-> "none", copy |-> None]
Closed  == [on |-> FALSE, range |-> "day", hist |-> None, loading |-> FALSE, err |-> FALSE]

HtInit ==
  /\ stored = [records |-> 0, newest |-> 0]
  /\ day = None /\ dayReq = NoRead
  /\ tab = Closed
  /\ cache = [r \in TabRange |-> None]
  /\ fetch = NoRead

-----------------------------------------------------------------------------
(* The effect on [range, day]: t is the tab and d the day history it sees *)

FromLive(t, d) == t.range = "day" /\ d # None
\* Mutant: a range once read is never read again.
Kept_Known(t, d) == cache[t.range] # None

Kept(t, d)     == cache[t.range] # None /\ (d = None \/ cache[t.range].newest = d.newest)

Effect(t, d) ==
  \/ /\ FromLive(t, d)
     /\ cache' = [cache EXCEPT !["day"] = d]
     /\ tab' = [t EXCEPT !.hist = d, !.err = FALSE]
     /\ fetch' = NoRead
  \/ /\ ~FromLive(t, d) /\ Kept(t, d)
     /\ tab' = [t EXCEPT !.hist = cache[t.range], !.err = FALSE]
     /\ fetch' = NoRead
     /\ UNCHANGED cache
  \/ /\ ~FromLive(t, d) /\ ~Kept(t, d)
     /\ tab' = [t EXCEPT !.hist = cache[t.range], !.err = FALSE,
                         !.loading = @ \/ cache[t.range] = None]
     /\ fetch' = [at |-> "asked", range |-> t.range, copy |-> None]
     /\ UNCHANGED cache

-----------------------------------------------------------------------------
(* The device and the live screen's poll *)

Stores ==
  /\ stored.records < MaxRecords
  /\ \E dated \in {TRUE, Clocked} :
       stored' = [records |-> stored.records + 1,
                  newest |-> IF dated THEN stored.newest + 1 ELSE stored.newest]
  /\ UNCHANGED <<day, dayReq, tab, cache, fetch>>

readHistory ==
  /\ dayReq.at = "idle"
  /\ dayReq' = [NoRead EXCEPT !.at = "asked", !.range = "day"]
  /\ UNCHANGED <<stored, day, tab, cache, fetch>>

DayServed ==
  /\ dayReq.at = "asked"
  /\ dayReq' = [dayReq EXCEPT !.at = "served", !.copy = Copy("day")]
  /\ UNCHANGED <<stored, day, tab, cache, fetch>>

DayArrives ==
  /\ dayReq.at = "served"
  /\ day' = dayReq.copy /\ dayReq' = NoRead
  /\ IF tab.on THEN Effect(tab, dayReq.copy) ELSE UNCHANGED <<tab, cache, fetch>>
  /\ UNCHANGED stored

DayFails ==
  /\ dayReq.at # "idle"
  /\ dayReq' = NoRead
  /\ UNCHANGED <<stored, day, tab, cache, fetch>>

-----------------------------------------------------------------------------
(* The tab *)

OpenTab ==
  /\ ~tab.on
  /\ Effect([Closed EXCEPT !.on = TRUE], day)
  /\ UNCHANGED <<stored, day, dayReq>>

setRange ==
  /\ tab.on
  /\ \E r \in TabRange \ {tab.range} : Effect([tab EXCEPT !.range = r], day)
  /\ UNCHANGED <<stored, day, dayReq>>

CloseTab ==
  /\ tab.on
  /\ tab' = Closed /\ fetch' = NoRead
  /\ UNCHANGED <<stored, day, dayReq, cache>>

\* Into the wizard and back: the live screen starts over, the module's cache does not.
LeaveLive ==
  /\ tab' = Closed /\ fetch' = NoRead /\ day' = None /\ dayReq' = NoRead
  /\ UNCHANGED <<stored, cache>>

FetchServed ==
  /\ fetch.at = "asked"
  /\ fetch' = [fetch EXCEPT !.at = "served", !.copy = Copy(fetch.range)]
  /\ UNCHANGED <<stored, day, dayReq, tab, cache>>

FetchArrives ==
  /\ fetch.at = "served"
  /\ cache' = [cache EXCEPT ![fetch.range] = fetch.copy]
  /\ tab' = [tab EXCEPT !.hist = fetch.copy, !.loading = FALSE]
  /\ fetch' = NoRead
  /\ UNCHANGED <<stored, day, dayReq>>

FetchFails ==
  /\ fetch.at # "idle"
  /\ tab' = [tab EXCEPT !.err = TRUE, !.loading = FALSE]
  /\ fetch' = NoRead
  /\ UNCHANGED <<stored, day, dayReq, cache>>

HtNext == \/ Stores \/ readHistory \/ DayServed \/ DayArrives \/ DayFails
          \/ OpenTab \/ setRange \/ CloseTab \/ LeaveLive
          \/ FetchServed \/ FetchArrives \/ FetchFails

HtSpec == HtInit /\ [][HtNext]_htVars

-----------------------------------------------------------------------------
(* Properties *)

\* Type correctness of the store, the page's copies and its reads.
HtTypeOK ==
  LET Copies == [range : TabRange \cup {"none"}, records : Nat, newest : Nat]
      Reads  == [at : {"idle", "asked", "served"}, range : TabRange \cup {"none"}, copy : Copies]
  IN /\ stored \in [records : Nat, newest : Nat]
     /\ day \in Copies /\ dayReq \in Reads /\ fetch \in Reads
     /\ cache \in [TabRange -> Copies]
     /\ tab \in [on : BOOLEAN, range : TabRange, hist : Copies, loading : BOOLEAN, err : BOOLEAN]

\* hist-tab.js:33: the chart under a range's name shows that range, whichever
\* answers arrive late after the user has moved on.
RangeShown == tab.hist # None => tab.hist.range = tab.range

\* hist-tab.js:28: with nothing being read and no error shown, the range on
\* screen has every record the live screen knows of.
UpToDate ==
  tab.on /\ fetch = NoRead /\ ~tab.err /\ day # None =>
    tab.hist # None /\ tab.hist.records >= day.records

\* The chart is blank only while its range is being read for the first time, or
\* under an error.
NeverBlank == tab.on /\ tab.hist = None => fetch.at # "idle" \/ tab.err

\* What the tab shows is of the range it names, as new as the live screen's, and there.
HistShown == HtTypeOK /\ RangeShown /\ UpToDate /\ NeverBlank
=============================================================================

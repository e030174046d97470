------------------------------ MODULE EventLog ------------------------------
(***************************************************************************)
(* The event log: gplug_log::EventLog (event_log.h), a ring of entries in  *)
(* RAM that folds repeats, and the code around it in gplug_smi.cpp:        *)
(* log_setup_, log_event_, log_flush_, log_service_, the deferred lambda   *)
(* of /api/reboot.  All of it runs on the loop task; what interferes is    *)
(* the clock that arrives, restarts at any point of setup() and loop(),    *)
(* and an NVS that may refuse a write.                                     *)
(*                                                                         *)
(* An event is its code and detail; values and texts are left out.  An     *)
(* entry carries as history when it last happened, in which boot it was    *)
(* begun and its number.                                                   *)
(***************************************************************************)
EXTENDS Integers, FiniteSets

CONSTANTS
  Cap,           \* LOG_CAP
  FoldWindow,    \* FOLD_WINDOW_S
  FlushPeriod,   \* the rate limit of log_service_ (60 s)
  MaxRepeat,     \* where the repeat counter saturates (255)
  Events,        \* what happens while the device runs
  Reasons,       \* EV_BOOT with its reset reasons
  MaxSeconds,       \* bound: seconds
  MaxBoots,      \* bound: restarts
  MaxImages,     \* bound: firmware updates
  MaxEntries,    \* bound: entries begun when an event still occurs
  MaxFaults      \* bound: NVS writes that fail, history stores that do not open

Ota == "ota"          \* EV_OTA
Storage == "storage"  \* EV_STORAGE
Asked == "restart"    \* EV_RESTART

ASSUME SizesAssumption ==
  /\ Cap \in Nat \ {0} /\ {FoldWindow, FlushPeriod, MaxRepeat} \subseteq Nat
  /\ {MaxBoots, MaxImages, MaxEntries, MaxFaults} \subseteq Nat /\ MaxSeconds \in Nat \ {0}
ASSUME EventsAssumption == \A S \in {Events, Reasons} : {Ota, Storage, Asked} \cap S = {}

VARIABLES
  \* the world: the time, when this boot began, whether time() is usable, the
  \* firmware image that runs
  time, bootAt, synced, image,
  \* RAM: the Blob, dirty_, log_flush_ms_, log_backdated_
  log, dirty, flushAt, backdated,
  \* setup() and loop(): where the code is, and whether log_service_ has run
  point, served,
  \* NVS: the keys "log" and "app"
  onFlash, seen,
  \* history: restarts, entries ever begun, faults, and whether an event of this
  \* boot fell between the clock sync and log_service_ with undated ones before it
  boots, total, faults, early

world == <<time, bootAt, synced, image>>
ram == <<log, dirty, flushAt, backdated>>
logVars == <<world, ram, point, served, onFlash, seen, boots, total, faults, early>>

Entry == [ev : Events \cup Reasons \cup {Ota, Storage, Asked},
          epoch : Nat, up : Nat, repeat : 0 .. MaxRepeat,
          born : Nat, at : Nat, serial : Nat]
Blank == [ev |-> Ota, epoch |-> 0, up |-> 0, repeat |-> 0,
          born |-> 0, at |-> 0, serial |-> 0]

Blob == [e : [0 .. Cap - 1 -> Entry], count : 0 .. Cap, head : 0 .. Cap - 1]
Empty == [e |-> [i \in 0 .. Cap - 1 |-> Blank], count |-> 0, head |-> 0]

NoKey == -1   \* NVS has no such key

LogTypeOK ==
  /\ time \in 1 .. MaxSeconds /\ bootAt \in 1 .. MaxSeconds /\ synced \in BOOLEAN
  /\ image \in 0 .. MaxImages
  /\ log \in Blob /\ dirty \in BOOLEAN /\ flushAt \in Nat /\ backdated \in BOOLEAN
  /\ point \in {"storage", "load", "image", "app", "flush", "run"} /\ served \in BOOLEAN
  /\ onFlash \in Blob /\ seen \in {NoKey} \cup 0 .. MaxImages
  /\ boots \in 0 .. MaxBoots /\ total \in Nat /\ faults \in 0 .. MaxFaults /\ early \in BOOLEAN

LogInit ==
  /\ time = 1 /\ bootAt = 1 /\ synced = FALSE /\ image = 0
  /\ log = Empty /\ dirty = FALSE /\ flushAt = 0 /\ backdated = FALSE
  /\ point = "storage" /\ served = TRUE
  /\ onFlash = Empty /\ seen = NoKey
  /\ boots = 0 /\ total = 0 /\ faults = 0 /\ early = FALSE

Uptime == time - bootAt
Epoch == IF synced THEN time ELSE 0

-----------------------------------------------------------------------------
(* EventLog.                                                               *)

NewestSlot(b) == (b.head + Cap - 1) % Cap

\* at(): the slot of the i-th entry, oldest first.
EntrySlot(b, i) == (b.head + Cap - b.count + i) % Cap

EntryAt(b, i) == b.e[EntrySlot(b, i)]
Entries(b) == {EntryAt(b, i) : i \in 0 .. b.count - 1}

\* The newest entry takes a repeat of it inside the window.
Folds(b, ev) ==
  LET last == b.e[NewestSlot(b)] IN
  /\ b.count > 0 /\ last.ev = ev
  /\ Uptime >= last.up /\ Uptime - last.up < FoldWindow

Again(e) ==
  [e EXCEPT !.repeat = IF @ < MaxRepeat THEN @ + 1 ELSE @,
            !.up = Uptime,
            !.epoch = IF synced THEN Epoch ELSE @,
            !.at = time]

Fold(b) == [b EXCEPT !.e[NewestSlot(b)] = Again(@)]

\* Mutant: the head goes on before the entry is written.
Push_HeadFirst(b, ev) ==
  LET h == (b.head + 1) % Cap IN
  [e |-> [b.e EXCEPT ![h] =
            [ev |-> ev, epoch |-> Epoch, up |-> Uptime, repeat |-> 0,
             born |-> boots, at |-> time, serial |-> total + 1]],
   head |-> h,
   count |-> IF b.count < Cap THEN b.count + 1 ELSE b.count]

PushEntry(b, ev) ==
  [e |-> [b.e EXCEPT ![b.head] =
            [ev |-> ev, epoch |-> Epoch, up |-> Uptime, repeat |-> 0,
             born |-> boots, at |-> time, serial |-> total + 1]],
   head |-> (b.head + 1) % Cap,
   count |-> IF b.count < Cap THEN b.count + 1 ELSE b.count]

\* append()
Extended(b, ev) == IF Folds(b, ev) THEN Fold(b) ELSE PushEntry(b, ev)

\* Mutant: the uptime of the entry is not taken off.
Dated_Now(e) == [e EXCEPT !.epoch = time]
Dated(e) == [e EXCEPT !.epoch = time - (Uptime - e.up)]

\* backdate(): from the newest entry back to the first that is dated or of a
\* later uptime.
Datable(b) ==
  {i \in 0 .. b.count - 1 :
     \A j \in i .. b.count - 1 : EntryAt(b, j).epoch = 0 /\ EntryAt(b, j).up <= Uptime}

Backdate(b) ==
  [b EXCEPT !.e = [s \in 0 .. Cap - 1 |->
     IF \E i \in Datable(b) : s = EntrySlot(b, i) THEN Dated(b.e[s]) ELSE b.e[s]]]

-----------------------------------------------------------------------------
(* log_flush_ and log_event_.                                              *)

\* The blob goes to NVS, or does not; the log counts as clean either way.  f
\* faults have happened before.
SaveBlob(b, f) ==
  /\ \/ onFlash' = b /\ faults' = f
     \/ f < MaxFaults /\ faults' = f + 1 /\ UNCHANGED onFlash
  /\ dirty' = FALSE
  /\ flushAt' = Uptime

Flush(b, d) == IF d THEN SaveBlob(b, faults) ELSE UNCHANGED <<onFlash, dirty, flushAt, faults>>

\* log_event_(ev) on the log b.
LogEvent(b, ev, f) ==
  /\ log' = Extended(b, ev)
  /\ IF Folds(b, ev)
     THEN dirty' = TRUE /\ faults' = f /\ UNCHANGED <<onFlash, flushAt, total>>
     ELSE SaveBlob(log', f) /\ total' = total + 1

-----------------------------------------------------------------------------
(* setup().                                                                *)

\* hist_setup_, which comes before the log is loaded and logs its failure.
HistSetup ==
  /\ point = "storage" /\ point' = "load"
  /\ \/ UNCHANGED <<log, dirty, flushAt, onFlash, total, faults>>
     \/ faults < MaxFaults /\ LogEvent(log, Storage, faults + 1)
  /\ UNCHANGED <<world, backdated, served, seen, boots, early>>

\* log_setup_: the stored blob replaces the log, and the boot is logged.
LogSetup ==
  /\ point = "load" /\ point' = "image"
  /\ \E reason \in Reasons : LogEvent(IF onFlash = Empty THEN log ELSE onFlash, reason, faults)
  /\ UNCHANGED <<world, backdated, served, seen, boots, early>>

\* Mutant: an update is noted in RAM only.
LogImage_Unsaved ==
  /\ point = "image" /\ point' = "app"
  /\ IF seen \notin {NoKey, image}
     THEN /\ log' = PushEntry(log, Ota) /\ total' = total + 1 /\ dirty' = TRUE
          /\ UNCHANGED <<onFlash, flushAt, faults>>
     ELSE UNCHANGED <<log, dirty, flushAt, onFlash, total, faults>>
  /\ UNCHANGED <<world, backdated, served, seen, boots, early>>

\* The image differs from the one that ran last.
LogImage ==
  /\ point = "image" /\ point' = "app"
  /\ IF seen \notin {NoKey, image}
     THEN LogEvent(log, Ota, faults)
     ELSE UNCHANGED <<log, dirty, flushAt, onFlash, total, faults>>
  /\ UNCHANGED <<world, backdated, served, seen, boots, early>>

\* The image is remembered; in the end what was folded is flushed.
SaveImage ==
  /\ point = "app"
  /\ \/ seen' = image /\ UNCHANGED faults
     \/ faults < MaxFaults /\ faults' = faults + 1 /\ UNCHANGED seen
  /\ point' = "flush"
  /\ UNCHANGED <<world, ram, served, onFlash, boots, total, early>>

SetupEnds ==
  /\ point = "flush" /\ point' = "run"
  /\ Flush(log, dirty)
  /\ UNCHANGED <<world, log, backdated, served, seen, boots, total, early>>

-----------------------------------------------------------------------------
(* loop().                                                                 *)

\* A second passes; log_service_ has run in the one before.
Tick ==
  /\ point = "run" /\ served /\ time < MaxSeconds
  /\ time' = time + 1 /\ served' = FALSE
  /\ UNCHANGED <<bootAt, synced, image, ram, point, onFlash, seen, boots, total, faults, early>>

\* SNTP answers.
Sync ==
  /\ point = "run" /\ ~ synced
  /\ synced' = TRUE
  /\ UNCHANGED <<time, bootAt, image, ram, point, served, onFlash, seen, boots, total, faults, early>>

\* Something worth a record: Wi-Fi, the meter, a configuration, the store.
Occur ==
  /\ point = "run" /\ total < MaxEntries
  /\ \E ev \in Events : LogEvent(log, ev, faults)
  /\ early' = \/ early
              \/ /\ synced /\ ~ backdated
                 /\ \E e \in Entries(log) : e.born = boots /\ e.epoch = 0
  /\ UNCHANGED <<world, backdated, point, served, seen, boots>>

\* The rate limit for what is only in RAM.
Overdue == Uptime - flushAt > FlushPeriod

\* The deferred work of log_service_: once the clock is usable the entries of
\* this boot are dated and flushed, and folded repeats are flushed.
Service ==
  /\ point = "run" /\ served' = TRUE
  /\ IF synced /\ ~ backdated
     THEN /\ backdated' = TRUE
          /\ log' = Backdate(log)
          /\ Flush(log', dirty \/ log' # log)
     ELSE /\ UNCHANGED <<log, backdated>>
          /\ Flush(log, dirty /\ Overdue)
  /\ UNCHANGED <<world, point, seen, boots, total, early>>

-----------------------------------------------------------------------------
(* Restarts.                                                               *)

\* RAM is new; a software restart keeps the clock and may start a new image.
Reborn ==
  /\ boots < MaxBoots /\ boots' = boots + 1
  /\ point' = "storage" /\ served' = TRUE
  /\ bootAt' = time /\ synced' \in {synced, FALSE}
  /\ image' \in {image, image + 1} \cap 0 .. MaxImages
  /\ log' = Empty /\ dirty' = FALSE /\ flushAt' = 0 /\ backdated' = FALSE
  /\ early' = FALSE
  /\ UNCHANGED <<time, seen>>

\* A crash, a power cut or an update.
Crash ==
  /\ Reborn
  /\ UNCHANGED <<onFlash, total, faults>>

\* POST /api/reboot, the deferred lambda: logged, flushed and restarted.
Reboot ==
  /\ point = "run"
  /\ \/ onFlash' = Extended(log, Asked) /\ UNCHANGED faults
     \/ faults < MaxFaults /\ faults' = faults + 1 /\ UNCHANGED onFlash
  /\ total' = IF Folds(log, Asked) THEN total ELSE total + 1
  /\ Reborn

LogNext ==
  \/ HistSetup \/ LogSetup \/ LogImage \/ SaveImage \/ SetupEnds
  \/ Tick \/ Sync \/ Occur \/ Service \/ Crash \/ Reboot

LogSpec == LogInit /\ [][LogNext]_logVars

-----------------------------------------------------------------------------
(* Properties.                                                             *)

Serials(b) == [i \in 0 .. b.count - 1 |-> EntryAt(b, i).serial]
Running == point = "run"

\* The ring holds the newest Cap entries ever begun, oldest first, however
\* often the device restarted in between ("a small ring of events that survives
\* a reboot", event_log.h).
KeepsEntries ==
  Running =>
    /\ log.count = IF total < Cap THEN total ELSE Cap
    /\ \A i \in 0 .. log.count - 1 : EntryAt(log, i).serial = total - log.count + 1 + i

\* The same as long as the flash takes every write and the store opens.
SurvivesReboot == faults = 0 => KeepsEntries

\* Entries are read in the order they were begun in, whatever was refused by
\* the flash.
InOrder ==
  \A b \in {log, onFlash} : \A i, j \in 0 .. b.count - 1 :
    i < j => EntryAt(b, i).serial < EntryAt(b, j).serial

\* A crash costs counts of repeats and dates, never an entry ("the next event
\* may be a crash", gplug_smi.cpp).
CrashLosesNoEntry == Running /\ faults = 0 => Serials(onFlash) = Serials(log)

\* What is folded into the newest entry reaches the flash with the first
\* log_service_ that finds the rate limit over ("a folded one waits for the 60 s
\* rate limit", README): only a repeat of this very second is still to be saved
\* then, and a log that counts as clean is the one on flash.
RepeatsFlushed ==
  /\ Running /\ ~ dirty /\ faults = 0 => onFlash = log
  /\ Running /\ dirty /\ served =>
       Uptime - flushAt <= FlushPeriod \/ log.e[NewestSlot(log)].at = time

\* The wall clock of an entry begun in this boot is the second it last happened
\* in, whether it was known then or computed later.
OwnDatesExact ==
  \A e \in Entries(log) : e.born = boots /\ e.epoch # 0 => e.epoch = e.at

\* Once the clock is there no entry of this boot stays undated ("back-dating
\* this boot's entries once the clock syncs", gplug_smi.cpp), unless an event
\* fell between the sync and the next log_service_.
DatedAfterSync ==
  Running /\ backdated /\ ~ early =>
    \A e \in Entries(log) : e.born = boots => e.epoch # 0

\* event_log.h, log_event_: the newest entries survive restarts in the order they were
\* begun, a crash loses none, and folded repeats reach the flash in time.
EventsKept == LogTypeOK /\ InOrder /\ SurvivesReboot /\ CrashLosesNoEntry /\ RepeatsFlushed

\* event_log.h, backdate: the entries of this boot get the date of the second they
\* happened in, all of them once the clock is there.
EventsDated == OwnDatesExact /\ DatedAfterSync

\* The image that ran last is replaced in NVS only once the update is recorded
\* there: a crash in between may record it twice but never lose it.
UpdateRecorded ==
  [][seen' # seen /\ seen # NoKey /\ faults = 0 =>
       \E e \in Entries(onFlash') : e.ev = Ota /\ e.born = boots]_logVars

=============================================================================

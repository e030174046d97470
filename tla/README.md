# Verification of the gPlug firmware and its browser application

TLA+ models of the gPlug smart-meter reader: the ESPHome component
`src/firmware/components/gplug_smi/` on an ESP32-C3, which keeps quarter-hour records on flash, logs
events, serves HTTP and publishes to MQTT, and the single-page application `src/spa/` it serves.
Each module names the code it models in its header; `PROJECT.json` maps every definition to its
source lines.

```
tlc -workers 2 -config MCHistStore.cfg MCHistStore     # a run
tlapm HistStoreProofs.tla                              # the proofs of a module
```

## 1. The system

### Tasks and locks

| task | does | remark |
|---|---|---|
| loop | UART, decoders, LED, button, all `*_service_()` functions, and the lambdas other tasks `defer()` to it | owns the history accumulator, the MQTT client, NVS writes |
| httpd | one request at a time, priority above the loop | preempts the loop anywhere; writes the live configuration at once and defers the NVS write |
| esp-mqtt | the client's events | writes atomics only |
| mqtt_stop | lives for one tear-down of a client | says "offline", destroys the client |
| browser | one JavaScript thread; every `await` lets taps, timers and other answers in | state in closures of a render: an answer may install what was true when it was asked for |

Mutexes on the device: `mutex_` (live values, descriptor), `hist_mutex_` (flash store), `log_mutex_`,
`mem_mutex_`, `upd_mutex_`, `mqtt_mutex_`. Nesting is hist → mutex_ and hist → log only, so no
cycle exists; the loop takes `hist_mutex_` with `try_lock`.

### Components

| component | state | operations | what makes it correct |
|---|---|---|---|
| history store (`history_store.h`, `partition_flash.h`) | ring of 4 kB sectors on flash (header, records, timestamp words); in RAM the newest sector, slot, oldest sector, count, armed recycle | `begin`, `append` in two writes, `service_erase`, `patch_qh_seq`, `for_each`, `read_sector` | a write only ever meets erased bytes; a restart finds what was served; acknowledged records stay until the ring turns over |
| history service (`hist_service_`, `hist_close_interval_`, `hist_backpatch_`) | the interval being accumulated, flags for the next record, the undated run | once per second from `loop()`; `apply_meter_json_` sets a flag from httpd | each sample in one record, dates never wrong, chain breaks marked |
| history over HTTP (`handle_history_csv_`, `history_csv.h`, `json_history_`) | a snapshot of the store's position; buckets | sector-wise copies under the lock; counter differences per bucket | rows in order, each once; energy is the counter's |
| event log (`event_log.h`, `log_*_`) | RAM ring of 24 entries, copy in NVS, identity of the image in NVS | `append` with folding, `backdate`, load, save | entries survive a restart, dates are right |
| heap history and latches (`heap_monitor.h`, `mem_service_`, `handle_heap_`) | ring of samples, two latches | push, batch-wise read, one report per excursion | the export skips only what was dropped; reports are bounded and not lost |
| frame log (`frame_log.h`), stream tab (`stream-tab.js`) | ring of raw frames; list, texts by position | push, copy one; poll, fetch, open | text and header belong together |
| MQTT (`mqtt.cpp`) | saved settings, handover slot, running set, client, atomics of the client's state | POST, service, events, start, stop | the newest configuration runs; the retained availability is true in the end |
| MQTT templates (`mqtt_template.h`, `mqtt-template.js`) | none that lasts | compile, render | what compiles fits its buffer and makes clean topics |
| MQTT card (`mqtt-card.js`) | the form, a draft of the settings | load, edit, save, read back | what is typed stays, "saved" is true |
| firmware card (`firmware-card.js`), `update_*_`, `handle_update_*` | phase of the card; snapshot of the update entity | upload, install, check, restart, wait for the device | the verdict is true, no busy phase without end |
| setup wizard (`main.js`, `steps/`, `diag.js`), `merge_stored_keys_` | route, step, selection, key; configuration on the device | hash changes, Next, detection, commits | a step left is stored, the choice stays, a key where one is needed |
| history tab (`hist-tab.js`, `live/index.js`) | one copy per range | poll of the day, fetch of a range | the range shown is the one named, and new |
| charts (`hour.js`, `live-tab.js`, `mem-card.js`, `scrub.js`) | none or the last answer | putting together ring and store, dating samples, the guide | values at their time, gaps as gaps |
| language tables and manual (`i18n/`, `i18n-check.mjs`, `docs/build.mjs`) | files edited apart | the two builds | what builds is complete and in one language |
| configuration (`apply_*_json_`) | live descriptor, JSON in NVS | POST, deferred save, boot | after a restart the configuration last acknowledged |
| decoders (`dsmr_parser.h`, `dlms_decoder.h`, `protocol_sniff.h`) | receive buffers, framing state | byte-wise `feed` | no value from a damaged telegram, resynchronisation |
| LED, button, verdict; versions; units; captive portal; code generation; mock; CI | – | – | see "Not modelled" |

### How they interact

The loop makes records from samples (history service → store) and events (→ event log); httpd reads
both while the loop writes; the tabs of the browser read them through HTTP and keep copies. The MQTT
card and the wizard write settings through httpd, which hands them to the loop; the firmware card
asks the loop's update entity through a snapshot. The browser learns of a restart only from an
uptime, an age or a count that does not fit.

### What is hard

* Power can go at any flash operation, and NOR flash can only clear bits.
* The ring turns over: oldest and newest sector are neighbours, recycles are armed in RAM.
* No clock at the start: records and events are dated afterwards, from uptimes or by counting.
* httpd preempts the loop between any two statements and holds locks the loop only tries.
* Restarts happen between a change and the save that follows it.
* Counters that start anew: uptime at each boot, `millis()` after 49.7 days.
* In the browser, answers come after the user has moved on, twice, or not at all; things addressed by
  position shift; a device that answers may be the one before the restart.

`PROJECT.json` lists these as hazards, each at its line with the properties that watch it.

## 2. Structure

| modules | what |
|---|---|
| `HistLog` | abstract: a bounded log that grows at the young end |
| `HistStore`, `HistStoreInv` | the flash store, which implements `HistLog`, and its inductive invariant |
| `CsvExport` | extends `HistStore` with the export |
| `HistService` | the clock side, on a store abstracted to a sequence |
| `EventLog` | the event log |
| `HeapStream`, `LowLatch`, `MemService` | heap ring, latch, and both as `mem_service_` drives them |
| `MemCard` | extends `HeapStream` with the card that draws the trend |
| `StreamTab` | frame ring and the tab that shows it |
| `MqttClient`, `MqttTemplate` | the client, the templates |
| `MqttCard` | the card with the device's side of its requests |
| `FirmwareCard` | the card with the device's update and reboot |
| `Wizard` | the wizard with the device's configuration |
| `HistTab`, `HistChart`, `HourChart` | history tab and charts |
| `Manual` | the two builds under edits |
| `MCHistStore`, `MCFlashLogs`, `MCHistory`, `MCHistService`, `MCMqtt`, `MCRings`, `MCFirmwareCard`, `MCPages`, `MCWizard` | instances for TLC |
| `HistStoreProofs` | proofs about `HistStore`, `HistLog` and `CsvExport` |
| `HistoryProofs` | about `HistService`, `HistTab`, `HistChart`, `HourChart` and `MCHistory` |
| `EventLogProofs` | about `EventLog` and the faults in `MCFlashLogs` |
| `MqttClientProofs` | about `MqttClient`, `MqttTemplate` and `MCMqtt` |
| `FirmwareCardProofs` | about `FirmwareCard` |
| `MemProofs` | about `LowLatch`, `HeapStream`, `MemCard` and `StreamTab` |
| `PagesProofs` | about `Wizard`, `MqttCard`, `Manual` and `MCPages` |
| `FoldLemmas` | induction over the naturals, and what a fold computes |

Several MC modules hold components that do not interact in one state. A variable `focus`, chosen at
the start and never changed, says which of them a behaviour is about; the others stay in one initial
state. Such a run is the union of the separate runs, not their product; its properties say `focus =
... =>` where a variable of another component could matter.

Every module that theorems are about is free of RECURSIVE operators and takes its sizes as
CONSTANTS with named assumptions.

What one could add: the snapshot and deferred save of the meter profile; DSMR and DLMS framing as
parsers over byte classes (section 6 says why they are left out).

## 3. What is modelled

Conventions: variables keep the source's names where they can (`cur`, `slot`, `unkCount` for
`cur_sec`, `slot`, `unk_count_`); variables called history record what happened, no action's guard
reads them except to bound a run. `X_Something` next to a definition `X` is a plausible bug of `X`;
`PROJECT.json` names the property that finds it.

### On the device

**HistStore, HistLog, HistStoreInv.** One action is one flash operation or the code between two of
them, so power can go anywhere in between (`PowerCut`) or inside an operation (`PowerCutInWrite`, which
leaves the words torn, a sector half erased). `pc` names the point in the code, `job` the operation
under way. `hdr`, `dat` and `tag` are the flash: a header is its sequence number, a record the number of
the `append()` that wrote it, a timestamp `Virgin`, `"unknown"` or `"dated"`; a CRC is abstracted to
whether the word is `Torn`. Programming ANDs bits: what is written over anything but erased bytes is
torn. `HistLog` promises a log that grows at the young end and loses at the old end at most one sector
at a time, never anything inside its window; `ImplementsLog` is the refinement, the log being a
function of the flash alone (what a power-on would find).

**CsvExport** extends `HistStore` with `handle_history_csv_`: the snapshot and each sector copy are
atomic (under `hist_mutex_`), the store moves freely in between.

**HistService.** One sample is ten seconds. `hist_service_` is cut where the code lets others in: at
the start of `hist_close_interval_`, at its end, before `hist_backpatch_`. The store is a sequence of
records. `reader` is a history request that holds `hist_mutex_`; `try_lock` may also fail for no
reason, which the model covers by a request that ends at once. `PostMeter` is the httpd task.

**EventLog.** A tick is one second. `pc` walks `setup()` and then `loop()`. The ring is an array with
head and count as in the code, both in RAM (`log`) and NVS (`nvs`); entries carry serial numbers as
history. A write to NVS fails, or the store does not open, at most `MaxFaults` times. `early` notes that
an event fell between the clock sync and the next `log_service_()`.

**HeapStream, LowLatch, MemService.** The ring of heap samples with the request that reads it in
batches by push number; and the latch, whose figure is low, in the hysteresis band or clear. `LowLatch`
stands for both latches of `heap_monitor.h`. `Wrap` is where `millis()/1000` starts anew, `Modulus` the
width of the subtraction. `MemService` pushes a sample and shows it to the latch in one pass.

**MqttClient.** Four tasks and a broker. httpd hands settings over under `mqtt_mutex_`; the loop's pass
through `mqtt_service_()` is cut where it lets go of a lock or reads an atomic (`pc`); the event handler
writes `mqtt_state_` and `mqtt_online_due_` one after the other, after a check of the client that may be
out of date by then (`handler`); a tear-down task says "offline" and destroys the client. The broker
keeps one retained message per topic, one session per identifier, publishes the will of a session that
is taken over or times out, and forgets it on a clean DISCONNECT. Broker and esp-mqtt are external,
modelled from the protocol and from what `mqtt.cpp` relies on.

**MqttTemplate.** A template is a sequence of pieces (a character or a key with its register), a text a
sequence over a few classes of characters: plain, quote, backslash, comma, wildcard. `compile` adds up
`bound`s as the code does, before any meter has spoken; `render` escapes what the meter says. The two
together are in one state, so `FitsBuffer` compares the promise with what comes out. The code's loops over
registers and pieces are folds (`Total`, `Largest`, `Joined`) over what each contributes.

### In the browser

**HistTab.** The day copy the live screen polls, the cache per range, one fetch at a time. A copy is
told by how many records it has and by its newest quarter hour, as in the code. A fetch whose effect was
cleaned up is dropped.

**HistChart.** The device's buckets (`json_history_`, `HistBucket`: first and last reading, undated
records counted by position, `HF_CONFIG_CHANGE`, plausibility limit) and the page's bars, gaps and
total. The code's loops over records, points and bars are folds of
the same steps (`folded`, `flush`, `barred`). The properties compare them with the counter itself.

**HourChart.** The ring of samples, the stored quarter-hour means, the page's copy of the day; `lastHour`
merges them, `runs` cuts the line at changes of sign. A tick is the period of the ring.

**MemCard** extends `HeapStream`: samples carry uptimes and the card computes a time for each from the
uptime in the answer's header, while `millis()` may wrap and a sample may be taken as the answer is sent.
The guide of `useScrub` is kept as a distance from the newest sample.

**StreamTab.** A frame is told by its distance, the number of captures since. The tab keeps its list, the
texts by position and mode, the layout and what is open; it takes the list for new when the age of the
newest frame does not fit. Ticks make the poll; a capture moves everything one place.

**FirmwareCard.** Each async function of the card is a flow with its own place (`at`), time and flag
`alive` (the mount it belongs to); a step is one awaited answer or time-out. The device boots, is
silent, rolls back, is restarted by somebody else, or takes an install and never begins. Time runs in
units of five seconds.

**MqttCard.** Every answer installs a state built from the closure of the render that asked (`snap`).
`Template` stands for all fields but the password; `Compiling` is what the page accepts, `Accepted` what
the device accepts, so a POST can be refused.

**Wizard.** Route, hash and `hashchange` (only a hash that changes reports one), steps, the tiers of
profiles listed, detection that selects until the user taps, commits of which several may be in flight,
the verdict's button, and on the device `merge_stored_keys_`.

**Manual.** Contributors edit tables, parts of the UI, `coverage.json` and stories in any order;
`manualProblem` and `spaBuilds` are the checks of the two builds as predicates. The properties say what a
reader gets when a build accepts.

## 4. Runs

| run | shows | bounds | distinct states |
|---|---|---|---|
| `hist_store` | virgin writes, restarts neutral, log in order, dates final; refinement of `HistLog`; the inductive invariant | 3 sectors × 2 slots, 9 appends, 1 interrupted operation | 206 k |
| `flash_logs` | export against the live ring; a failing write is contained; events survive, are dated, an update is recorded | export 3 × 2 with 9 appends; faults 2 × 2 with 6 appends and 2 failed or interrupted operations; event ring of 3, window of 3 s, saved every second, 4 s, 2 restarts, 1 update, 1 fault | 2.2 M |
| `history_to_screen` | records once and rightly dated; history tab new and of its range; gaps, energy, last hour | intervals of 3 samples, 11 samples, 2 restarts, 1 profile; 3 ranges, 3 records; 3 records over 5 quarters in buckets of 1 and 2; 7 ticks, window 4 | 2.4 M |
| `service_adverse` | samples counted once, undated run tracked, back-dating in the end | intervals of 2, 4 samples, readers, failing appends, a clock step, 1 restart, 1 profile | 438 k |
| `mqtt` | latest settings in force, values of the profile, availability right; templates safe | 2 posts, 1 profile, 2 clients, 1 lost connection or restart; templates of up to 3 pieces | 2.4 M |
| `ram_rings` | heap export, its times and guide on the card across the wrap; latch; frame texts | ring of 4, batches of 2, 10 samples, hold-off 3; period 2, wrap at 13, 12 ticks; 2 frames, 2 modes | 2.0 M |
| `firmware_card` | restarts and verdicts told truly; busy phases end | 2 images, 2 flows at once, time-outs of 2 units, 2 misses | 379 k |
| `setup_pages` | wizard, MQTT card, builds | 3 profiles, 2 lines, 2 requests at once; 4 templates, 2 passwords, 2 requests; 2 languages, 2 keys, 2 stories, 4 edits | 1.2 M |

Why these bounds are enough. Three sectors are the smallest ring in which oldest, newest and a middle
one differ, and two slots the smallest sector with a first and a last one; the 7th append
is the first that needs a recycled sector, 9 turn the ring one and a half times. Two interruptions let a
second one hit the recovery
from the first. An interval of three samples has a beginning, a middle and an end. A ring of three
entries wraps within a run; its window is longer than its saving period, as in the code (300 s and 60 s),
so an entry can be repeated after it was saved. Two MQTT clients are a predecessor and its successor, with the same
identifier or another. In the browser, two requests or flows at once are the late answer and the one
that should win; three ranges let a user leave one, come back to it and pass another; three records
make two differences, so a gap, an undated one or a change of meter lies between two good ones; three
pieces let a key stand between two others, twice, or inside a section; two frames and two modes make
every text wrong by position or by mode; four edits break one thing, repair it and break another. For
the heap card a cycle of 13 ticks with a period of 2 puts the wrap before, between and on samples. Sizes
that remain are the subject of the proofs.

### Runs that end in a violation

Each shows a place where the code does something else than a comment or a document says; the quote
is in `PROJECT.json` under `findings`.

| run | what happens |
|---|---|
| `patch_after_full_turn` | no clock for a whole turn of the ring: back-patching dates erased slots |
| `lost_interval` | a reader in the way: the interval is not closed later but merged into the next |
| `wizard_fix_link` | the verdict's button sets the hash the page already has, and nothing happens |
| `stream_after_restart` | new frames pass for the known ones, and a text stays under another frame's header |

### Divergences the models contain and no run is spent on

The models take these steps; the properties name the exception, or a constant switches them on.

On the device:

* `append()` after a failed `append()` writes to the same slot, whose bytes may be used
  (history_store.h:284 against partition_flash.h:10-13; `RecordFaults`).
* A restart forgets the armed recycle, and the erase falls on the append path (history_store.h:303
  against history_store.h:300).
* A profile saved while a record is being closed is never marked, nor is one saved just before a
  restart; a failed `append()` costs the flags (gplug_smi.cpp:1521 and 71; `raced` in
  `ChainMarked`). With `MarkLost = TRUE` `NothingInvented` of `HistChart` fails: the step between two
  meters is shown as energy.
* After a step back of the clock quarters are written a second time (gplug_smi.cpp:1557); the first
  interval after the sync counts as whole (l. 1554), and may share its quarter with an estimate
  (l. 1532).
* An event between the clock sync and `log_service_()` leaves older entries of the boot undated
  (event_log.h:130; `early` in `DatedAfterSync`); an older boot's entry may be dated as this one's
  (l. 125 and 131); events of two boots may fold into one entry (l. 101). `EV_STORAGE` before
  `log_setup_()` replaces the stored ring (gplug_smi.cpp:74 against event_log.h:1).
* The hold-off of a latch fails at the wrap of `millis()` (heap_monitor.h:79; `NoWrap`).
* An "online" still in the outbox may follow the "offline" of the tear-down (`late` in
  `OnlineHasWill`); a refused "online" is not tried again (`refused` in `OnlineNotLost`); the will
  of an old identifier may come after the new client's "online" (`OnlineStays`).
* gplug_smi.cpp:858-859 says a second restart within the fold window "only bumps the repeat count",
  but each boot logs `EV_BOOT`, so the newest entry is never the restart request.

In the browser:

* An impatient user of the wizard (`Patient = FALSE`) can leave a step whose commit then fails or is
  overtaken by a reload (`StepsPersisted`), and see a late answer replace a choice (`ChoiceKept`).
* Two loads of the MQTT form at once (`Hasty = TRUE`: close and open the card) let the second replace a
  draft typed over the first (`FormKept`).
* Before the device has a clock, a range's copy cannot be told from an older one by its newest quarter
  hour, so the tab may stay behind (hist-tab.js:9-10; `Clocked = FALSE`, `UpToDate`).
* A restart can be started during the await of an upload's check (firmware-card.js:14), and "checking"
  may be left without a way forward (l. 350); `Patient = TRUE` leaves both out.
* The total under the bars misses the energy of a bucket whose meter was silent for a part of it
  (`Mixed` in `EnergyTotal`); the time of a bucket is said to be its start and is its last record's
  (fmt.js:62).
* In the last hour a silent meter is drawn as its last value or none as 0 (live-tab.js:78-80,
  gplug_smi.cpp:173-185; `Silent` in `HourTrue`); a slot from the store is off by one period
  (hour.js:49-50; `t - 1`).
* A heap sample taken while its answer is sent, across the wrap of `millis()`, is shown as 49.7 days old
  (mem-card.js:26; `WrappedMeanwhile`). Two times may be equal when the poll falls on a due sample;
  reopening the card shows the figure of the page load until the trend arrives (mem-card.js:30-38).

### Environment and fairness

* `Fairness` of `HistService`: the loop task runs (weak fairness of its steps), a request ends
  (weak), and neither of the two `try_lock`s of a pass meets a held mutex at every attempt (strong):
  a request holds the mutex for milliseconds and the loop tries on every pass. Without the last
  part a client that polls without a pause could starve back-dating, and the code has no defence.
* `FwFairness` of `FirmwareCard`: time passes (`Tick`), a timer of the card fires, and a flow whose
  awaited answer or time-out has come goes on. No fairness is assumed of the device or the user: a
  device that never answers runs into the time-outs of the waits (`REL_TIMEOUT_MS`, `REBOOT_TIMEOUT_MS` and
  the others, and that of each request), which is what the code relies on for `BusyEnds`.
* `Sample` needs a pass of `hist_service_` with the lock free since the sample before; passes are
  milliseconds apart, samples ten seconds.
* A write that reports failure did not complete: its words are as before or torn.
* `RecordFaults = FALSE`: record and timestamp writes fail only together with the power.
  `ClockSyncs = TRUE`: the clock comes before the undated run fills the ring. The `faults` part of
  `flash_logs` and the run `patch_after_full_turn` show what happens otherwise.
* A sector whose recycle failed half-way may still be served from RAM and is gone after a restart;
  `RebootNeutral` has that one exception.
* In `EventLog` `time()` and uptime tick together; the clock does not step. `log_service_()` runs in
  every second (`served`).
* The broker orders the messages of one connection, and a connection it closes or that breaks
  delivers nothing more.
* The device answers one HTTP request at a time and the stream tab sees its answers in that order.
  Captures lie further apart than a poll and its slack take (`MinGap > Slack + Latency`), as with a
  meter that sends every ten seconds; one that sends every second keeps the list moving all the time,
  and what its rows show between two polls is not claimed.
* `Delay < Period` in `MemCard`: an answer takes less than the five minutes between samples. The page
  does not enforce it (api.js:54-56 ends the time-out before the body is read); the device's send does.
* Symmetry is used in `flash_logs` only, for events that no definition tells apart; that run has no
  liveness property.

## 5. What is proved

For every value of the constants that the modules' assumptions allow, by `tlapm` without gaps. A
hypothesis of a theorem is a constant-level condition (`Environment`, `Calm`, `Clocked`, `Patient`, ...) that
section 4 explains and that holds in the run which checks the same property; a theorem named without one
has none.

**History store and its export** (`HistStoreProofs`). `IInv` has two halves, both checked by `hist_store`.

* `WriteInv`: where writes go. `VirginWrites` is not inductive: that the next slot is virgin depends on
  everything above the frontier being virgin (`Frontier`), on the next sector being erased throughout once
  prepared (`Recycling`, `Erased`) and on back-patching not having passed the frontier (`UndatedRun`,
  `PatchRange`, which count the slots between the first undated record and the frontier along the ring).
* `RingInv`: what the flash holds. The valid headers are one chain of consecutive sequence numbers that
  ends at the current sector or the one prepared next (`Chain`), the sectors served are those of the chain
  (`Served`), and a record lies no further from the frontier than there were appends
  since (`Spaced`). `LogOrder` and the exact count follow, and that a restart finds the same records.

`IInv` is invariant without hypothesis (`InductiveInvariant`; its parts name the switch they need). From
it: `WritesAreVirgin` under `Environment`; `PatchesDateRecords` under `ClockSyncs`; `DatesStay`, `LogIsKept`
and the refinement `StoreIsLog` (every step of the store is a step of `HistLog` or leaves the log alone)
under `Environment`; and for writes that fail while the power stays, `FaultsAreContained` under
`ClockSyncs`. The arithmetic of the ring is confined to lemmas about `Dist` and `Succ`.

The export runs beside the store. `ExportInv`: the sectors of the snapshot keep their sequence numbers or
are gone (`SnapshotInv`), what is still to come lies above what is delivered (`OrderInv`), and what was
there at the snapshot and still is has been delivered or lies ahead (`StillThere`). `RowsAreInOrder` needs
no hypothesis. `ExportIsFaithful` does: after a failed timestamp write the record is in the slot at the
frontier, which no sector copy includes.

**Quarter hours to the screen** (`HistoryProofs`).

* `HsTypeCorrect`, `UndatedRunIsTracked` and `NoSampleTwice`, with failing appends, restarts and clock
  steps. The undated run is tracked because it is a stretch of the log that ends at its end until the
  clock has been taken over (`RunInv`), and because the record being closed is undated exactly while it
  has not (`ClockInv`; this uses that the clock is after 1970 however it is stepped, `FirstQhAssumption`).
  No sample is used twice because those of the interval come after those of every record (`SamplesInv`).
* `DatesAreRight` and `EveryIntervalIsThere` on a clock that is not stepped, with a lock that is free
  (`Calm`) and appends that succeed. The accumulator then holds a run of samples that ends now, within one
  quarter once the clock is taken over (`TimeInv`); no sample lies between two records of a boot
  (`GapInv`); and undated records are a quarter apart, so counting back from the sync dates them to within
  one (`EstInv`).
* `ChainIsMarked` without `Calm`: a flag is in the record, in the draft or pending (`ChainInv`).
* `HtTypeCorrect`, and `HistoryIsShown` under `Clocked`. `HistShown` is not inductive: that a late answer
  is harmless depends on each copy being of the range it is kept, read or asked for (`TagsInv`), on the
  newest quarter hour telling copies apart (`DatedInv`) and on no copy being ahead of the device nor a
  served read behind the live screen (`PastInv`).

* The bars (`HistChart`). `BarsAreTrue`: they are in the order of time, a hole in the record has a bar of
  its own, the total is what one meter counted. `NothingIsInvented` under `~MarkLost`: the total is at most
  what went through the meters. The state needs little (`HcInvariant`): dates go up (`DatesUp`), what was
  read last is in the last record and silent ones repeat it (`ReadInv`), and each record has a figure of what
  had been used when it was read, which the counter's steps do not exceed (`PaidFor`). The
  rest is about what three nested folds compute from any such record: the points of the records up to
  `g` are its buckets, each with the last record's time and counter; the bars of the first `m`
  points go up, with gaps between; and a sum over bars is a sum over points, hence over counter
  differences, which telescopes. Each is an induction over prefixes (`FoldLemmas`).
* The last hour (`HourChart`). `HourIsDrawn`: each value is what the meter said then or the mean of its
  quarter, and the line passes through every value, at its place, with a crossing exactly where neighbours
  have opposite signs. The state says what the ring and the stored means hold (`RingTrue`, `Averaged`); that
  `runs` draws it is an induction over the slots in which the first and the last point of each run are
  carried along (`Draws`).
* `HourStaysDrawn`, `GapsStayDrawn` and `EnergyStaysTrue` are about the instance `MCHistory`: with one part in
  focus it implements each part's specification (`HistoryIsItself`).

**Event log** (`EventLogProofs`). `EventsAreKept`, `EventsAreDated` and the action property
`UpdateIsRecorded`, with restarts anywhere and failing writes. `LogInv` says of the ring in RAM and of its
copy in NVS alike that positions, serials, boots and times go up together (`Good`); that the entries of
this boot are all dated or all undated unless an event fell between sync and service (`DatesInv`); that
without a fault the copy has the newest entry begun and differs from the ring only in what is dirty
(`KeptInv`, `FlushInv`); and that a changed image is on record before its identity is replaced
(`ImageInv`). `FaultsStayContained` is the theorem `FaultsAreContained` of the store carried over to the
instance of `HistStore` that `flash_logs` checks, for any number of slots.

**MQTT** (`MqttClientProofs`). `SettingsAreInForce` and `AvailabilityIsTrue` for any number of clients,
POSTs, losses and restarts. The three parts of `AvailabilityTrue` need each other and five more: what is
saved, handed over and running agree up to the hand-over (`CfgInv`); the client's connection is the one
asked for (`ConnInv`); one client at a time has a task, the current one or the one being stopped
(`OneInv`); sessions belong to created clients, and what the client's task knows of its connection
(`NetInv`); and a connected client that may have said "online" takes it back before it goes (`WillInv`).

`TemplatesStaySafe`, for any profile, template, texts and sizes of the buffers: what a piece renders to is no
longer than its `bound` (for the lists over all registers, because the items that have a value are among
those counted), so the whole is no longer than `worst`; a topic is made of pieces without a wildcard; a
fixed topic has no piece that depends on the meter. `PublishedSafely` is the same of the instance `MCMqtt`.

**Rings in RAM** (`MemProofs`).

* The latch: `OneReportPerExcursion` holds across the wrap of `millis()`; `ReportsApart` and
  `LastingLowReported` assume `NoWrap`, without which the first of them fails. Disarmed means told, armed
  means a clear sample came since; the samples of an untold excursion lie inside the hold-off.
* `HeapIsExported`: what has been sent and the batch under way ascend to the position reached and miss
  below it only what the ring has dropped (`AnswerInv`).
* `CardIsTrue`: an answer the card waits for is young, so it has no hole between two samples
  (`FlightInv`), and a trend is a row of samples up to the newest at its time (`CardInv`); the dates and
  the guide are arithmetic on that row, with the wrap between any two of them.
* `FramesAreTrue` for a device that does not restart: frames known to have moved are recognised by their
  age (`AgeInv`, from `MinGap > Slack + Latency`), and a text kept was fetched after the list (`MovedInv`).

**Pages** (`PagesProofs`, `FirmwareCardProofs`).

* Wizard: the types and `KeyPolicyKept` for every user, however many commits are in flight;
  `StepsArePersisted` and `ChoiceIsKept` under `Patient`. That the first profile of a tier exists rests on
  the well-foundedness of the naturals.
* MQTT card: the types and `PasswordStays` (an action property); `FormStaysTrue` under `~Hasty`. With one
  request in flight (`OneInv`), what a request will install is the form on the page (`ReqInv`), a draft is
  what was typed or what was read (`DraftInv`), and "saved" means just read (`SavedInv`).
* `BuildsAreComplete`: what the two builds check implies, for any languages, texts, screens and stories,
  what a reader is promised; the proof is about the checks, not about the edits.
* `PagesTypeCorrect` and `BuildsStayComplete` are about the instance `MCPages`: with one page in focus it
  implements each page's specification, so the pages' theorems hold of it.
* Firmware card: `FwTypeCorrect`, `BackAfterRestart` and, for images that their versions and hashes tell
  apart (`ImagesTold`, true of the run's images), `VerdictIsRight`; the last two are action properties. A
  wait's clock starts at the tap, so a device that has not restarted since is older than it by the slack,
  or at the age that tells nothing more (`Good`); hence what the age comparison accepts has booted. A flow
  that waits is only ever concluded by its own answer or time-out (`ConcludedBy`).

**Folds** (`FoldLemmas`). Induction over the naturals with the predicate given as a set, from the
well-founded order of the naturals, and from it that a fold over a sequence is a function of its
prefixes. The export uses it for the records of a sector, the templates for lengths, the charts for points,
bars and runs.

Only model-checked: liveness (`Backdated`, `BusyEnds`) and anything with ENABLED, which are out of the
prover's reach. Every safety invariant and action property of a passing run is stated by a theorem.
The runs that end in a violation have nothing to prove.

## 6. Not modelled

* Within modelled parts: flash reads that fail (the code then takes a sector for empty); the `first_qh`
  hints and `oldest_qh`/`newest_qh` of the store; diagnostic counters; row formatting and time window of
  the CSV; contents of records and samples; long frames that are cut; the figures of the stack; the
  export of all frames, which pairs positions with texts fetched later (stream-tab.js:88-92).
* Parsers over bytes (DSMR, DLMS, the sniffer): what they compute depends on every byte; over a few byte
  classes a model would be a test, over all it is out of TLC's reach. AES-GCM and CRCs are arithmetic
  with known answers.
* LED, button and meter verdict only show state; version comparison and unit conversion are pure
  functions over strings and numbers that unit tests cover.
* The deferred save of the meter profile and the limits of `apply_*_json_`.
* In the browser: the event-log card, registers, the Wi-Fi step, formatting and theme show what one
  request answered. The key check's answer and a failed load of the MQTT form are not asked again. The
  language tables themselves are data; `Manual` models their check.
* Captive portal (a vendored copy), code generation, mock server, tools, CI: not on the device.

---------------------------- MODULE HistService ----------------------------
(***************************************************************************)
(* How quarter hours become history records: hist_service_ and             *)
(* hist_close_interval_ on the loop task, the 10 s sampling that feeds     *)
(* them, the clock that arrives late and may be stepped, the httpd task    *)
(* that holds hist_mutex_ while it serves history or replaces the meter    *)
(* configuration (apply_meter_json_), and restarts.                        *)
(*                                                                         *)
(* Time is counted in 10 s samples.  The store is abstracted to the        *)
(* sequence of its records (HistStore has the flash); a record keeps its   *)
(* timestamp and flags, and as history the samples it was made from and    *)
(* the boot and meter configuration it was written under.                  *)
(***************************************************************************)
EXTENDS Integers, Sequences

CONSTANTS
  Quarter,      \* samples per interval (HIST_TICKS_PER_INTERVAL, 90)
  FirstQh,      \* the quarter hour the behaviour starts in
  MaxTime,      \* bound: samples taken in one behaviour
  MaxBoots,     \* bound: restarts
  MaxPosts,     \* bound: meter configurations posted
  Contention,   \* may the loop's try_lock of hist_mutex_ fail?
  MaxSteps,     \* bound: steps of the synchronised clock
  Faults        \* may append() fail?

ASSUME QuarterAssumption == Quarter \in Nat /\ Quarter >= 1
\* The clock is after 1970, however it is stepped.
ASSUME FirstQhAssumption == FirstQh \in Nat /\ MaxSteps <= FirstQh
ASSUME BoundsAssumption == {MaxTime, MaxBoots, MaxPosts, MaxSteps} \subseteq Nat
ASSUME SwitchesAssumption == {Contention, Faults} \subseteq BOOLEAN

Unknown == -1         \* QH_UNKNOWN
Flags == {"boot", "partial", "config"}

VARIABLES
  \* the world: time in samples, the clock's error in quarter hours, whether it
  \* is usable, and whether the httpd task holds hist_mutex_
  now, skew, synced, reader,
  \* GplugSmi: acc_time_valid_, acc_qh_, pending_flags_, unk_first_addr_ (as an
  \* index into log), unk_count_
  accTimeValid, accQh, pending, unkFirst, unkCount,
  \* acc_: its ticks, and as history the first and the last sample in it
  ticks, first, last,
  \* the loop task: between passes, inside hist_close_interval_ with the record
  \* it is about to append, or before the back-patch; and whether hist_service_
  \* has run to its end since the latest sample
  pc, draft, served,
  \* flash
  log,
  \* history: restarts, meter configurations, clock steps; the configurations
  \* posted while a record was being closed
  boots, config, steps, raced

world == <<now, skew, synced, reader>>
ram == <<accTimeValid, accQh, pending, unkFirst, unkCount>>
acc == <<ticks, first, last>>
vars == <<world, ram, acc, pc, draft, served, log, boots, config, steps, raced>>

Record == [qh : Int, est : BOOLEAN, flags : SUBSET Flags,
           first : Nat, last : Nat, boot : Nat, config : Nat]

NoDraft == [qh |-> Unknown, est |-> FALSE, flags |-> {},
            first |-> 0, last |-> 0, boot |-> 0, config |-> 0]

TypeOK ==
  /\ now \in 0 .. MaxTime /\ skew \in Int /\ synced \in BOOLEAN /\ reader \in BOOLEAN
  /\ accTimeValid \in BOOLEAN /\ accQh \in Int /\ pending \subseteq Flags
  /\ unkFirst \in 0 .. Len(log) /\ unkCount \in 0 .. Len(log)
  /\ ticks \in Nat /\ first \in Nat /\ last \in Nat
  /\ pc \in {"loop", "closing", "patch"} /\ draft \in Record /\ served \in BOOLEAN
  /\ log \in Seq(Record)
  /\ boots \in 0 .. MaxBoots /\ config \in 0 .. MaxPosts /\ steps \in 0 .. MaxSteps
  /\ raced \subseteq 1 .. MaxPosts

\* Sample t stands for the ten seconds that end at t.
QhOf(t) == FirstQh + (t - 1) \div Quarter

\* What time() says now, as a quarter hour.
Clock == FirstQh + now \div Quarter + skew

\* What setup() leaves in RAM; software restarts keep the clock, a power cut
\* does not.
Booted ==
  /\ accTimeValid' = FALSE /\ accQh' = 0 /\ pending' = {"boot", "partial"}
  /\ unkFirst' = 0 /\ unkCount' = 0
  /\ ticks' = 0 /\ first' = 0 /\ last' = 0
  /\ pc' = "loop" /\ draft' = NoDraft /\ served' = TRUE
  /\ reader' = FALSE
  /\ synced' \in BOOLEAN

Init ==
  /\ now = 0 /\ skew = 0 /\ synced \in BOOLEAN /\ reader = FALSE
  /\ accTimeValid = FALSE /\ accQh = 0 /\ pending = {"boot", "partial"}
  /\ unkFirst = 0 /\ unkCount = 0
  /\ ticks = 0 /\ first = 0 /\ last = 0
  /\ pc = "loop" /\ draft = NoDraft /\ served = TRUE
  /\ log = <<>> /\ boots = 0 /\ config = 0 /\ steps = 0 /\ raced = {}

-----------------------------------------------------------------------------
(* The world.                                                              *)

\* Ten seconds pass and loop() samples the meter.  A lock holder is gone in
\* far less, and hist_service_ runs on every pass of the loop, so at least one
\* of its passes since the last sample found the lock free.
Sample ==
  /\ pc = "loop" /\ served /\ ~ reader
  /\ now < MaxTime
  /\ now' = now + 1
  /\ ticks' = ticks + 1
  /\ first' = IF ticks = 0 THEN now + 1 ELSE first
  /\ last' = now + 1
  /\ served' = FALSE
  /\ UNCHANGED <<skew, synced, reader, ram, pc, draft, log, boots, config, steps, raced>>

\* SNTP answers.
Sync ==
  /\ ~ synced /\ pc = "loop"
  /\ synced' = TRUE
  /\ UNCHANGED <<now, skew, reader, ram, acc, pc, draft, served, log, boots, config, steps, raced>>

\* The clock is set again, a quarter hour off.
StepClock ==
  /\ steps < MaxSteps /\ steps' = steps + 1
  /\ synced /\ pc = "loop"
  /\ \E d \in {-1, 1} : skew' = skew + d
  /\ UNCHANGED <<now, synced, reader, ram, acc, pc, draft, served, log, boots, config, raced>>

\* The httpd task takes hist_mutex_ for a history request, and releases it.
ReaderLocks ==
  /\ Contention
  /\ ~ reader /\ pc # "closing"
  /\ reader' = TRUE
  /\ UNCHANGED <<now, skew, synced, ram, acc, pc, draft, served, log, boots, config, steps, raced>>

ReaderUnlocks ==
  /\ reader
  /\ reader' = FALSE
  /\ UNCHANGED <<now, skew, synced, ram, acc, pc, draft, served, log, boots, config, steps, raced>>

\* Mutant: a new profile does not break the counter chain.
ProfileFlags_None == {}

\* What a new profile leaves for the next record.
ProfileFlags == {"config", "partial"}

\* POST /api/config/meter, on the httpd task: apply_meter_json_.  It may land
\* inside hist_close_interval_, which read the flags and will clear them.
PostMeter ==
  /\ config < MaxPosts
  /\ config' = config + 1
  /\ pending' = pending \cup ProfileFlags
  /\ raced' = IF pc = "closing" THEN raced \cup {config'} ELSE raced
  /\ UNCHANGED <<world, accTimeValid, accQh, unkFirst, unkCount,
                 acc, pc, draft, served, log, boots, steps>>

\* A restart or a power cut; the record being appended may have made it.
Restart ==
  /\ boots < MaxBoots
  /\ boots' = boots + 1
  /\ \/ UNCHANGED log
     \/ pc = "closing" /\ log' = Append(log, draft)
  /\ Booted
  /\ UNCHANGED <<now, skew, config, steps, raced>>

-----------------------------------------------------------------------------
(* hist_service_.                                                          *)

\* The interval that this pass has to close, if any: its timestamp, and
\* whether it is expected to be full.
FirstClose == synced /\ ~ accTimeValid /\ ticks > 0
ClockClose == synced /\ accTimeValid /\ Clock > accQh
CadenceClose == ~ synced /\ ticks >= Quarter
MustClose == FirstClose \/ ClockClose \/ CadenceClose

CloseTag == IF ClockClose THEN accQh ELSE Unknown
CloseFull == CadenceClose \/ (ClockClose /\ Clock = accQh + 1)

\* The flags for the record, read once.
Carried == pending

\* hist_close_interval_ up to append(): the record, with the flags pending now.
CloseStart ==
  /\ pc = "loop" /\ MustClose /\ ~ reader
  /\ pc' = "closing"
  /\ draft' = [qh |-> CloseTag, est |-> FALSE,
               flags |-> Carried \cup (IF CloseFull THEN {} ELSE {"partial"}),
               first |-> first, last |-> last, boot |-> boots, config |-> config]
  /\ UNCHANGED <<world, ram, acc, served, log, boots, config, steps, raced>>

\* What hist_service_ leaves in acc_time_valid_ and acc_qh_, closed or not.
Resume ==
  /\ accTimeValid' = synced
  /\ accQh' = IF synced THEN Clock ELSE accQh

\* Mutant: the address of the run's first record is taken before the append.
CountUndated_Before ==
  IF draft.qh = Unknown
  THEN /\ unkCount' = unkCount + 1
       /\ unkFirst' = IF unkCount = 0 THEN Len(log) ELSE unkFirst
  ELSE UNCHANGED <<unkFirst, unkCount>>

\* The run of this boot's undated records grows by the one just appended.
CountUndated ==
  IF draft.qh = Unknown
  THEN /\ unkCount' = unkCount + 1
       /\ unkFirst' = IF unkCount = 0 THEN Len(log') ELSE unkFirst
  ELSE UNCHANGED <<unkFirst, unkCount>>

\* Mutant: the accumulator keeps the samples of the record that was written.
ResetAcc_Not == UNCHANGED acc

\* acc_.reset().
ResetAcc == ticks' = 0 /\ first' = 0 /\ last' = 0

\* The rest of hist_close_interval_: append(), the undated run, the reset.
CloseEnd ==
  /\ pc = "closing"
  /\ \/ log' = Append(log, draft) /\ CountUndated
     \/ Faults /\ UNCHANGED <<log, unkFirst, unkCount>>
  /\ pending' = {}
  /\ ResetAcc
  /\ draft' = NoDraft
  /\ Resume
  /\ pc' = "patch"
  /\ UNCHANGED <<world, served, boots, config, steps, raced>>

\* Nothing to close, or the lock is taken: the pass goes on all the same.  A
\* clock that went back moves the interval back and marks the record.
PassOver ==
  /\ pc = "loop"
  /\ MustClose => reader
  /\ Resume
  /\ pending' = IF synced /\ accTimeValid /\ Clock < accQh
                THEN pending \cup {"partial"} ELSE pending
  /\ pc' = "patch"
  /\ UNCHANGED <<world, unkFirst, unkCount, acc, draft, served, log, boots, config, steps, raced>>

\* Mutant: the undated run is dated one interval too far back.
FirstDate_FarBack == accQh - unkCount - 1
FirstDate == IF accQh > unkCount THEN accQh - unkCount ELSE 0

\* Mutant: the count of undated records survives the back-patch.
Backpatch_KeepCount ==
  /\ pc = "patch" /\ synced /\ unkCount > 0 /\ ~ reader
  /\ pc' = "loop" /\ served' = TRUE
  /\ UNCHANGED <<world, ram, acc, draft, log, boots, config, steps, raced>>

\* hist_backpatch_ with the lock free.
Backpatch ==
  /\ pc = "patch" /\ synced /\ unkCount > 0 /\ ~ reader
  /\ log' = [i \in 1 .. Len(log) |->
               IF i \in unkFirst .. unkFirst + unkCount - 1 /\ log[i].qh = Unknown
               THEN [log[i] EXCEPT !.qh = FirstDate + i - unkFirst, !.est = TRUE]
               ELSE log[i]]
  /\ unkCount' = 0
  /\ pc' = "loop" /\ served' = TRUE
  /\ UNCHANGED <<world, accTimeValid, accQh, pending, unkFirst, acc, draft, boots, config, steps, raced>>

\* No undated record, no clock, or the lock is taken.
NoBackpatch ==
  /\ pc = "patch"
  /\ ~ synced \/ unkCount = 0 \/ reader
  /\ pc' = "loop" /\ served' = ~ reader
  /\ UNCHANGED <<world, ram, acc, draft, log, boots, config, steps, raced>>

Next ==
  \/ Sample \/ Sync \/ StepClock \/ ReaderLocks \/ ReaderUnlocks \/ PostMeter \/ Restart
  \/ CloseStart \/ CloseEnd \/ PassOver \/ Backpatch \/ NoBackpatch

Spec == Init /\ [][Next]_vars

\* The loop task runs and a request ends.  A request holds the mutex for
\* milliseconds and the loop tries on every pass, so neither of its two tries
\* meets a held mutex forever.
Fairness ==
  /\ WF_vars(CloseEnd) /\ WF_vars(PassOver) /\ WF_vars(NoBackpatch) /\ WF_vars(ReaderUnlocks)
  /\ SF_vars(pc = "loop" /\ ReaderUnlocks) /\ SF_vars(CloseStart)
  /\ SF_vars(pc = "patch" /\ ReaderUnlocks) /\ SF_vars(Backpatch)

FairSpec == Spec /\ Fairness

-----------------------------------------------------------------------------
(* Properties.                                                             *)

Pairs == {i \in DOMAIN log : i + 1 \in DOMAIN log}

\* A record with an exact timestamp holds samples of that quarter hour only.
ExactDate ==
  \A i \in DOMAIN log : log[i].qh # Unknown /\ ~ log[i].est =>
    QhOf(log[i].first) = log[i].qh /\ QhOf(log[i].last) = log[i].qh

\* An estimated timestamp is within one quarter hour of the one its record
\* began in, however many intervals passed before the clock was usable
\* ("approximate", gplug_smi.cpp).
EstimateClose ==
  \A i \in DOMAIN log : log[i].est => QhOf(log[i].first) - log[i].qh \in -1 .. 1

\* Exact timestamps increase along the log, over restarts too ("never write an
\* out-of-order record", gplug_smi.cpp).
ExactDatesIncrease ==
  \A i, j \in DOMAIN log :
    i < j /\ Unknown \notin {log[i].qh, log[j].qh} /\ ~ log[i].est /\ ~ log[j].est =>
      log[i].qh < log[j].qh

\* While the device runs on one steady clock it leaves no hole: consecutive
\* exact records of one boot are consecutive quarter hours ("Failing here just
\* means the interval closes a tick later", gplug_smi.cpp).
NoHoles ==
  \A i \in Pairs :
    /\ log[i].boot = log[i + 1].boot
    /\ Unknown \notin {log[i].qh, log[i + 1].qh} /\ ~ log[i].est /\ ~ log[i + 1].est
    => log[i + 1].qh = log[i].qh + 1

\* The marks a reader of the energy counters relies on: the first record after
\* a restart says so, and so does the first one under a new meter profile
\* ("carried into the next record written", gplug_smi.h), unless the profile
\* arrived while a record was being closed, whose end clears the flags.
ChainMarked ==
  \A i \in Pairs :
    /\ log[i].boot # log[i + 1].boot => "boot" \in log[i + 1].flags
    /\ log[i].boot = log[i + 1].boot /\ log[i].config + 1 .. log[i + 1].config \notin SUBSET raced =>
         "config" \in log[i + 1].flags

\* The run that the back-patch will date is exactly the set of undated records
\* of this boot, whatever failed, was stepped or was in the way ("Only this
\* boot's records can be dated", gplug_smi.cpp).
UndatedTracked ==
  \A i \in DOMAIN log :
    log[i].boot = boots /\ log[i].qh = Unknown <=> i \in unkFirst .. unkFirst + unkCount - 1

\* Every sample is in one record at most, and the records are in the order of
\* their samples, whatever the clock said.
SamplesOnce ==
  \A i, j \in DOMAIN log : i < j /\ log[j].first # 0 => log[i].last < log[j].first

\* hist_close_interval_: an exact date is that of the samples in the record, an
\* estimated one at most a quarter hour off, and exact dates increase.
DatesRight == ExactDate /\ EstimateClose /\ ExactDatesIncrease

\* hist_service_: a running device on a steady clock leaves no quarter hour out, and
\* what breaks the chain of counters is marked.
EveryInterval == TypeOK /\ NoHoles /\ ChainMarked

\* Once the clock is there every undated record of this boot gets its date,
\* however often a history request is in the way.
Backdated == (synced /\ unkCount > 0) ~> (unkCount = 0)

=============================================================================

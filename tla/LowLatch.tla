------------------------------ MODULE LowLatch ------------------------------
(***************************************************************************)
(* The latches that turn a scarce resource into rare events:               *)
(* gplug_mem::LowLatch for the heap and SocketLatch for lwIP's sockets     *)
(* (heap_monitor.h), fed by mem_service_ with a figure and an uptime.      *)
(*                                                                         *)
(* Both have the same states; a figure is "low" (below the threshold),     *)
(* "band" (inside the hysteresis) or "clear" (above the re-arm threshold). *)
(* Time is counted in samples.  The uptime starts anew when millis()       *)
(* wraps, long before uint32 seconds do.                                   *)
(***************************************************************************)
EXTENDS Integers

CONSTANTS
  Holdoff,   \* LOW_HOLDOFF_S, in samples (3600 s / 300 s = 12)
  Wrap,      \* uptime at which millis() wraps (2^32 ms)
  Modulus,   \* of the unsigned subtraction (2^32)
  MaxTime    \* bound: samples

ASSUME LatchSizesAssumption ==
  /\ {Holdoff, Wrap, Modulus, MaxTime} \subseteq Nat
  /\ 0 < Wrap /\ Wrap <= Modulus

VARIABLES
  now,                    \* samples so far
  armed, fired, lastS,    \* the latch
  told, lowRun, reportedAt, cleared  \* history: whether this excursion was reported,
                          \* its latest samples that were low, when the latest
                          \* report was made, and whether a clear sample came since

latch == <<armed, fired, lastS>>
latchVars == <<now, latch, told, lowRun, reportedAt, cleared>>

Never == -1
Up == now % Wrap

LatchTypeOK ==
  /\ now \in 0 .. MaxTime
  /\ armed \in BOOLEAN /\ fired \in BOOLEAN /\ lastS \in 0 .. Wrap - 1
  /\ told \in BOOLEAN /\ lowRun \in 0 .. MaxTime /\ reportedAt \in {Never} \cup 0 .. MaxTime
  /\ cleared \in BOOLEAN
  /\ ~ armed => fired

LatchInit ==
  /\ now = 0
  /\ armed = TRUE /\ fired = FALSE /\ lastS = 0
  /\ told = FALSE /\ lowRun = 0 /\ reportedAt = Never /\ cleared = TRUE

\* Mutant: the hold-off is counted from the boot.
HeldOff_SinceBoot == fired /\ Up < Holdoff
HeldOff == fired /\ (Up - lastS) % Modulus < Holdoff

\* Mutant: the latch re-arms as soon as the figure is not low.
Rearms_InBand(level) == level # "low"
Rearms(level) == level = "clear"

\* Mutant: an event held off disarms the latch all the same.
Trips_EvenHeld(level) == level = "low"
Trips(level) == level = "low" /\ ~ HeldOff

Reports(level) == armed /\ level = "low" /\ ~ HeldOff

\* update(): disarmed, the latch waits for a clear recovery; armed, it reports.
Latch(level) ==
  IF ~ armed
  THEN armed' = Rearms(level) /\ UNCHANGED <<fired, lastS>>
  ELSE /\ armed' = ~ Trips(level)
       /\ IF Reports(level) THEN fired' = TRUE /\ lastS' = Up ELSE UNCHANGED <<fired, lastS>>

Update(level) ==
  /\ now < MaxTime
  /\ now' = now + 1
  /\ Latch(level)
  /\ told' = IF level = "clear" THEN FALSE ELSE told \/ Reports(level)
  /\ lowRun' = IF level = "low" THEN lowRun + 1 ELSE 0
  /\ reportedAt' = IF Reports(level) THEN now ELSE reportedAt
  /\ cleared' = IF Reports(level) THEN FALSE ELSE cleared \/ level = "clear"

Levels == {"low", "band", "clear"}

LatchNext == \E level \in Levels : Update(level)

LatchSpec == LatchInit /\ [][LatchNext]_latchVars

-----------------------------------------------------------------------------
(* Properties.                                                             *)

\* One report per excursion: between two reports the figure recovered clearly
\* ("a heap hovering at the threshold does not log each sample", heap_monitor.h).
OncePerExcursion ==
  [][reportedAt' # reportedAt => cleared]_latchVars

\* Reports are the hold-off apart, which bounds the writes to NVS ("bounds the
\* worst case at 24 records a day", heap_monitor.h).
HoldoffKept ==
  [][reportedAt' # reportedAt /\ reportedAt # Never =>
       reportedAt' - reportedAt >= Holdoff]_latchVars

\* A figure that stays low for longer than the hold-off is reported ("a heap
\* that stays low is reported once the hold-off has passed rather than never",
\* heap_monitor.h).
LastingLowTold == lowRun > Holdoff => told

=============================================================================

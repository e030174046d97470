---------------------------- MODULE MCFlashLogs ----------------------------
(***************************************************************************)
(* The logs on flash at their limits, in three separate instances; focus   *)
(* says which one a behaviour is about.                                    *)
(*                                                                         *)
(* "export": CsvExport on three sectors of two slots, with enough appends  *)
(* for two sectors to be recycled during one export.                       *)
(* "faults": HistStore on the smallest partition begin() accepts, with     *)
(* writes that report failure while the device stays powered.              *)
(* "events": EventLog with a ring of three entries.  Events are model      *)
(* values that no definition tells apart, so permuting them is sound.      *)
(***************************************************************************)
EXTENDS CsvExport, EventLog, TLC

VARIABLE focus

EventSymmetry == Permutations(Events)

Faulty == INSTANCE HistStore
            WITH Sectors <- 2, MaxAppends <- 6, MaxDamage <- 2, RecordFaults <- TRUE

FlashInit ==
  /\ LogInit
  /\ \/ focus = "faults" /\ Faulty!Init /\ NoExport
     \/ focus \in {"export", "events"} /\ ExportInit
  /\ focus = "events" => hdr[0] = Virgin

FlashNext ==
  /\ \/ focus = "export" /\ ExportNext /\ UNCHANGED logVars
     \/ focus = "faults" /\ Faulty!Next /\ UNCHANGED <<xvars, logVars>>
     \/ focus = "events" /\ LogNext /\ UNCHANGED <<vars, xvars>>
  /\ UNCHANGED focus

FlashSpec == FlashInit /\ [][FlashNext]_<<focus, vars, xvars, logVars>>

-----------------------------------------------------------------------------
(* Properties: those of the modules, grouped by the question they answer.  *)

\* HistoryStore::append: a write that reports failure spoils the slot at the frontier at
\* most; the order of the records and the count that bounds the ring survive it.
FaultsContained ==
  focus = "faults" => Faulty!FaultContained /\ Faulty!LogOrder /\ Faulty!CountExact
=============================================================================

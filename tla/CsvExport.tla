----------------------------- MODULE CsvExport -----------------------------
(***************************************************************************)
(* GET /api/history.csv (handle_history_csv_) running on the httpd task    *)
(* against the live history store of HistStore.  The export holds          *)
(* hist_mutex_ only for a snapshot of the ring's bounds and then once per  *)
(* sector, to copy it; between two of those the loop task appends,         *)
(* recycles and back-patches, and power can fail.                          *)
(*                                                                         *)
(* A row is the serial number of its record; the time window and the       *)
(* formatting of a row are left out.                                       *)
(***************************************************************************)
EXTENDS HistStore, Sequences, SequencesExt

VARIABLES
  xpc,         \* "none", "copy" (next: lock and copy a sector), "send", "done"
               \* or "gone" (the client closed the connection)
  xOldest, xCount, xMax,   \* the snapshot: first sector, sectors, newest seq
  xk,          \* sectors handled so far
  buf,         \* the copied sector's intact records
  rows,        \* rows sent
  before       \* history: the log when the snapshot was taken

xvars == <<xpc, xOldest, xCount, xMax, xk, buf, rows, before>>

NoExport ==
  /\ xpc = "none" /\ xOldest = 0 /\ xCount = 0 /\ xMax = 0 /\ xk = 0
  /\ buf = <<>> /\ rows = <<>> /\ before = {}

ExportInit == Init /\ NoExport

\* Mutant: the current sector is not counted.
SectorCount_Short(o, c) == Dist(o, c)
\* (cur + sectors - oldest) % sectors + 1
SectorCount(o, c) == Dist(o, c) + 1

\* The snapshot, under the lock (pc = "idle": no operation holds it).
Snapshot ==
  /\ xpc = "none" /\ pc = "idle"
  /\ xpc' = "copy"
  /\ xOldest' = oldest /\ xCount' = SectorCount(oldest, cur) /\ xMax' = seq
  /\ before' = Log
  /\ UNCHANGED <<vars, xk, buf, rows>>

\* read_sector fails, or the sector was recycled after the snapshot.
IsStale(s) == ~ HdrValid(s) \/ hdr[s] > xMax

\* The intact records among some cells, in their order.
Intact(cells) == FoldLeft(LAMBDA rs, v : IF v > 0 THEN Append(rs, v) ELSE rs, <<>>, cells)

\* The slots of sector s that are below the frontier.
Cells(s) == [i \in 1 .. IF s = cur THEN slot ELSE Slots |-> dat[s][i - 1]]

Copy ==
  /\ xpc = "copy" /\ pc = "idle" /\ xk < xCount
  /\ LET s == (xOldest + xk) % Sectors
     IN  IF IsStale(s)
         THEN xk' = xk + 1 /\ UNCHANGED <<xpc, buf>>
         ELSE buf' = Intact(Cells(s)) /\ xpc' = "send" /\ UNCHANGED xk
  /\ UNCHANGED <<vars, xOldest, xCount, xMax, rows, before>>

\* Formatting and sending happens from the copy, unlocked.
Send ==
  /\ xpc = "send"
  /\ rows' = rows \o buf
  /\ buf' = <<>> /\ xk' = xk + 1 /\ xpc' = "copy"
  /\ UNCHANGED <<vars, xOldest, xCount, xMax, before>>

ClientGone ==
  /\ xpc = "send"
  /\ xpc' = "gone"
  /\ UNCHANGED <<vars, xOldest, xCount, xMax, xk, buf, rows, before>>

Finish ==
  /\ xpc = "copy" /\ xk = xCount
  /\ xpc' = "done"
  /\ UNCHANGED <<vars, xOldest, xCount, xMax, xk, buf, rows, before>>

\* The loop task's side; a power loss takes the request with it.
StoreStep ==
  /\ Next
  /\ IF pc' = "off"
     THEN /\ xpc' = "none" /\ xOldest' = 0 /\ xCount' = 0 /\ xMax' = 0 /\ xk' = 0
          /\ buf' = <<>> /\ rows' = <<>> /\ before' = {}
     ELSE UNCHANGED xvars

ExportNext == StoreStep \/ Snapshot \/ Copy \/ Send \/ ClientGone \/ Finish

ExportSpec == ExportInit /\ [][ExportNext]_<<vars, xvars>>

-----------------------------------------------------------------------------
\* Rows come in the order the records were appended and no record twice, even
\* when sectors are recycled and refilled between two copies.
RowsInOrder == \A i, j \in DOMAIN rows : i < j => rows[i] < rows[j]

\* A finished export has delivered every record that was in the log when it
\* started and still is: recycling costs only what it recycled.
Complete == xpc = "done" => before \cap Log \subseteq ToSet(rows)

\* handle_history_csv_: the rows come in the order of the records and without
\* repetition, and a finished export has every record that was there throughout.
ExportFaithful == RowsInOrder /\ Complete

=============================================================================

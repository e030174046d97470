--------------------------- MODULE MCHistService ---------------------------
(***************************************************************************)
(* Model-checking instances of HistService alone: an adverse one, with a   *)
(* lock that is taken, appends that fail and a clock that is stepped, and  *)
(* one that has only the lock.  MCHistory has the calm one.                *)
(***************************************************************************)
EXTENDS HistService
=============================================================================

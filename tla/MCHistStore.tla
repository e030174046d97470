---------------------------- MODULE MCHistStore ----------------------------
(***************************************************************************)
(* Model-checking instances of HistStore: three sectors of two slots (the  *)
(* ring has a middle), two sectors of two slots (the smallest partition    *)
(* begin() accepts: the next sector is always the oldest one).             *)
(***************************************************************************)
EXTENDS HistStoreInv
=============================================================================

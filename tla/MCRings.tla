------------------------------- MODULE MCRings ------------------------------
(***************************************************************************)
(* Model-checking instances of the rings in RAM and of those who read them *)
(* while they turn: MemService (the heap trend, with its latch), MemCard   *)
(* (the card that draws the trend) and StreamTab (the captured frames).    *)
(* focus says which one a behaviour is about; the others stay in an        *)
(* initial state.                                                          *)
(***************************************************************************)
EXTENDS MemService, MemCard, StreamTab

VARIABLE focus

RingsInit ==
  /\ focus \in {"heap", "card", "frames"}
  /\ Init /\ CdInit
  /\ StInit /\ (focus # "frames" => view.wide /\ view.mode = "raw")

RingsNext ==
  /\ \/ focus = "heap" /\ Next /\ UNCHANGED <<cardVars, stVars>>
     \/ focus = "card" /\ CdNext /\ UNCHANGED <<latchVars, stVars>>
     \/ focus = "frames" /\ StNext /\ UNCHANGED <<vars, cardVars>>
  /\ UNCHANGED focus

RingsSpec == RingsInit /\ [][RingsNext]_<<focus, vars, cardVars, stVars>>

=============================================================================

----------------------------- MODULE MCHistory -----------------------------
(***************************************************************************)
(* Model-checking instances of the way from quarter hours to the screen:   *)
(* HistService, which makes the records, and the charts that show them,    *)
(* HistTab, HistChart and HourChart.  They do not interact in one state:   *)
(* focus says which one a behaviour is about; the others stay in an        *)
(* initial state.                                                          *)
(***************************************************************************)
EXTENDS HistService, HistTab, HistChart, HourChart

VARIABLE focus

\* Drawn from the grid or fed into it.
MCPower == {-1, 1}

HistoryInit ==
  /\ focus \in {"service", "tab", "bars", "hour"}
  /\ Init /\ (focus # "service" => synced)
  /\ HtInit
  /\ HcInit /\ (focus # "bars" => step = 1 /\ clock.set)
  /\ HrInit

\* The behaviours of the charts end at a bound.
Ended == focus \in {"bars", "hour"} /\ UNCHANGED <<vars, htVars, hcVars, hrVars>>

HistoryNext ==
  /\ \/ focus = "service" /\ Next /\ UNCHANGED <<htVars, hcVars, hrVars>>
     \/ focus = "tab" /\ HtNext /\ UNCHANGED <<vars, hcVars, hrVars>>
     \/ focus = "bars" /\ HcNext /\ UNCHANGED <<vars, htVars, hrVars>>
     \/ focus = "hour" /\ HrNext /\ UNCHANGED <<vars, htVars, hcVars>>
     \/ Ended
  /\ UNCHANGED focus

HistorySpec == HistoryInit /\ [][HistoryNext]_<<focus, vars, htVars, hcVars, hrVars>>

-----------------------------------------------------------------------------
(* Properties: those of the modules, grouped by the question they answer.  *)

\* hist-tab.js: the total under the bars is what the meters counted between the first and
\* the last of them, and never a step between two meters.
EnergyTrue == focus = "bars" => EnergyTotal /\ NothingInvented

\* hist-tab.js: a hole in the record is drawn as a gap.
GapsDrawn == focus = "bars" => HcTypeOK /\ GapShown

\* hour.js, live-tab.js: each value of the last hour is what the meter said at that time,
\* and the line goes through all of them.
HourDrawn == focus = "hour" => HrTypeOK /\ HourTrue /\ RunsFaithful
=============================================================================

------------------------------ MODULE MCPages ------------------------------
(***************************************************************************)
(* Model-checking instances of the setup wizard and the MQTT card of the   *)
(* browser application, and of the builds of the app and its manual.  They *)
(* do not interact in one state: focus says which one a behaviour is       *)
(* about; the others stay in an initial state.                             *)
(***************************************************************************)
EXTENDS MCWizard, MqttCard, Manual

VARIABLE focus

\* Manual: two languages, a story that covers the one screen there is.
MCStart ==
  LET St == [screens |-> {"device"}, sections |-> {"Steps"}, quotes |-> {"save"}, chapter |-> TRUE]
  IN [tables   |-> [l \in LANGS |-> [k \in Key |-> "text"]],
      ui       |-> {"card"},
      coverage |-> [s \in Screen |-> IF s = "device" THEN {"card"} ELSE {Missing}],
      stories  |-> [l \in LANGS |-> [i \in Story |-> IF i = "one" THEN St ELSE NoStory]]]

-----------------------------------------------------------------------------
PagesInit ==
  /\ focus \in {"wizard", "mqtt", "manual"}
  /\ WzInit /\ (focus # "wizard" => /\ line \in {l \in Lines : l.enc = "plain"}
                                    /\ dev.hw = "" /\ app.hash = "")
  /\ McInit /\ (focus # "mqtt" => broker = [tpl |-> "json", pw |-> ""])
  /\ MaInit

\* The edits end at a bound.
AtBound == focus = "manual" /\ UNCHANGED <<wzVars, mcVars, maVars>>

PagesNext ==
  /\ \/ focus = "wizard" /\ WzNext /\ UNCHANGED <<mcVars, maVars>>
     \/ focus = "mqtt" /\ McNext /\ UNCHANGED <<wzVars, maVars>>
     \/ focus = "manual" /\ MaNext /\ UNCHANGED <<wzVars, mcVars>>
     \/ AtBound
  /\ UNCHANGED focus

PagesSpec == PagesInit /\ [][PagesNext]_<<focus, wzVars, mcVars, maVars>>

-----------------------------------------------------------------------------
(* Properties: those of the modules, asked where they are in focus and     *)
(* grouped by the question they answer.                                    *)

\* Type correctness of each page.
PagesTypeOK ==
  /\ focus = "wizard" => WzTypeOK
  /\ focus = "mqtt" => McTypeOK
  /\ focus = "manual" => MaTypeOK

\* docs/build.mjs, i18n-check.mjs: a manual and an app that build are complete in every
\* language, in its own words.
BuildsComplete == focus = "manual" => ManualTrue
=============================================================================

------------------------------ MODULE MqttCard ------------------------------
(***************************************************************************)
(* The MQTT card of the Device tab (spa/src/live/mqtt-card.js): the        *)
(* settings are read once, edited as a draft that outlives the card's body *)
(* (its state lives in SetupTab), and saved by a POST followed by a fresh  *)
(* read.  Every answer installs a whole new state, built from the closure  *)
(* of the render that made the request.                                    *)
(*                                                                         *)
(* A template stands for all fields but the password, which the device     *)
(* never hands back.                                                       *)
(***************************************************************************)
EXTENDS Integers

CONSTANTS
  Template,       \* template texts
  Compiling,      \* those the page's compiler accepts
  Accepted,       \* those the device's compiler accepts as well
  Password,       \* the passwords the user may type
  Hasty,          \* the user acts while a request is in flight
  MaxRequests     \* bound: requests in flight

ASSUME MqttCardAssumption ==
  /\ Accepted \subseteq Compiling /\ Compiling \subseteq Template
  /\ Accepted # {} /\ "" \notin Password /\ "keep" \notin Password /\ "none" \notin Template
  /\ Hasty \in BOOLEAN /\ MaxRequests \in Nat \ {0}

VARIABLES
  broker,    \* the device's settings: [tpl, pw]
  form,      \* SetupTab's state of the card
  body,      \* the card's body: [open, busy]
  reqs,      \* slot -> request in flight
  typed      \* history: the draft as the user left it, NoDraft when nothing is unsaved

mcVars == <<broker, form, body, reqs, typed>>

ReqSlot == 1..MaxRequests
NoTpl   == "none"
NoDraft == [tpl |-> NoTpl, pw |-> "", clear |-> FALSE]
NoCfg   == [tpl |-> NoTpl, pwset |-> FALSE]
NoForm  == [kind |-> "null", cfg |-> NoCfg, draft |-> NoDraft, err |-> FALSE, saved |-> FALSE]
LoadErr == [NoForm EXCEPT !.kind = "loadErr"]
NoReq   == [kind |-> "none", snap |-> NoForm, tpl |-> NoTpl, pw |-> "keep", cfg |-> NoCfg]

Config       == [tpl |-> broker.tpl, pwset |-> broker.pw # ""]
Fresh(c, ok) == [kind |-> "draft", cfg |-> c, err |-> FALSE, saved |-> ok,
                 draft |-> [tpl |-> c.tpl, pw |-> "", clear |-> FALSE]]

McInit ==
  /\ broker \in [tpl : Accepted, pw : Password \cup {""}]
  /\ form = NoForm
  /\ body = [open |-> FALSE, busy |-> FALSE]
  /\ reqs = [i \in ReqSlot |-> NoReq]
  /\ typed = NoDraft

Idle(i)   == reqs[i] = NoReq /\ \A j \in ReqSlot : j < i => reqs[j] # NoReq
Ask(r)    == \E i \in ReqSlot : Idle(i) /\ reqs' = [reqs EXCEPT ![i] = r]
Ended(i)  == reqs' = [reqs EXCEPT ![i] = NoReq]
MayAct    == Hasty \/ \A i \in ReqSlot : reqs[i] = NoReq

-----------------------------------------------------------------------------
(* The user *)

\* Mutant: the settings are read whenever the body mounts.
OpenCard_Rereads ==
  /\ MayAct /\ ~body.open
  /\ body' = [open |-> TRUE, busy |-> FALSE]
  /\ Ask([NoReq EXCEPT !.kind = "load"])
  /\ UNCHANGED <<broker, form, typed>>

\* The body mounts: the settings are read unless the tab holds a state already.
OpenCard ==
  /\ MayAct /\ ~body.open
  /\ body' = [open |-> TRUE, busy |-> FALSE]
  /\ IF form.kind = "null" THEN Ask([NoReq EXCEPT !.kind = "load"]) ELSE UNCHANGED reqs
  /\ UNCHANGED <<broker, form, typed>>

\* The card is closed, or the Wi-Fi form takes the tab's place: the body goes, its
\* requests and the tab's state stay.
CloseCard ==
  /\ MayAct /\ body.open
  /\ body' = [open |-> FALSE, busy |-> FALSE]
  /\ UNCHANGED <<broker, form, reqs, typed>>

\* Another tab: the state goes with SetupTab; a POST on its way still arrives.
LeaveTab ==
  /\ MayAct /\ (body.open \/ form # NoForm)
  /\ body' = [open |-> FALSE, busy |-> FALSE]
  /\ form' = NoForm /\ typed' = NoDraft
  /\ reqs' = [i \in ReqSlot |-> IF reqs[i].kind = "post" THEN [reqs[i] EXCEPT !.snap = NoForm]
                                ELSE NoReq]
  /\ UNCHANGED broker

Editing == MayAct /\ body.open /\ form.kind = "draft"

Edit(d) ==
  /\ d # form.draft
  /\ form' = [form EXCEPT !.draft = d, !.err = FALSE, !.saved = FALSE]
  /\ typed' = d
  /\ UNCHANGED <<broker, body, reqs>>

TypeTemplate == Editing /\ \E t \in Template : Edit([form.draft EXCEPT !.tpl = t])
TypePassword == /\ Editing /\ ~form.draft.clear
                /\ \E p \in Password \cup {""} : Edit([form.draft EXCEPT !.pw = p])
TickClear    == /\ Editing /\ form.cfg.pwset
                /\ Edit([form.draft EXCEPT !.clear = ~@, !.pw = ""])

\* Mutant: an empty field is sent as an empty password.
Posted_Empty(d) == IF d.clear THEN "" ELSE d.pw

\* The password goes into the body only when there is a new one to store or the
\* stored one is to be cleared.
Posted(d) == IF d.clear THEN "" ELSE IF d.pw # "" THEN d.pw ELSE "keep"

save ==
  /\ Editing /\ ~body.busy /\ form.draft.tpl \in Compiling
  /\ Ask([NoReq EXCEPT !.kind = "post", !.snap = form, !.tpl = form.draft.tpl,
                       !.pw = Posted(form.draft)])
  /\ body' = [body EXCEPT !.busy = TRUE]
  /\ UNCHANGED <<broker, form, typed>>

-----------------------------------------------------------------------------
(* Answers; a form of kind "null" no longer has anyone to show it to *)

Served(r) == r.kind \in {"load", "read"}

\* The device answers a read with the settings of that moment.
Serve(i) ==
  /\ Served(reqs[i])
  /\ LET kind == IF reqs[i].kind = "load" THEN "loaded" ELSE "reread"
     IN reqs' = [reqs EXCEPT ![i] = [reqs[i] EXCEPT !.cfg = Config, !.kind = kind]]
  /\ UNCHANGED <<broker, form, body, typed>>

LoadArrives(i) ==
  /\ reqs[i].kind = "loaded"
  /\ form' = Fresh(reqs[i].cfg, FALSE)
  /\ Ended(i)
  /\ UNCHANGED <<broker, body, typed>>

LoadLost(i) ==
  /\ reqs[i].kind = "load"
  /\ form' = LoadErr
  /\ Ended(i)
  /\ UNCHANGED <<broker, body, typed>>

Failed(i) ==
  /\ form' = IF reqs[i].snap = NoForm THEN form ELSE [reqs[i].snap EXCEPT !.err = TRUE]
  /\ body' = [body EXCEPT !.busy = FALSE]
  /\ Ended(i)

\* handle_mqtt_post_: parsed, compiled, taken over; then the page reads it back.
PostApplied(i) ==
  /\ reqs[i].kind = "post" /\ reqs[i].tpl \in Accepted
  /\ broker' = [tpl |-> reqs[i].tpl, pw |-> IF reqs[i].pw = "keep" THEN broker.pw ELSE reqs[i].pw]
  /\ \/ /\ reqs' = [reqs EXCEPT ![i].kind = "read"]
        /\ UNCHANGED <<form, body>>
     \/ Failed(i)     \* the answer is lost
  /\ UNCHANGED typed

\* Refused by the device's own compiler or for want of memory, or lost on the way.
PostFails(i) ==
  /\ reqs[i].kind = "post"
  /\ Failed(i)
  /\ UNCHANGED <<broker, typed>>

ReadArrives(i) == LET r == reqs[i] IN
  /\ r.kind = "reread"
  /\ form' = IF r.snap = NoForm THEN form ELSE Fresh(r.cfg, TRUE)
  /\ body' = [body EXCEPT !.busy = FALSE]
  /\ typed' = IF r.snap # NoForm /\ typed = r.snap.draft THEN NoDraft ELSE typed
  /\ Ended(i)
  /\ UNCHANGED broker

ReadLost(i) ==
  /\ reqs[i].kind = "read"
  /\ Failed(i)
  /\ UNCHANGED <<broker, typed>>

McUser    == OpenCard \/ CloseCard \/ LeaveTab \/ TypeTemplate \/ TypePassword \/ TickClear \/ save
McReq(i)  == \/ Serve(i) \/ LoadArrives(i) \/ LoadLost(i) \/ PostApplied(i) \/ PostFails(i)
             \/ ReadArrives(i) \/ ReadLost(i)
McNext    == McUser \/ \E i \in ReqSlot : McReq(i)
McSpec    == McInit /\ [][McNext]_mcVars

-----------------------------------------------------------------------------
(* Properties *)

\* Type correctness of the settings, the card and its requests.
Drafts == [tpl : Template \cup {NoTpl}, pw : Password \cup {""}, clear : BOOLEAN]
Cfgs   == [tpl : Template \cup {NoTpl}, pwset : BOOLEAN]
Forms  == [kind : {"null", "loadErr", "draft"}, cfg : Cfgs, draft : Drafts,
           err : BOOLEAN, saved : BOOLEAN]
Reqs   == [kind : {"none", "load", "loaded", "post", "read", "reread"}, snap : Forms,
           tpl : Template \cup {NoTpl}, pw : Password \cup {"", "keep"}, cfg : Cfgs]

McTypeOK ==
  /\ broker \in [tpl : Accepted, pw : Password \cup {""}]
  /\ form \in Forms /\ typed \in Drafts
  /\ body \in [open : BOOLEAN, busy : BOOLEAN]
  /\ reqs \in [ReqSlot -> Reqs]

\* mqtt-card.js:12 and :47: what the user has typed stays in the form until it is
\* saved, whatever card is closed or answer arrives, failed saves included.
DraftKept == typed # NoDraft => form.draft = typed

\* mqtt-card.js:106: the stored password changes only to one that the user typed,
\* or goes because the user said so.
PasswordKept ==
  [][broker'.pw # broker.pw =>
       \/ typed.pw = broker'.pw /\ typed.pw # "" /\ ~typed.clear
       \/ typed.clear /\ broker'.pw = ""]_mcVars

\* mqtt-card.js:218: "saved" is on the button only while the form shows what the
\* device has stored, the hint on a stored password included.
SavedIsStored == form.saved => form.draft.tpl = broker.tpl /\ form.cfg = Config

\* mqtt-card.js: the form is true in both ways, to the user and to the device.
FormKept == DraftKept /\ SavedIsStored
=============================================================================

------------------------------- MODULE Wizard -------------------------------
(***************************************************************************)
(* The setup wizard of the browser application (spa/src/main.js with       *)
(* steps/*.js and diag.js): the route in location.hash, the steps, what    *)
(* each step saves on the device, the protocol detection the meter step    *)
(* follows, and the verdict at the end with its links back into the steps. *)
(* Requests are in flight while the user goes on tapping.                  *)
(***************************************************************************)
EXTENDS Integers, FiniteSets

CONSTANTS
  Preset,      \* profiles: [id \in Nat, variant, protocol, enc]
  Lines,       \* what the meter may send: [protocol, enc]
  Patient,     \* the user does nothing while a request is in flight
  MaxCalls     \* bound: requests in flight at once

ASSUME WizardAssumption ==
  /\ \A p \in Preset : p.id \in Nat \ {0} /\ p.enc \in BOOLEAN
  /\ \A p, q \in Preset : p.id = q.id => p = q
  /\ \A l \in Lines : l.enc \in {"plain", "ciphered"}
  /\ Patient \in BOOLEAN /\ MaxCalls \in Nat \ {0}

VARIABLES
  line,     \* what the meter sends
  dev,      \* the device's configuration: [hw, preset, key]
  app,      \* the App component and the step it shows
  calls,    \* requests in flight
  tapped    \* history: the profile the user tapped since a link or a step led to the meter step, or 0

wzVars == <<line, dev, app, calls, tapped>>

Variant   == {p.variant : p \in Preset}
PresetIds == {p.id : p \in Preset}
Slots     == 1..MaxCalls
Steps     == [welcome |-> 0, hardware |-> 1, meter |-> 2, done |-> 3]
Hashes    == {"", "#live", "#setup", "#setup/hardware", "#setup/meter", "#setup/key"}
Unknown   == [protocol |-> "", enc |-> "unknown"]   \* nothing sniffed yet
NoCall    == [kind |-> "none", from |-> "", preset |-> 0, key |-> "", keep |-> FALSE,
              hw |-> "", mode |-> ""]
NoStatus  == [known |-> FALSE, hw |-> "", preset |-> 0, enc |-> FALSE]

parseHash(h) ==
  CASE h = "#live"           -> [route |-> "live", step |-> 0, newKey |-> FALSE]
    [] h = "#setup"          -> [route |-> "wizard", step |-> 0, newKey |-> FALSE]
    [] h = "#setup/hardware" -> [route |-> "wizard", step |-> Steps.hardware, newKey |-> FALSE]
    [] h = "#setup/meter"    -> [route |-> "wizard", step |-> Steps.meter, newKey |-> FALSE]
    [] h = "#setup/key"      -> [route |-> "wizard", step |-> Steps.meter, newKey |-> TRUE]
    [] OTHER                 -> [route |-> "none", step |-> 0, newKey |-> FALSE]

Status == [known |-> TRUE, hw |-> dev.hw, preset |-> dev.preset, enc |-> dev.key # ""]

-----------------------------------------------------------------------------
(* The meter step *)

PresetOf(id) == CHOOSE p \in Preset : p.id = id
Mine(a) == {p \in Preset : p.variant = a.hw}

\* The profiles of the variant that fit what was sniffed.
Fit(a) == IF a.det = Unknown THEN {}
          ELSE {p \in Mine(a) : p.protocol = a.det.protocol /\ (a.det.enc = "ciphered" => p.enc)}
First(S) == CHOOSE p \in S : \A q \in S : p.id <= q.id

\* What the page lists, widened on request: the fitting profiles, those of the variant, all.
Tiers(a)  == {ps \in {Fit(a), Mine(a), Preset} : ps # {}}
Listed(a) == UNION Tiers(a)

\* Is the line ciphered, as far as it applies to the selected profile?
lineEnc(a) ==
  IF a.preset = 0 \/ ~PresetOf(a.preset).enc THEN "plain"
  ELSE IF a.det # Unknown /\ a.det.protocol = PresetOf(a.preset).protocol THEN a.det.enc
  ELSE "unknown"

keyMode(a) == CASE lineEnc(a) = "plain"    -> "none"
                [] lineEnc(a) = "ciphered" -> "required"
                [] OTHER              -> "optional"
Keep(a)  == keyMode(a) # "none" /\ a.status.enc /\ a.keepKey
\* Mutant: a stored key will do, kept or not.
keyOk_Stored(a) == \/ keyMode(a) = "none" \/ a.status.enc \/ a.key = "new"
                   \/ keyMode(a) = "optional" /\ a.key = ""

keyOk(a) == \/ keyMode(a) = "none" \/ Keep(a) \/ a.key = "new"
            \/ keyMode(a) = "optional" /\ a.key = ""

AtMeter(a) == a.route = "wizard" /\ a.step = Steps.meter /\ a.status.known

\* Mutant: the detection is followed after a tap as well.
Follow_Always(a) ==
  IF AtMeter(a) /\ Fit(a) # {} /\ \A p \in Fit(a) : p.id # a.preset
  THEN [a EXCEPT !.preset = First(Fit(a)).id] ELSE a

\* The effect that follows the detection, run after every render of the step: a
\* selection that does not fit gives way to the first that does, until the user
\* has tapped one.
Follow(a) ==
  IF AtMeter(a) /\ ~a.manual /\ Fit(a) # {} /\ \A p \in Fit(a) : p.id # a.preset
  THEN [a EXCEPT !.preset = First(Fit(a)).id] ELSE a

\* Next render of the application: a step that is left loses its own state.
RenderAs(a, tap) ==
  LET b == IF AtMeter(a) THEN a ELSE [a EXCEPT !.manual = FALSE, !.det = Unknown]
         c == IF b.route = "wizard" /\ b.step = Steps.done THEN b ELSE [b EXCEPT !.fix = ""]
  IN /\ app' = Follow(c)
     /\ tapped' = IF AtMeter(c) THEN tap ELSE 0
Render(a) == RenderAs(a, tapped)

-----------------------------------------------------------------------------
WzInit ==
  /\ line \in Lines
  /\ \/ dev = [hw |-> "", preset |-> 0, key |-> ""]
     \/ \E p \in Preset, k \in {"", "old"} :
          (k # "" => p.enc) /\ dev = [hw |-> p.variant, preset |-> p.id, key |-> k]
  /\ \E h \in Hashes :
       app = [route |-> parseHash(h).route, step |-> parseHash(h).step, hash |-> h,
              event |-> FALSE, status |-> NoStatus, hw |-> "",
              preset |-> 0, key |-> "", keepKey |-> ~parseHash(h).newKey,
              manual |-> FALSE, det |-> Unknown, fix |-> ""]
  /\ calls = [i \in Slots |-> IF i = 1 THEN [NoCall EXCEPT !.kind = "load"] ELSE NoCall]
  /\ tapped = 0

Free(i) == calls[i] = NoCall /\ \A j \in Slots : j < i => calls[j] # NoCall
Send(c) == \E i \in Slots : Free(i) /\ calls' = [calls EXCEPT ![i] = c]
End(i)  == calls' = [calls EXCEPT ![i] = NoCall]
Load    == Send([NoCall EXCEPT !.kind = "load"])
MayTap  == Patient => /\ \A i \in Slots : calls[i] = NoCall
                      /\ ~app.event

\* location.hash = h: a hashchange event follows only when the hash is another.
SetHash(a, h) == [a EXCEPT !.hash = h, !.event = a.event \/ h # a.hash]
openRoute(a, r) == [SetHash(a, IF r = "live" THEN "#live" ELSE "#setup") EXCEPT !.route = r]

-----------------------------------------------------------------------------
(* Answers and events *)

\* load(): the status read, what the device knows pre-selected.  load is the
\* closure of the first render, so "hw not set yet" is always true in it.  With
\* no route in the hash the status decides it, a device that is set up and has
\* joined a Wi-Fi starting on the live view.
LoadAnswer(i) ==
  /\ calls[i].kind = "load"
  /\ \E joined \in BOOLEAN :
       LET a == [app EXCEPT !.status = Status,
                            !.hw = IF dev.hw # "" THEN dev.hw ELSE @,
                            !.preset = IF dev.preset # 0 THEN dev.preset ELSE @]
           ready == dev.hw # "" /\ dev.preset # 0 /\ joined
       IN Render(IF app.route # "none" THEN a
                 ELSE openRoute(a, IF ready THEN "live" ELSE "wizard"))
  /\ End(i)
  /\ UNCHANGED <<line, dev>>

\* A failed load leaves the page as it was; the first offers a retry.
LoadFails(i) ==
  /\ calls[i].kind = "load" /\ app.status.known
  /\ End(i)
  /\ UNCHANGED <<line, dev, app, tapped>>

\* onHash: the step of the deep link, the key entry emptied, the status re-read.
HashChange ==
  /\ app.event
  /\ LET h == parseHash(app.hash)
         a == [app EXCEPT !.event = FALSE, !.route = h.route]
     IN IF h.route = "wizard"
        THEN /\ Load
             /\ RenderAs([a EXCEPT !.step = h.step, !.key = "", !.keepKey = ~h.newKey], 0)
        ELSE Render(a) /\ UNCHANGED calls
  /\ UNCHANGED <<line, dev>>

\* The device stores a step, and the late setStep(s => s + 1) moves on from
\* whatever step is shown by then.
Applied(c) ==
  IF c.from = "hardware" THEN [dev EXCEPT !.hw = c.hw]
  ELSE [dev EXCEPT !.preset = c.preset, !.key = IF c.keep THEN @ ELSE c.key]

CommitDone(i) == LET c == calls[i] IN
  /\ c.kind = "commit" /\ (c.keep => dev.key # "")
  /\ dev' = Applied(c)
  /\ \/ Render([app EXCEPT !.step = IF @ < Steps.done THEN @ + 1 ELSE @])
     \* the answer is lost: an error is shown and the step stays
     \/ UNCHANGED <<app, tapped>>
  /\ End(i)
  /\ UNCHANGED line

\* Mutant: the wizard goes on although the step was not stored.
CommitFails_GoesOn(i) ==
  /\ calls[i].kind = "commit"
  /\ Render([app EXCEPT !.step = IF @ < Steps.done THEN @ + 1 ELSE @])
  /\ End(i)
  /\ UNCHANGED <<line, dev>>

\* Refused ("no stored key") or lost on the way.
CommitFails(i) ==
  /\ calls[i].kind = "commit"
  /\ End(i)
  /\ UNCHANGED <<line, dev, app, tapped>>

\* One poll of the meter step: the sniffer knows nothing yet, the protocol, or
\* the protocol and whether it is ciphered.
MeterPoll ==
  /\ AtMeter(app)
  /\ \E d \in {[line EXCEPT !.enc = "unknown"], line} : Render([app EXCEPT !.det = d])
  /\ app' # app
  /\ UNCHANGED <<line, dev, calls>>

\* One poll of the last step: the step that fixes the device's verdict, or "" while
\* it is waiting or fine.
Fixes == {"", "#setup/hardware", "#setup/meter", "#setup/key"}
DonePoll ==
  /\ app.route = "wizard" /\ app.step = Steps.done
  /\ \E f \in Fixes : app' = [app EXCEPT !.fix = f]
  /\ app' # app
  /\ UNCHANGED <<line, dev, calls, tapped>>

-----------------------------------------------------------------------------
(* The user *)

InWizard(s) == MayTap /\ app.route = "wizard" /\ app.step = s /\ app.status.known

WelcomeNext ==
  /\ InWizard(Steps.welcome)
  /\ Render([app EXCEPT !.step = Steps.hardware])
  /\ UNCHANGED <<line, dev, calls>>

\* Mutant: the first step has a Back button too.
Back_Always ==
  /\ InWizard(Steps.welcome) \/ InWizard(Steps.hardware) \/ InWizard(Steps.meter)
  /\ Render([app EXCEPT !.step = @ - 1])
  /\ UNCHANGED <<line, dev, calls>>

Back ==
  /\ InWizard(Steps.hardware) \/ InWizard(Steps.meter)
  /\ Render([app EXCEPT !.step = @ - 1])
  /\ UNCHANGED <<line, dev, calls>>

PickVariant ==
  /\ InWizard(Steps.hardware)
  /\ \E v \in Variant : Render([app EXCEPT !.hw = v])
  /\ UNCHANGED <<line, dev, calls>>

HardwareNext ==
  /\ InWizard(Steps.hardware) /\ app.hw # ""
  /\ Send([NoCall EXCEPT !.kind = "commit", !.from = "hardware", !.hw = app.hw])
  /\ UNCHANGED <<line, dev, app, tapped>>

pick ==
  /\ InWizard(Steps.meter)
  /\ \E p \in Listed(app) : /\ app' = [app EXCEPT !.manual = TRUE, !.preset = p.id]
                            /\ tapped' = p.id
  /\ UNCHANGED <<line, dev, calls>>

EnterKey ==
  /\ InWizard(Steps.meter) /\ keyMode(app) # "none"
  /\ \/ app.status.enc /\ app' = [app EXCEPT !.keepKey = ~@]
     \/ ~Keep(app) /\ \E k \in {"", "new", "bad"} : app' = [app EXCEPT !.key = k]
  /\ UNCHANGED <<line, dev, calls, tapped>>

\* commit("meter", withKey): the key is kept, sent, or left out.
MeterNext ==
  /\ InWizard(Steps.meter) /\ app.preset # 0 /\ keyOk(app)
  /\ LET withKey == keyMode(app) # "none"
         keep    == withKey /\ app.status.enc /\ app.keepKey
     IN Send([NoCall EXCEPT !.kind = "commit", !.from = "meter", !.preset = app.preset,
                            !.keep = keep, !.key = IF withKey /\ ~keep THEN app.key ELSE "",
                            !.mode = keyMode(app)])
  /\ UNCHANGED <<line, dev, app, tapped>>

OpenLive ==
  /\ InWizard(Steps.done)
  /\ Render(openRoute(app, "live"))
  /\ UNCHANGED <<line, dev, calls>>

\* A button of the diagnosis card at the end of the wizard.
FixButton ==
  /\ InWizard(Steps.done) /\ app.fix # ""
  /\ app' = SetHash(app, app.fix)
  /\ UNCHANGED <<line, dev, calls, tapped>>

\* The same card on the live view, a bookmark, or the browser's back button.
Navigate ==
  /\ MayTap /\ app.status.known
  /\ \E h \in Hashes \ {""} : h # app.hash /\ app' = SetHash(app, h)
  /\ UNCHANGED <<line, dev, calls, tapped>>

UserStep == \/ WelcomeNext \/ Back \/ PickVariant \/ HardwareNext \/ pick \/ EnterKey
            \/ MeterNext \/ OpenLive \/ FixButton \/ Navigate

CallStep(i) == LoadAnswer(i) \/ LoadFails(i) \/ CommitDone(i) \/ CommitFails(i)

WzNext == HashChange \/ MeterPoll \/ DonePoll \/ UserStep \/ \E i \in Slots : CallStep(i)

WzSpec == WzInit /\ [][WzNext]_wzVars

-----------------------------------------------------------------------------
(* Properties *)

\* Type correctness of the device's configuration, the page and its requests.
HwSet    == Variant \cup {""}
IdSet    == PresetIds \cup {0}
Devs     == [hw : HwSet, preset : IdSet, key : {"", "old", "new"}]
Statuses == [known : BOOLEAN, hw : HwSet, preset : IdSet, enc : BOOLEAN]
Dets     == Lines \cup {[l EXCEPT !.enc = "unknown"] : l \in Lines} \cup {Unknown}
Apps     == [route : {"none", "live", "wizard"}, step : 0..3, hash : Hashes, event : BOOLEAN,
             status : Statuses, hw : HwSet, preset : IdSet, key : {"", "new", "bad"},
             keepKey : BOOLEAN, manual : BOOLEAN, det : Dets, fix : Fixes]
CallSet  == [kind : {"none", "load", "commit"}, from : {"", "hardware", "meter"},
             preset : IdSet, key : {"", "new"}, keep : BOOLEAN, hw : HwSet,
             mode : {"", "none", "required", "optional"}]

WzTypeOK == /\ line \in Lines /\ dev \in Devs /\ app \in Apps /\ calls \in [Slots -> CallSet]
            /\ tapped \in IdSet

\* steps/meter.js:23: a key is required on a ciphered line and none is stored on
\* a plain one, whatever was stored before, what the page had loaded of it, and
\* however often Next was tapped.
KeyPolicy ==
  [][\A i \in Slots : LET c == calls[i] IN
       c.kind = "commit" /\ c.from = "meter" /\ calls'[i] = NoCall /\ dev' # dev
       => /\ c.mode = "required" => dev'.key # ""
          /\ c.mode = "none" => dev'.key = ""
          /\ dev'.key \in {"", dev.key, c.key}]_wzVars

\* main.js:107: each step is on the device when the user has left it: whoever sees
\* the verdict of the last step has left the meter step, with its profile stored.
StepsPersisted == app.route = "wizard" /\ app.step = Steps.done => dev.preset # 0

\* steps/meter.js:21: tapping a card ends the following: the selection stays what
\* the user tapped.
ChoiceKept == AtMeter(app) /\ tapped # 0 => app.preset = tapped

\* steps/done.js:8: a failed verdict comes with a button back to the step that
\* fixes it: its link is another hash, so the browser reports the change.
FixLeads == app.route = "wizard" /\ app.fix # "" => SetHash(app, app.fix).event
=============================================================================

---------------------------- MODULE PagesProofs -----------------------------
(***************************************************************************)
(* Proofs about the pages that ask something of the device.                *)
(*                                                                         *)
(* Wizard: the types and the policy on keys for any profiles, lines and    *)
(* number of requests; and, for a user who waits for each answer, that a   *)
(* step is stored when it has been left and that the profile tapped stays  *)
(* selected.                                                               *)
(*                                                                         *)
(* MqttCard: the types; and, while the user waits for each answer, that the *)
(* form stays true to the user and to the device and that no password is   *)
(* changed by itself, for any set of templates and of passwords.           *)
(*                                                                         *)
(* Manual: the types, and that what the builds check is enough for a       *)
(* manual and an app that are complete in every language.                  *)
(*                                                                         *)
(* MCPages: a step with one page in focus is a step of that page and leaves *)
(* the others, so the instance implements each of them and what is proved   *)
(* of a page holds of the instance.                                        *)
(***************************************************************************)
EXTENDS MCPages, WellFoundedInduction, TLAPS

-----------------------------------------------------------------------------
(* Wizard: types.                                                          *)

\* The page lists profiles of the table.
LEMMA ListedPresets == Listed(app) \subseteq Preset
  BY DEF Listed, Tiers, Fit, Mine

\* The identifiers are naturals, and a set of naturals that is not empty has a least one.
LEMMA NatLess == IsWellFoundedOn({ss \in Nat \X Nat : ss[1] < ss[2]}, Nat)
BY NatLessThanWellFounded DEF OpToRel

\* First finds a profile where there is one.
LEMMA FirstIn ==
  ASSUME NEW Ps \in SUBSET Preset, Ps # {}
  PROVE  First(Ps) \in Ps
<1> DEFINE Ids == {p.id : p \in Ps}
<1>1. Ids \subseteq Nat /\ Ids # {}
  BY WizardAssumption
<1>2. PICK n \in Ids : \A m \in Ids : n <= m
  <2>1. PICK n \in Ids : \A m \in Ids : ~(<<m, n>> \in {ss \in Nat \X Nat : ss[1] < ss[2]})
    BY <1>1, NatLess, WFMin
  <2>2. ASSUME NEW m \in Ids PROVE n <= m
    <3>1. n \in Nat /\ m \in Nat
      BY <1>1
    <3>2. <<m, n>> \in Nat \X Nat /\ ~(m < n)
      BY <2>1, <3>1
    <3> QED
      BY <3>1, <3>2
  <2> QED
    BY <2>2
<1>3. PICK p \in Ps : p.id = n
  OBVIOUS
<1> QED
  BY <1>2, <1>3 DEF First

\* The constants' part in the types, and the states a page starts from.
LEMMA Constants ==
  /\ \A p \in Preset : p.id \in PresetIds /\ p.id # 0 /\ p.variant \in Variant
  /\ 0 \in IdSet /\ PresetIds \subseteq IdSet /\ "" \in HwSet /\ Variant \subseteq HwSet
  /\ Unknown \in Dets /\ NoCall \in CallSet /\ NoStatus \in Statuses /\ ~NoStatus.known
  /\ NoCall.kind = "none" /\ NoCall.from = ""
BY WizardAssumption DEF PresetIds, IdSet, Variant, HwSet, Dets, Unknown, NoCall, CallSet,
   NoStatus, Statuses

\* The steps are numbered 0 to 3.
LEMMA StepNumbers == Steps.welcome = 0 /\ Steps.hardware = 1 /\ Steps.meter = 2 /\ Steps.done = 3
BY DEF Steps

\* What a hash is parsed to is of its types.
LEMMA HashTyped ==
  ASSUME NEW h \in Hashes
  PROVE  /\ parseHash(h).route \in {"none", "live", "wizard"} /\ parseHash(h).step \in 0..2
         /\ parseHash(h).newKey \in BOOLEAN
<1>1. CASE h = "#live"
  <2>1. parseHash(h) = [route |-> "live", step |-> 0, newKey |-> FALSE]
    BY <1>1 DEF parseHash
  <2> QED
    BY <2>1
<1>2. CASE h = "#setup"
  <2>1. parseHash(h) = [route |-> "wizard", step |-> 0, newKey |-> FALSE]
    BY <1>2 DEF parseHash
  <2> QED
    BY <2>1
<1>3. CASE h = "#setup/hardware"
  <2>1. parseHash(h) = [route |-> "wizard", step |-> Steps.hardware, newKey |-> FALSE]
    BY <1>3 DEF parseHash
  <2> QED
    BY <2>1, StepNumbers
<1>4. CASE h = "#setup/meter"
  <2>1. parseHash(h) = [route |-> "wizard", step |-> Steps.meter, newKey |-> FALSE]
    BY <1>4 DEF parseHash
  <2> QED
    BY <2>1, StepNumbers
<1>5. CASE h = "#setup/key"
  <2>1. parseHash(h) = [route |-> "wizard", step |-> Steps.meter, newKey |-> TRUE]
    BY <1>5 DEF parseHash
  <2> QED
    BY <2>1, StepNumbers
<1>6. CASE h = ""
  <2>1. parseHash(h) = [route |-> "none", step |-> 0, newKey |-> FALSE]
    BY <1>6 DEF parseHash
  <2> QED
    BY <2>1
<1> QED
  BY <1>1, <1>2, <1>3, <1>4, <1>5, <1>6 DEF Hashes

\* Following the detection changes the profile, and only where the user has tapped none.
LEMMA FollowTyped ==
  ASSUME NEW a \in Apps
  PROVE  /\ Follow(a) \in Apps
         /\ \E id \in IdSet : Follow(a) = [a EXCEPT !.preset = id]
         /\ ~AtMeter(a) \/ a.manual => Follow(a) = a
<1>1. CASE AtMeter(a) /\ ~a.manual /\ Fit(a) # {} /\ \A p \in Fit(a) : p.id # a.preset
  <2>1. Fit(a) \in SUBSET Preset
    BY DEF Fit, Mine
  <2>2. First(Fit(a)).id \in IdSet
    BY <1>1, <2>1, FirstIn, Constants
  <2>3. Follow(a) = [a EXCEPT !.preset = First(Fit(a)).id]
    BY <1>1 DEF Follow
  <2> QED
    BY <1>1, <2>2, <2>3 DEF Apps
<1>2. CASE ~(AtMeter(a) /\ ~a.manual /\ Fit(a) # {} /\ \A p \in Fit(a) : p.id # a.preset)
  <2>1. Follow(a) = a
    BY <1>2 DEF Follow
  <2>2. a = [a EXCEPT !.preset = a.preset] /\ a.preset \in IdSet
    BY DEF Apps
  <2> QED
    BY <2>1, <2>2
<1> QED
  BY <1>1, <1>2

\* What a render leaves of the state it was given, and what it says of the user's tap.
LEMMA RenderKeeps ==
  ASSUME NEW a \in Apps, NEW tap \in IdSet, RenderAs(a, tap)
  PROVE  /\ app' \in Apps /\ tapped' \in IdSet
         /\ app'.route = a.route /\ app'.step = a.step /\ app'.event = a.event
         /\ app'.status = a.status /\ app'.hash = a.hash
         /\ tapped' = IF AtMeter(a) THEN tap ELSE 0
         /\ AtMeter(a) /\ a.manual => app'.manual /\ app'.preset = a.preset
<1> DEFINE b == IF AtMeter(a) THEN a ELSE [a EXCEPT !.manual = FALSE, !.det = Unknown]
           c == IF b.route = "wizard" /\ b.step = Steps.done THEN b ELSE [b EXCEPT !.fix = ""]
<1>1. /\ b \in Apps /\ b.route = a.route /\ b.step = a.step /\ b.event = a.event
      /\ b.status = a.status /\ b.hash = a.hash /\ b.preset = a.preset
      /\ AtMeter(a) => b.manual = a.manual
  <2>1. CASE AtMeter(a)
    BY <2>1
  <2>2. CASE ~AtMeter(a)
    <3>1. b = [a EXCEPT !.manual = FALSE, !.det = Unknown]
      BY <2>2
    <3> HIDE DEF b
    <3> QED
      BY <2>2, <3>1, Constants DEF Apps
  <2> QED
    BY <2>1, <2>2
<1> HIDE DEF b
<1>2. /\ c \in Apps /\ c.route = a.route /\ c.step = a.step /\ c.event = a.event
      /\ c.status = a.status /\ c.hash = a.hash /\ c.preset = a.preset
      /\ AtMeter(a) => c.manual = a.manual
  <2>1. CASE c = b
    BY <1>1, <2>1
  <2>2. CASE c = [b EXCEPT !.fix = ""]
    <3> HIDE DEF c
    <3> QED
      BY <1>1, <2>2 DEF Apps, Fixes
  <2> QED
    BY <2>1, <2>2
<1>3. app' = Follow(c) /\ tapped' = IF AtMeter(c) THEN tap ELSE 0
  BY DEF RenderAs, b
<1> HIDE DEF c
<1>4. AtMeter(c) = AtMeter(a)
  BY <1>2 DEF AtMeter
<1>5. PICK id \in IdSet : Follow(c) = [c EXCEPT !.preset = id]
  BY <1>2, FollowTyped
<1>6. Follow(c) \in Apps /\ (AtMeter(a) /\ a.manual => Follow(c) = c)
  BY <1>2, <1>4, FollowTyped
<1>7. /\ Follow(c).route = c.route /\ Follow(c).step = c.step /\ Follow(c).event = c.event
      /\ Follow(c).status = c.status /\ Follow(c).hash = c.hash
  BY <1>2, <1>5 DEF Apps
<1>8. tapped' = (IF AtMeter(a) THEN tap ELSE 0) /\ tapped' \in IdSet
  BY <1>3, <1>4, Constants
<1> QED
  BY <1>2, <1>3, <1>6, <1>7, <1>8

\* A call that is sent; the others stay.
LEMMA SendKeeps ==
  ASSUME calls \in [Slots -> CallSet], NEW c \in CallSet, Send(c)
  PROVE  /\ calls' \in [Slots -> CallSet]
         /\ \E i \in Slots : /\ calls[i] = NoCall
                            /\ \A j \in Slots : calls'[j] = IF j = i THEN c ELSE calls[j]
<1>1. PICK i \in Slots : Free(i) /\ calls' = [calls EXCEPT ![i] = c]
  BY DEF Send
<1> QED
  BY <1>1 DEF Free

\* A call that ends leaves the others.
LEMMA EndKeeps ==
  ASSUME calls \in [Slots -> CallSet], NEW i \in Slots, End(i)
  PROVE  /\ calls' \in [Slots -> CallSet]
         /\ \A j \in Slots : calls'[j] = IF j = i THEN NoCall ELSE calls[j]
BY Constants DEF End

\* Setting the hash changes the hash and, at most, announces an event.
LEMMA HashSet ==
  ASSUME NEW a \in Apps, NEW h \in Hashes
  PROVE  /\ SetHash(a, h) \in Apps
         /\ \E e \in BOOLEAN : SetHash(a, h) = [a EXCEPT !.hash = h, !.event = e]
<1>1. (a.event \/ h # a.hash) \in BOOLEAN
  OBVIOUS
<1> QED
  BY <1>1 DEF SetHash, Apps

\* openRoute stays on the step and within the types.
LEMMA RouteOpened ==
  ASSUME NEW a \in Apps, NEW r \in {"live", "wizard"}
  PROVE  openRoute(a, r) \in Apps /\ openRoute(a, r).step = a.step
<1> DEFINE h == IF r = "live" THEN "#live" ELSE "#setup"
<1>1. h \in Hashes
  BY DEF Hashes
<1>2. openRoute(a, r) = [SetHash(a, h) EXCEPT !.route = r]
  BY DEF openRoute
<1> HIDE DEF h
<1>3. PICK e \in BOOLEAN : SetHash(a, h) = [a EXCEPT !.hash = h, !.event = e]
  BY <1>1, HashSet
<1>4. SetHash(a, h) \in Apps
  BY <1>1, HashSet
<1>5. SetHash(a, h).step = a.step
  BY <1>3 DEF Apps
<1> QED
  BY <1>2, <1>4, <1>5 DEF Apps

\* What the page knows of the device is of its type.
LEMMA StatusTyped ==
  ASSUME dev \in Devs
  PROVE  Status \in Statuses
BY DEF Status, Statuses, Devs

\* The state a loaded status makes of the page.
Loaded == [app EXCEPT !.status = Status,
                      !.hw = IF dev.hw # "" THEN dev.hw ELSE @,
                      !.preset = IF dev.preset # 0 THEN dev.preset ELSE @]
Shown(joined) ==
  IF app.route # "none" THEN Loaded
  ELSE openRoute(Loaded, IF dev.hw # "" /\ dev.preset # 0 /\ joined THEN "live" ELSE "wizard")

\* A loaded status leaves the page within its types and on its step.
LEMMA LoadedTyped ==
  ASSUME dev \in Devs, app \in Apps, NEW joined \in BOOLEAN
  PROVE  Shown(joined) \in Apps /\ Shown(joined).step = app.step /\ Shown(joined).event \in BOOLEAN
<1> DEFINE hw == IF dev.hw # "" THEN dev.hw ELSE app.hw
           id == IF dev.preset # 0 THEN dev.preset ELSE app.preset
<1>1. hw \in HwSet /\ id \in IdSet
  BY DEF Devs, Apps
<1>2. Loaded = [app EXCEPT !.status = Status, !.hw = hw, !.preset = id]
  BY DEF Loaded
<1> HIDE DEF hw, id
<1>3. Loaded \in Apps /\ Loaded.step = app.step
  BY <1>1, <1>2, StatusTyped DEF Apps
<1>4. CASE app.route # "none"
  BY <1>3, <1>4 DEF Shown, Apps
<1>5. CASE app.route = "none"
  <2>1. PICK r \in {"live", "wizard"} : Shown(joined) = openRoute(Loaded, r)
    BY <1>5 DEF Shown
  <2>2. Shown(joined) \in Apps /\ Shown(joined).step = Loaded.step
    BY <1>3, <2>1, RouteOpened
  <2>3. Shown(joined).event \in BOOLEAN
    BY <2>2 DEF Apps
  <2> QED
    BY <1>3, <2>2, <2>3
<1> QED
  BY <1>4, <1>5

\* The state of the page after a hashchange event.
Landed == LET h == parseHash(app.hash)
              a == [app EXCEPT !.event = FALSE, !.route = h.route]
          IN IF h.route = "wizard"
             THEN [a EXCEPT !.step = h.step, !.key = "", !.keepKey = ~h.newKey] ELSE a

\* A hashchange event leaves the page within its types, with no event left.
LEMMA LandedTyped ==
  ASSUME app \in Apps
  PROVE  /\ Landed \in Apps /\ ~Landed.event /\ Landed.route = parseHash(app.hash).route
         /\ Landed.step = app.step \/ Landed.step \in 0..2
<1> DEFINE h == parseHash(app.hash)
           a == [app EXCEPT !.event = FALSE, !.route = h.route]
<1>1. h.route \in {"none", "live", "wizard"} /\ h.step \in 0..2 /\ h.newKey \in BOOLEAN
  BY HashTyped DEF Apps
<1>2. /\ h.route = "wizard" =>
           Landed = [a EXCEPT !.step = h.step, !.key = "", !.keepKey = ~h.newKey]
      /\ h.route # "wizard" => Landed = a
  BY DEF Landed
<1> HIDE DEF h
<1>3. a \in Apps /\ ~a.event /\ a.step = app.step /\ a.route = h.route
  BY <1>1 DEF Apps
<1> HIDE DEF a
<1>4. CASE h.route = "wizard"
  <2>1. Landed = [a EXCEPT !.step = h.step, !.key = "", !.keepKey = ~h.newKey]
    BY <1>2, <1>4
  <2>2. (~h.newKey) \in BOOLEAN /\ h.step \in 0..3
    BY <1>1
  <2>3. Landed \in Apps
    BY <1>3, <2>1, <2>2 DEF Apps
  <2>4. ~Landed.event /\ Landed.route = h.route /\ Landed.step = h.step
    BY <1>3, <2>1 DEF Apps
  <2> QED
    BY <1>1, <2>3, <2>4 DEF h
<1>5. CASE h.route # "wizard"
  BY <1>2, <1>3, <1>5 DEF h
<1> QED
  BY <1>4, <1>5

\* The policy a commit of the meter step was made under.
CallInv(c) ==
  c.kind = "commit" /\ c.from = "meter" =>
    /\ c.mode = "required" => c.keep \/ c.key = "new"
    /\ c.mode = "none" => ~c.keep /\ c.key = ""
    /\ c.preset # 0

\* The calls the page sends.
LoadCall     == [NoCall EXCEPT !.kind = "load"]
HardwareCall == [NoCall EXCEPT !.kind = "commit", !.from = "hardware", !.hw = app.hw]

\* The load and the commit of the hardware step are calls, under the policy.
LEMMA CallsTyped ==
  ASSUME app \in Apps
  PROVE  /\ LoadCall \in CallSet /\ HardwareCall \in CallSet
         /\ LoadCall.kind = "load" /\ HardwareCall.kind = "commit" /\ HardwareCall.from = "hardware"
         /\ CallInv(LoadCall) /\ CallInv(HardwareCall) /\ CallInv(NoCall)
<1>1. LoadCall \in CallSet /\ LoadCall.kind = "load"
  BY Constants DEF LoadCall, CallSet
<1>2. HardwareCall \in CallSet /\ HardwareCall.kind = "commit" /\ HardwareCall.from = "hardware"
  BY Constants DEF HardwareCall, CallSet, Apps
<1> QED
  BY <1>1, <1>2, Constants DEF CallInv

\* A commit of the meter step is a call that obeys the policy on keys.
LEMMA MeterCommit ==
  ASSUME app \in Apps, MeterNext
  PROVE  \E c \in CallSet : Send(c) /\ CallInv(c) /\ c.kind = "commit" /\ c.from = "meter"
<1> DEFINE mode    == keyMode(app)
           withKey == mode # "none"
           keep    == withKey /\ app.status.enc /\ app.keepKey
           key     == IF withKey /\ ~keep THEN app.key ELSE ""
           c       == [NoCall EXCEPT !.kind = "commit", !.from = "meter", !.preset = app.preset,
                                     !.keep = keep, !.key = key, !.mode = mode]
<1>1. Send(c) /\ app.preset # 0 /\ keyOk(app)
  BY DEF MeterNext
<1>2. mode \in {"none", "required", "optional"}
  BY DEF keyMode
<1>3. keep \in BOOLEAN /\ (keep <=> Keep(app))
  BY DEF Apps, Statuses, Keep
<1>4. \/ mode = "none" \/ keep \/ app.key = "new"
      \/ mode = "optional" /\ app.key = ""
  BY <1>1, <1>3 DEF keyOk
<1>5. /\ key \in {"", "new"}
      /\ mode = "required" => keep \/ key = "new"
      /\ mode = "none" => ~keep /\ key = ""
  BY <1>2, <1>4
<1> HIDE DEF mode, keep, key
<1>6. /\ c \in CallSet /\ c.kind = "commit" /\ c.from = "meter" /\ c.preset = app.preset
      /\ c.keep = keep /\ c.key = key /\ c.mode = mode
  BY <1>2, <1>3, <1>5, Constants DEF CallSet, Apps
<1>7. CallInv(c)
  BY <1>1, <1>5, <1>6 DEF CallInv
<1> QED
  BY <1>1, <1>6, <1>7

\* What each step may do to the calls: one is sent, or one ends, or none changes.
CallsStep ==
  \/ UNCHANGED calls
  \/ \E i \in Slots : /\ calls[i] # NoCall
                     /\ \A j \in Slots : calls'[j] = IF j = i THEN NoCall ELSE calls[j]
  \/ \E c \in CallSet, i \in Slots :
       /\ CallInv(c) /\ calls[i] = NoCall
       /\ \A j \in Slots : calls'[j] = IF j = i THEN c ELSE calls[j]

\* Every step keeps the types, and does to the calls what it may.
LEMMA StepTyped ==
  ASSUME WzTypeOK, [WzNext]_wzVars
  PROVE  WzTypeOK' /\ calls' \in [Slots -> CallSet] /\ CallsStep
<1>1. /\ line \in Lines /\ dev \in Devs /\ app \in Apps /\ calls \in [Slots -> CallSet]
      /\ tapped \in IdSet
  BY DEF WzTypeOK
<1>2. /\ app.route \in {"none", "live", "wizard"} /\ app.step \in 0..3 /\ app.hash \in Hashes
      /\ app.status \in Statuses /\ app.preset \in IdSet /\ app.hw \in HwSet
  BY <1>1 DEF Apps
<1>0. ASSUME NEW n \in 0..3 PROVE [app EXCEPT !.step = n] \in Apps
  BY <1>1 DEF Apps
<1>3. ASSUME NEW a \in Apps, NEW tap \in IdSet, RenderAs(a, tap), UNCHANGED <<line, dev, calls>>
      PROVE  WzTypeOK' /\ calls' \in [Slots -> CallSet] /\ CallsStep
  BY <1>1, <1>3, RenderKeeps DEF WzTypeOK, CallsStep
<1>4. ASSUME app' \in Apps, tapped' \in IdSet, UNCHANGED <<line, dev, calls>>
      PROVE  WzTypeOK' /\ calls' \in [Slots -> CallSet] /\ CallsStep
  BY <1>1, <1>4 DEF WzTypeOK, CallsStep
<1>5. ASSUME NEW c \in CallSet, Send(c), CallInv(c) PROVE calls' \in [Slots -> CallSet] /\ CallsStep
  BY <1>1, <1>5, SendKeeps DEF CallsStep
<1>6. ASSUME NEW i \in Slots, calls[i].kind # "none", End(i)
      PROVE  calls' \in [Slots -> CallSet] /\ CallsStep
  BY <1>1, <1>6, EndKeeps, Constants DEF CallsStep
<1>7. CASE HashChange
  <2>1. CASE parseHash(app.hash).route = "wizard"
    <3>1. Send(LoadCall) /\ RenderAs(Landed, 0) /\ UNCHANGED <<line, dev>>
      BY <1>7, <2>1 DEF HashChange, Load, LoadCall, Landed
    <3>2. app' \in Apps /\ tapped' \in IdSet
      BY <1>1, <3>1, LandedTyped, RenderKeeps, Constants
    <3> QED
      BY <1>1, <1>5, <3>1, <3>2, CallsTyped DEF WzTypeOK
  <2>2. CASE parseHash(app.hash).route # "wizard"
    <3>1. RenderAs(Landed, tapped) /\ UNCHANGED <<line, dev, calls>>
      BY <1>7, <2>2 DEF HashChange, Landed, Render
    <3> QED
      BY <1>1, <1>3, <3>1, LandedTyped
  <2> QED
    BY <2>1, <2>2
<1>8. CASE MeterPoll
  <2>1. PICK d \in {[line EXCEPT !.enc = "unknown"], line} : Render([app EXCEPT !.det = d])
    BY <1>8 DEF MeterPoll
  <2>2. d \in Dets
    BY <1>1 DEF Dets
  <2>3. [app EXCEPT !.det = d] \in Apps
    BY <1>1, <2>2 DEF Apps
  <2> QED
    BY <1>1, <1>3, <1>8, <2>1, <2>3 DEF MeterPoll, Render
<1>9. CASE DonePoll
  <2>1. app' \in Apps
    BY <1>1, <1>9 DEF DonePoll, Apps
  <2> QED
    BY <1>1, <1>4, <1>9, <2>1 DEF DonePoll
<1>10. CASE WelcomeNext
  <2>1. [app EXCEPT !.step = Steps.hardware] \in Apps
    BY <1>0, StepNumbers
  <2> QED
    BY <1>1, <1>3, <1>10, <2>1 DEF WelcomeNext, Render
<1>11. CASE Back
  <2>1. app.step \in {1, 2}
    BY <1>11, StepNumbers DEF Back, InWizard
  <2>2. [app EXCEPT !.step = @ - 1] \in Apps
    BY <1>0, <2>1
  <2> QED
    BY <1>1, <1>3, <1>11, <2>2 DEF Back, Render
<1>12. CASE PickVariant
  <2>1. PICK v \in Variant : Render([app EXCEPT !.hw = v])
    BY <1>12 DEF PickVariant
  <2>2. [app EXCEPT !.hw = v] \in Apps
    BY <1>1, Constants DEF Apps
  <2> QED
    BY <1>1, <1>3, <1>12, <2>1, <2>2 DEF PickVariant, Render
<1>13. CASE HardwareNext
  <2>1. Send(HardwareCall) /\ UNCHANGED <<line, dev, app, tapped>>
    BY <1>13 DEF HardwareNext, HardwareCall
  <2> QED
    BY <1>1, <1>5, <2>1, CallsTyped DEF WzTypeOK
<1>14. CASE pick
  <2>1. PICK p \in Preset : app' = [app EXCEPT !.manual = TRUE, !.preset = p.id] /\ tapped' = p.id
    BY <1>14, ListedPresets DEF pick
  <2>2. app' \in Apps /\ tapped' \in IdSet
    BY <1>1, <2>1, Constants DEF Apps
  <2> QED
    BY <1>4, <1>14, <2>2 DEF pick
<1>15. CASE EnterKey
  <2>1. app' \in Apps
    <3>1. CASE app' = [app EXCEPT !.keepKey = ~@]
      BY <1>1, <3>1 DEF Apps
    <3>2. CASE \E k \in {"", "new", "bad"} : app' = [app EXCEPT !.key = k]
      BY <1>1, <3>2 DEF Apps
    <3> QED
      BY <1>15, <3>1, <3>2 DEF EnterKey
  <2> QED
    BY <1>1, <1>4, <1>15, <2>1 DEF EnterKey
<1>16. CASE MeterNext
  <2>1. UNCHANGED <<line, dev, app, tapped>>
    BY <1>16 DEF MeterNext
  <2> QED
    BY <1>1, <1>5, <1>16, <2>1, MeterCommit DEF WzTypeOK
<1>17. CASE OpenLive
  BY <1>1, <1>3, <1>17, RouteOpened DEF OpenLive, Render
<1>18. CASE FixButton \/ Navigate
  <2>1. PICK h \in Hashes : app' = SetHash(app, h)
    BY <1>18 DEF FixButton, Navigate, Fixes, Hashes, WzTypeOK, Apps
  <2> QED
    BY <1>1, <1>4, <1>18, <2>1, HashSet DEF FixButton, Navigate
<1>19. ASSUME NEW i \in Slots, CallStep(i)
       PROVE  WzTypeOK' /\ calls' \in [Slots -> CallSet] /\ CallsStep
  <2>1. CASE LoadAnswer(i)
    <3>1. PICK joined \in BOOLEAN : RenderAs(Shown(joined), tapped) /\ End(i)
                                     /\ UNCHANGED <<line, dev>> /\ calls[i].kind = "load"
      BY <2>1 DEF LoadAnswer, Shown, Loaded, Render
    <3>2. app' \in Apps /\ tapped' \in IdSet
      BY <1>1, <3>1, LoadedTyped, RenderKeeps
    <3> QED
      BY <1>1, <1>6, <3>1, <3>2 DEF WzTypeOK
  <2>2. CASE LoadFails(i) \/ CommitFails(i)
    <3>1. End(i) /\ UNCHANGED <<line, dev, app, tapped>> /\ calls[i].kind # "none"
      BY <2>2 DEF LoadFails, CommitFails
    <3> QED
      BY <1>1, <1>6, <3>1 DEF WzTypeOK
  <2>3. CASE CommitDone(i)
    <3>1. dev' = Applied(calls[i]) /\ End(i) /\ calls[i].kind = "commit" /\ UNCHANGED line
      BY <2>3 DEF CommitDone
    <3>2. dev' \in Devs
      BY <1>1, <3>1 DEF Applied, Devs, CallSet
    <3>3. app' \in Apps /\ tapped' \in IdSet
      <4>1. CASE Render([app EXCEPT !.step = IF @ < Steps.done THEN @ + 1 ELSE @])
        <5> DEFINE n == IF app.step < Steps.done THEN app.step + 1 ELSE app.step
        <5>1. n \in 0..3
          BY <1>2, StepNumbers
        <5> HIDE DEF n
        <5>2. [app EXCEPT !.step = n] \in Apps
          BY <1>0, <5>1
        <5>3. RenderAs([app EXCEPT !.step = n], tapped)
          BY <4>1 DEF Render, n
        <5> QED
          BY <1>1, <5>2, <5>3, RenderKeeps
      <4>2. CASE UNCHANGED <<app, tapped>>
        BY <1>1, <4>2
      <4> QED
        BY <2>3, <4>1, <4>2 DEF CommitDone
    <3> QED
      BY <1>1, <1>6, <3>1, <3>2, <3>3 DEF WzTypeOK
  <2> QED
    BY <1>19, <2>1, <2>2, <2>3 DEF CallStep
<1>20. CASE UNCHANGED wzVars
  BY <1>1, <1>4, <1>20 DEF wzVars
<1> QED
  BY <1>7, <1>8, <1>9, <1>10, <1>11, <1>12, <1>13, <1>14, <1>15, <1>16, <1>17, <1>18, <1>19, <1>20
     DEF WzNext, UserStep

-----------------------------------------------------------------------------
(* Wizard: type correctness, and the policy on keys.                       *)

\* The state the page is opened in is of its types, and only its first load is in flight.
LEMMA WizardTypeInitial ==
  ASSUME WzInit
  PROVE  /\ WzTypeOK /\ app.event = FALSE /\ tapped = 0 /\ app.step \in 0..2
         /\ \A i \in Slots : calls[i] = NoCall \/ calls[i] = LoadCall
         /\ \A i, j \in Slots : calls[i] # NoCall /\ calls[j] # NoCall => i = j
<1>1. dev \in Devs
  <2>1. CASE dev = [hw |-> "", preset |-> 0, key |-> ""]
    BY <2>1, Constants DEF Devs
  <2>2. ASSUME NEW p \in Preset, NEW k \in {"", "old"},
               dev = [hw |-> p.variant, preset |-> p.id, key |-> k]
        PROVE  dev \in Devs
    <3>1. p.variant \in HwSet /\ p.id \in IdSet /\ k \in {"", "old", "new"}
      BY Constants
    <3> QED
      BY <2>2, <3>1 DEF Devs
  <2> QED
    BY <2>1, <2>2 DEF WzInit
<1>2. PICK h \in Hashes :
        app = [route |-> parseHash(h).route, step |-> parseHash(h).step, hash |-> h,
               event |-> FALSE, status |-> NoStatus, hw |-> "",
               preset |-> 0, key |-> "", keepKey |-> ~parseHash(h).newKey,
               manual |-> FALSE, det |-> Unknown, fix |-> ""]
  BY DEF WzInit
<1>3. app \in Apps /\ app.event = FALSE /\ app.step \in 0..2
  <2>1. /\ parseHash(h).route \in {"none", "live", "wizard"} /\ parseHash(h).step \in 0..2
        /\ parseHash(h).newKey \in BOOLEAN
    BY HashTyped
  <2> DEFINE r == parseHash(h).route
             n == parseHash(h).step
             k == ~parseHash(h).newKey
  <2>2. r \in {"none", "live", "wizard"} /\ n \in 0..3 /\ n \in 0..2 /\ k \in BOOLEAN
    BY <2>1
  <2>3. app = [route |-> r, step |-> n, hash |-> h,
               event |-> FALSE, status |-> NoStatus, hw |-> "",
               preset |-> 0, key |-> "", keepKey |-> k,
               manual |-> FALSE, det |-> Unknown, fix |-> ""]
    BY <1>2
  <2> HIDE DEF r, n, k
  <2> QED
    BY <2>2, <2>3, Constants DEF Apps, Fixes
<1>4. calls = [i \in Slots |-> IF i = 1 THEN LoadCall ELSE NoCall]
  BY DEF WzInit, LoadCall
<1>5. LoadCall \in CallSet /\ NoCall \in CallSet
  BY <1>3, CallsTyped, Constants
<1>6. calls \in [Slots -> CallSet] /\ \A i \in Slots : calls[i] = NoCall \/ calls[i] = LoadCall
  BY <1>4, <1>5
<1>7. \A i, j \in Slots : calls[i] # NoCall /\ calls[j] # NoCall => i = j
  BY <1>4
<1> QED
  BY <1>1, <1>3, <1>6, <1>7, Constants DEF WzInit, WzTypeOK

\* Every commit in flight was made under the policy.
KeyInv == WzTypeOK /\ \A i \in Slots : CallInv(calls[i])

\* They all were, from the first request on.
LEMMA KeyInvariant == WzSpec => []KeyInv
<1>1. ASSUME WzInit PROVE KeyInv
  <2>1. WzTypeOK /\ \A i \in Slots : calls[i] = NoCall \/ calls[i] = LoadCall
    BY <1>1, WizardTypeInitial
  <2>2. CallInv(NoCall) /\ CallInv(LoadCall)
    BY <2>1, CallsTyped DEF WzTypeOK
  <2> QED
    BY <2>1, <2>2 DEF KeyInv
<1>2. ASSUME KeyInv, [WzNext]_wzVars PROVE KeyInv'
  <2>1. WzTypeOK' /\ CallsStep /\ app \in Apps
    BY <1>2, StepTyped DEF KeyInv, WzTypeOK
  <2>2. ASSUME NEW j \in Slots PROVE CallInv(calls'[j])
    BY <1>2, <2>1, CallsTyped DEF CallsStep, KeyInv
  <2> QED
    BY <2>1, <2>2 DEF KeyInv
<1> QED
  BY <1>1, <1>2, PTL DEF WzSpec

\* Type correctness, whatever the user does while requests are in flight.
THEOREM WizardTypeCorrect == WzSpec => []WzTypeOK
<1>1. KeyInv => WzTypeOK
  BY DEF KeyInv
<1> QED
  BY <1>1, KeyInvariant, PTL

\* Only a commit that the device applies changes its configuration.
LEMMA DeviceStep ==
  ASSUME WzTypeOK, [WzNext]_wzVars, dev' # dev
  PROVE  \E i \in Slots :
           /\ calls[i].kind = "commit" /\ (calls[i].keep => dev.key # "")
           /\ dev' = Applied(calls[i])
           /\ \A j \in Slots : calls'[j] = IF j = i THEN NoCall ELSE calls[j]
<1>1. PICK i \in Slots : CommitDone(i)
  BY DEF WzNext, wzVars, UserStep, CallStep, HashChange, MeterPoll, DonePoll, WelcomeNext, Back,
     PickVariant, HardwareNext, pick, EnterKey, MeterNext, OpenLive, FixButton, Navigate,
     LoadAnswer, LoadFails, CommitFails
<1>2. End(i) /\ calls \in [Slots -> CallSet]
  BY <1>1 DEF CommitDone, WzTypeOK
<1>3. \A j \in Slots : calls'[j] = IF j = i THEN NoCall ELSE calls[j]
  BY <1>2, EndKeeps
<1> QED
  BY <1>1, <1>3 DEF CommitDone

\* steps/meter.js: a ciphered line gets a key, a plain one none, a stored key is kept or
\* replaced by what was typed, however late the request arrives.
THEOREM KeyPolicyKept == WzSpec => KeyPolicy
<1>1. ASSUME KeyInv, [WzNext]_wzVars
      PROVE  [\A i \in Slots : LET c == calls[i] IN
               c.kind = "commit" /\ c.from = "meter" /\ calls'[i] = NoCall /\ dev' # dev
               => /\ c.mode = "required" => dev'.key # ""
                  /\ c.mode = "none" => dev'.key = ""
                  /\ dev'.key \in {"", dev.key, c.key}]_wzVars
  <2>1. SUFFICES ASSUME NEW i \in Slots, calls[i].kind = "commit", calls[i].from = "meter",
                        calls'[i] = NoCall, dev' # dev
                 PROVE  /\ calls[i].mode = "required" => dev'.key # ""
                        /\ calls[i].mode = "none" => dev'.key = ""
                        /\ dev'.key \in {"", dev.key, calls[i].key}
    OBVIOUS
  <2>2. PICK j \in Slots : /\ calls[j].keep => dev.key # ""
                           /\ dev' = Applied(calls[j])
                           /\ \A k \in Slots : calls'[k] = IF k = j THEN NoCall ELSE calls[k]
    BY <1>1, <2>1, DeviceStep DEF KeyInv
  <2>3. i = j
    BY <2>1, <2>2, Constants
  <2>4. dev' = [dev EXCEPT !.preset = calls[i].preset,
                          !.key = IF calls[i].keep THEN @ ELSE calls[i].key]
    BY <2>1, <2>2, <2>3 DEF Applied
  <2>5. dev'.key = IF calls[i].keep THEN dev.key ELSE calls[i].key
    BY <1>1, <2>4 DEF KeyInv, WzTypeOK, Devs
  <2>6. CallInv(calls[i])
    BY <1>1 DEF KeyInv
  <2> QED
    BY <2>1, <2>2, <2>3, <2>5, <2>6 DEF CallInv
<1> QED
  BY <1>1, KeyInvariant, PTL DEF WzSpec, KeyPolicy

-----------------------------------------------------------------------------
(* Wizard: a user who waits for each answer.                               *)

\* The step of the wizard a commit was sent from is the one still shown.
Underway(c) ==
  /\ app.route = "wizard" /\ app.status.known
  /\ \/ c.from = "hardware" /\ app.step = 1
     \/ c.from = "meter" /\ app.step = 2 /\ c.preset # 0

\* One request at a time and no event beside it; a load finds no tapped profile; the last
\* step has a profile stored; a tapped profile is the selection of the meter step shown.
Waiting ==
  /\ \A i, j \in Slots : calls[i] # NoCall /\ calls[j] # NoCall => i = j
  /\ \A i \in Slots : calls[i] # NoCall =>
       /\ ~app.event
       /\ calls[i].kind = "commit" => Underway(calls[i])
       /\ calls[i].kind = "load" => tapped = 0
  /\ app.step = 3 => dev.preset # 0
  /\ tapped # 0 => AtMeter(app) /\ app.manual /\ app.preset = tapped

NoCalls == \A i \in Slots : calls[i] = NoCall

\* With nothing in flight only the last step and the tapped profile are at stake.
LEMMA WaitingIdle ==
  ASSUME NoCalls', app'.step = 3 => dev'.preset # 0,
         tapped' # 0 => AtMeter(app') /\ app'.manual /\ app'.preset = tapped'
  PROVE  Waiting'
BY DEF Waiting, NoCalls, AtMeter

\* One call sent with nothing in flight before.
LEMMA WaitingSent ==
  ASSUME calls \in [Slots -> CallSet], NoCalls, NEW c \in CallSet, Send(c), ~app'.event,
         c.kind = "commit" => Underway(c)', c.kind = "load" => tapped' = 0,
         app'.step = 3 => dev'.preset # 0,
         tapped' # 0 => AtMeter(app') /\ app'.manual /\ app'.preset = tapped'
  PROVE  Waiting'
<1>1. PICK i \in Slots : \A j \in Slots : calls'[j] = IF j = i THEN c ELSE calls[j]
  BY SendKeeps
<1>2. \A j \in Slots : calls'[j] = IF j = i THEN c ELSE NoCall
  BY <1>1 DEF NoCalls
<1> QED
  BY <1>2 DEF Waiting, AtMeter, Underway

\* The last call in flight ends.
LEMMA IdleAfter ==
  ASSUME WzTypeOK, Waiting, NEW i \in Slots, calls[i].kind # "none", End(i)
  PROVE  NoCalls'
<1>1. \A j \in Slots : calls'[j] = IF j = i THEN NoCall ELSE calls[j]
  BY EndKeeps DEF WzTypeOK
<1>2. \A j \in Slots : calls[j] # NoCall => j = i
  BY Constants DEF Waiting
<1> QED
  BY <1>1, <1>2 DEF NoCalls

\* Every step keeps a page whose user waits as described.
LEMMA WaitingStep ==
  ASSUME Patient, WzTypeOK, Waiting, [WzNext]_wzVars
  PROVE  Waiting'
<1>1. /\ app \in Apps /\ dev \in Devs /\ calls \in [Slots -> CallSet] /\ tapped \in IdSet
      /\ app.step \in 0..3
  BY DEF WzTypeOK, Apps
<1>2. MayTap => NoCalls /\ ~app.event
  BY DEF MayTap, NoCalls
<1>3. app.event => NoCalls
  BY DEF Waiting, NoCalls
<1>4. app.step # 2 => tapped = 0
  BY StepNumbers DEF Waiting, AtMeter
<1>5. ASSUME NEW n \in 0..3 PROVE LET a == [app EXCEPT !.step = n] IN
        a \in Apps /\ a.step = n /\ a.route = app.route /\ a.status = app.status
  BY <1>1 DEF Apps
<1>6. CASE HashChange
  <2>1. NoCalls /\ UNCHANGED <<line, dev>>
    BY <1>3, <1>6 DEF HashChange
  <2>2. CASE parseHash(app.hash).route = "wizard"
    <3>1. Send(LoadCall) /\ RenderAs(Landed, 0)
      BY <1>6, <2>2 DEF HashChange, Load, LoadCall, Landed
    <3>2. /\ app'.step = Landed.step /\ app'.event = Landed.event
          /\ tapped' = IF AtMeter(Landed) THEN 0 ELSE 0
      BY <1>1, <3>1, LandedTyped, RenderKeeps, Constants
    <3>3. tapped' = 0 /\ ~app'.event /\ (app'.step = 3 => dev'.preset # 0)
      BY <1>1, <2>1, <3>2, LandedTyped DEF Waiting
    <3> QED
      BY <1>1, <2>1, <3>1, <3>3, CallsTyped, WaitingSent
  <2>3. CASE parseHash(app.hash).route # "wizard"
    <3>1. RenderAs(Landed, tapped) /\ UNCHANGED calls
      BY <1>6, <2>3 DEF HashChange, Landed, Render
    <3>2. /\ app'.step = Landed.step /\ ~AtMeter(Landed)
          /\ tapped' = IF AtMeter(Landed) THEN tapped ELSE 0
      BY <1>1, <2>3, <3>1, LandedTyped, RenderKeeps DEF AtMeter
    <3>3. tapped' = 0 /\ (app'.step = 3 => dev'.preset # 0) /\ NoCalls'
      BY <1>1, <2>1, <3>1, <3>2, LandedTyped DEF Waiting, NoCalls
    <3> QED
      BY <3>3, WaitingIdle
  <2> QED
    BY <2>2, <2>3
<1>7. CASE MeterPoll
  <2>1. PICK d \in {[line EXCEPT !.enc = "unknown"], line} : Render([app EXCEPT !.det = d])
    BY <1>7 DEF MeterPoll
  <2> DEFINE a == [app EXCEPT !.det = d]
  <2>2. d \in Dets
    BY DEF WzTypeOK, Dets
  <2>3. /\ a \in Apps /\ a.route = app.route /\ a.step = app.step /\ a.event = app.event
        /\ a.status = app.status /\ a.manual = app.manual /\ a.preset = app.preset
    BY <1>1, <2>2 DEF Apps
  <2>4. RenderAs(a, tapped)
    BY <2>1 DEF Render
  <2> HIDE DEF a
  <2>5. AtMeter(a) /\ AtMeter(app)
    BY <1>7, <2>3 DEF MeterPoll, AtMeter
  <2>6. /\ app'.route = app.route /\ app'.step = app.step /\ app'.event = app.event
        /\ app'.status = app.status /\ tapped' = tapped
        /\ app.manual => app'.manual /\ app'.preset = app.preset
    BY <1>1, <2>3, <2>4, <2>5, RenderKeeps
  <2> QED
    BY <1>7, <2>6 DEF MeterPoll, Waiting, Underway, AtMeter
<1>8. CASE DonePoll
  <2>0. PICK f \in Fixes : app' = [app EXCEPT !.fix = f]
    BY <1>8 DEF DonePoll
  <2>1. /\ app'.route = app.route /\ app'.step = app.step /\ app'.event = app.event
        /\ app'.status = app.status /\ UNCHANGED <<dev, calls, tapped>>
    BY <1>1, <1>8, <2>0 DEF DonePoll, Apps
  <2>2. tapped = 0
    BY <1>4, <1>8, StepNumbers DEF DonePoll
  <2> QED
    BY <2>1, <2>2 DEF Waiting, Underway
<1>9. ASSUME NEW a \in Apps, RenderAs(a, tapped), MayTap, UNCHANGED <<line, dev, calls>>,
             ~AtMeter(a), a.step # 3 \/ a.step = app.step
      PROVE  Waiting'
  <2>1. app'.step = a.step /\ tapped' = IF AtMeter(a) THEN tapped ELSE 0
    BY <1>1, <1>9, RenderKeeps
  <2>2. tapped' = 0 /\ (app'.step = 3 => dev'.preset # 0) /\ NoCalls'
    BY <1>2, <1>9, <2>1 DEF Waiting, NoCalls
  <2> QED
    BY <2>2, WaitingIdle
<1>10. CASE WelcomeNext
  <2> DEFINE a == [app EXCEPT !.step = Steps.hardware]
  <2>1. a \in Apps /\ a.step = 1
    BY <1>5, StepNumbers
  <2>2. RenderAs(a, tapped) /\ MayTap /\ UNCHANGED <<line, dev, calls>>
    BY <1>10 DEF WelcomeNext, Render, InWizard
  <2> HIDE DEF a
  <2>3. ~AtMeter(a)
    BY <2>1, StepNumbers DEF AtMeter
  <2> QED
    BY <1>9, <2>1, <2>2, <2>3
<1>11. CASE Back
  <2> DEFINE a == [app EXCEPT !.step = @ - 1]
  <2>1. app.step \in {1, 2} /\ RenderAs(a, tapped) /\ MayTap /\ UNCHANGED <<line, dev, calls>>
    BY <1>11, StepNumbers DEF Back, InWizard, Render
  <2>2. a \in Apps /\ a.step \in {0, 1}
    BY <1>5, <2>1
  <2> HIDE DEF a
  <2>3. ~AtMeter(a)
    BY <2>2, StepNumbers DEF AtMeter
  <2> QED
    BY <1>9, <2>1, <2>2, <2>3
<1>12. CASE PickVariant
  <2>1. PICK v \in Variant : Render([app EXCEPT !.hw = v])
    BY <1>12 DEF PickVariant
  <2> DEFINE a == [app EXCEPT !.hw = v]
  <2>2. a \in Apps /\ a.step = app.step /\ app.step = 1
    BY <1>1, <1>12, Constants, StepNumbers DEF Apps, PickVariant, InWizard
  <2>3. RenderAs(a, tapped) /\ MayTap /\ UNCHANGED <<line, dev, calls>>
    BY <1>12, <2>1 DEF PickVariant, InWizard, Render
  <2> HIDE DEF a
  <2>4. ~AtMeter(a)
    BY <2>2, StepNumbers DEF AtMeter
  <2> QED
    BY <1>9, <2>2, <2>3, <2>4
<1>13. CASE HardwareNext
  <2>1. /\ Send(HardwareCall) /\ UNCHANGED <<line, dev, app, tapped>> /\ MayTap
        /\ app.route = "wizard" /\ app.step = 1 /\ app.status.known
    BY <1>13, StepNumbers DEF HardwareNext, HardwareCall, InWizard
  <2>2. PICK c \in CallSet : c = HardwareCall /\ c.kind = "commit" /\ c.from = "hardware"
    BY <1>1, CallsTyped
  <2>3. Send(c) /\ Underway(c)'
    BY <2>1, <2>2 DEF Underway
  <2> QED
    BY <1>1, <1>2, <2>1, <2>2, <2>3, WaitingSent DEF Waiting
<1>14. CASE pick
  <2>1. PICK p \in Preset : app' = [app EXCEPT !.manual = TRUE, !.preset = p.id] /\ tapped' = p.id
    BY <1>14, ListedPresets DEF pick
  <2>2. /\ app'.route = app.route /\ app'.step = app.step /\ app'.status = app.status
        /\ app'.manual /\ app'.preset = tapped'
    BY <1>1, <2>1 DEF Apps
  <2>3. AtMeter(app') /\ NoCalls' /\ app'.step # 3
    BY <1>2, <1>14, <2>2, StepNumbers DEF pick, InWizard, AtMeter, NoCalls
  <2> QED
    BY <2>2, <2>3, WaitingIdle
<1>15. CASE EnterKey
  <2>1. /\ app'.route = app.route /\ app'.step = app.step /\ app'.status = app.status
        /\ app'.manual = app.manual /\ app'.preset = app.preset
    <3>1. CASE app' = [app EXCEPT !.keepKey = ~@]
      BY <1>1, <3>1 DEF Apps
    <3>2. CASE \E k \in {"", "new", "bad"} : app' = [app EXCEPT !.key = k]
      BY <1>1, <3>2 DEF Apps
    <3> QED
      BY <1>15, <3>1, <3>2 DEF EnterKey
  <2>2. NoCalls' /\ UNCHANGED <<dev, tapped>>
    BY <1>2, <1>15 DEF EnterKey, InWizard, NoCalls
  <2> QED
    BY <2>1, <2>2, WaitingIdle DEF Waiting, AtMeter
<1>16. CASE MeterNext
  <2>1. PICK c \in CallSet : Send(c) /\ CallInv(c) /\ c.kind = "commit" /\ c.from = "meter"
    BY <1>1, <1>16, MeterCommit
  <2>2. /\ UNCHANGED <<line, dev, app, tapped>> /\ MayTap
        /\ app.route = "wizard" /\ app.step = 2 /\ app.status.known
    BY <1>16, StepNumbers DEF MeterNext, InWizard
  <2>3. Underway(c)'
    BY <2>1, <2>2 DEF Underway, CallInv
  <2> QED
    BY <1>1, <1>2, <2>1, <2>2, <2>3, WaitingSent DEF Waiting
<1>17. CASE OpenLive
  <2> DEFINE a == openRoute(app, "live")
  <2>1. a \in Apps /\ a.step = app.step
    BY <1>1, RouteOpened
  <2>2. a = [SetHash(app, "#live") EXCEPT !.route = "live"] /\ SetHash(app, "#live") \in Apps
    BY <1>1, HashSet DEF openRoute, Hashes
  <2>3. RenderAs(a, tapped) /\ MayTap /\ UNCHANGED <<line, dev, calls>>
    BY <1>17 DEF OpenLive, Render, InWizard
  <2> HIDE DEF a
  <2>4. ~AtMeter(a)
    BY <2>2 DEF AtMeter, Apps
  <2> QED
    BY <1>9, <2>1, <2>3, <2>4
<1>18. CASE FixButton \/ Navigate
  <2>1. PICK h \in Hashes : app' = SetHash(app, h)
    BY <1>1, <1>18 DEF FixButton, Navigate, Fixes, Hashes, Apps
  <2>2. PICK e \in BOOLEAN : app' = [app EXCEPT !.hash = h, !.event = e]
    BY <1>1, <2>1, HashSet
  <2>3. /\ app'.route = app.route /\ app'.step = app.step /\ app'.status = app.status
        /\ app'.manual = app.manual /\ app'.preset = app.preset
    BY <1>1, <2>2 DEF Apps
  <2>4. NoCalls' /\ UNCHANGED <<dev, tapped>>
    BY <1>2, <1>18 DEF FixButton, Navigate, InWizard, NoCalls
  <2> QED
    BY <2>3, <2>4, WaitingIdle DEF Waiting, AtMeter
<1>19. ASSUME NEW i \in Slots, CallStep(i) PROVE Waiting'
  <2>1. calls[i].kind # "none" /\ calls[i] # NoCall /\ NoCalls'
    BY <1>19, IdleAfter, Constants DEF CallStep, LoadAnswer, LoadFails, CommitDone, CommitFails
  <2>2. CASE LoadAnswer(i)
    <3>1. PICK joined \in BOOLEAN : RenderAs(Shown(joined), tapped)
                                     /\ UNCHANGED <<line, dev>> /\ calls[i].kind = "load"
      BY <2>2 DEF LoadAnswer, Shown, Loaded, Render
    <3>2. tapped = 0
      BY <2>1, <3>1 DEF Waiting
    <3>3. app'.step = app.step /\ tapped' = IF AtMeter(Shown(joined)) THEN tapped ELSE 0
      BY <1>1, <3>1, LoadedTyped, RenderKeeps
    <3> QED
      BY <2>1, <3>1, <3>2, <3>3, WaitingIdle DEF Waiting
  <2>3. CASE LoadFails(i) \/ CommitFails(i)
    BY <2>1, <2>3, WaitingIdle DEF LoadFails, CommitFails, Waiting
  <2>4. CASE CommitDone(i)
    <3>1. /\ calls[i].kind = "commit" /\ dev' = Applied(calls[i]) /\ app.route = "wizard"
          /\ \/ calls[i].from = "hardware" /\ app.step = 1
             \/ calls[i].from = "meter" /\ app.step = 2 /\ calls[i].preset # 0
      BY <2>1, <2>4 DEF CommitDone, Waiting, Underway
    <3>2. CASE UNCHANGED <<app, tapped>>
      BY <2>1, <3>1, <3>2, WaitingIdle DEF Waiting
    <3>3. CASE Render([app EXCEPT !.step = IF @ < Steps.done THEN @ + 1 ELSE @])
      <4> DEFINE n == IF app.step < Steps.done THEN app.step + 1 ELSE app.step
                 a == [app EXCEPT !.step = n]
      <4>1. n \in 0..3 /\ n = app.step + 1
        BY <3>1, StepNumbers
      <4>2. RenderAs(a, tapped)
        BY <3>3 DEF Render
      <4> HIDE DEF n
      <4>3. a \in Apps /\ a.step = n
        BY <1>5, <4>1
      <4> HIDE DEF a
      <4>4. app'.step = n /\ tapped' = IF AtMeter(a) THEN tapped ELSE 0
        BY <1>1, <4>2, <4>3, RenderKeeps
      <4>5. tapped' = 0
        <5>1. CASE app.step = 1
          BY <1>4, <4>4, <5>1
        <5>2. CASE app.step = 2
          BY <4>1, <4>3, <4>4, <5>2, StepNumbers DEF AtMeter
        <5> QED
          BY <3>1, <5>1, <5>2
      <4>6. app'.step = 3 => dev'.preset # 0
        <5>1. ASSUME app'.step = 3 PROVE calls[i].from = "meter" /\ calls[i].preset # 0
          BY <3>1, <4>1, <4>4, <5>1
        <5>2. ASSUME calls[i].from = "meter" PROVE dev'.preset = calls[i].preset
          BY <1>1, <3>1, <5>2 DEF Applied, Devs
        <5> QED
          BY <5>1, <5>2
      <4> QED
        BY <2>1, <4>5, <4>6, WaitingIdle
    <3> QED
      BY <2>4, <3>2, <3>3 DEF CommitDone
  <2> QED
    BY <1>19, <2>2, <2>3, <2>4 DEF CallStep
<1>20. CASE UNCHANGED wzVars
  BY <1>20 DEF wzVars, Waiting, Underway, AtMeter
<1> QED
  BY <1>6, <1>7, <1>8, <1>10, <1>11, <1>12, <1>13, <1>14, <1>15, <1>16, <1>17, <1>18, <1>19, <1>20
     DEF WzNext, UserStep

\* So the description holds throughout.
LEMMA WaitingInvariant ==
  ASSUME Patient
  PROVE  WzSpec => [](WzTypeOK /\ Waiting)
<1>1. ASSUME WzInit PROVE WzTypeOK /\ Waiting
  <2>1. /\ WzTypeOK /\ app.event = FALSE /\ tapped = 0 /\ app.step \in 0..2
        /\ \A i \in Slots : calls[i] = NoCall \/ calls[i] = LoadCall
        /\ \A i, j \in Slots : calls[i] # NoCall /\ calls[j] # NoCall => i = j
    BY <1>1, WizardTypeInitial
  <2>2. LoadCall.kind = "load"
    BY <2>1, CallsTyped DEF WzTypeOK
  <2> QED
    BY <2>1, <2>2 DEF Waiting
<1>2. ASSUME WzTypeOK, Waiting, [WzNext]_wzVars PROVE (WzTypeOK /\ Waiting)'
  BY <1>2, StepTyped, WaitingStep
<1> QED
  BY <1>1, <1>2, PTL DEF WzSpec

\* main.js: whoever sees the verdict has a profile stored on the device, when no request
\* was overtaken by a tap.
THEOREM StepsArePersisted ==
  ASSUME Patient
  PROVE  WzSpec => []StepsPersisted
<1>1. Waiting => StepsPersisted
  BY StepNumbers DEF Waiting, StepsPersisted
<1> QED
  BY <1>1, WaitingInvariant, PTL

\* steps/meter.js: the profile the user tapped stays selected while the detection goes on,
\* when no request was overtaken by a tap.
THEOREM ChoiceIsKept ==
  ASSUME Patient
  PROVE  WzSpec => []ChoiceKept
<1>1. Waiting => ChoiceKept
  BY DEF Waiting, ChoiceKept
<1> QED
  BY <1>1, WaitingInvariant, PTL

-----------------------------------------------------------------------------
(* MqttCard: what holds while the user waits for each answer.              *)

\* A request in flight is about the form on the page, a POST carries its draft, and a
\* fresh read holds what the device has now.
ReqInv(r) ==
  /\ r.kind \in {"load", "loaded"} => form.kind = "null"
  /\ r.kind \in {"post", "read", "reread"} => r.snap = form /\ form.kind = "draft"
  /\ r.kind = "post" => r.tpl = form.draft.tpl /\ r.pw = Posted(form.draft)
  /\ r.kind = "reread" => r.cfg = Config

\* At most one request is in flight.
OneInv == \A i, j \in ReqSlot : reqs[i] # NoReq /\ reqs[j] # NoReq => i = j

\* A draft is what the user typed, or what was read, without a password.
DraftInv ==
  /\ form.kind # "draft" => typed = NoDraft
  /\ form.kind = "draft" => \/ typed = form.draft
                            \/ typed = NoDraft /\ form.draft.pw = "" /\ ~form.draft.clear
  /\ form.draft.clear => form.draft.pw = ""

\* A form that says it is saved is a form just read.
SavedInv ==
  form.saved => /\ form.draft.tpl = broker.tpl /\ form.draft.pw = "" /\ ~form.draft.clear
                /\ form.cfg = Config

\* The inductive invariant of a card whose user waits.
McIInv == /\ McTypeOK /\ OneInv /\ DraftInv /\ SavedInv
          /\ \A i \in ReqSlot : ReqInv(reqs[i])
-----------------------------------------------------------------------------
(* MqttCard: types, for every user.                                        *)

\* The states the card starts from and falls back to are of their types, and so is what
\* the device answers.
LEMMA Values ==
  /\ NoDraft \in Drafts /\ NoCfg \in Cfgs /\ NoForm \in Forms /\ LoadErr \in Forms /\ NoReq \in Reqs
  /\ NoForm.kind = "null" /\ LoadErr.kind = "loadErr" /\ NoReq.kind = "none"
  /\ NoForm.draft = NoDraft /\ LoadErr.draft = NoDraft /\ NoDraft.clear = FALSE
  /\ ~NoForm.saved /\ ~LoadErr.saved
  /\ "keep" \notin Password /\ Accepted \subseteq Template
BY MqttCardAssumption DEF NoDraft, NoCfg, NoForm, LoadErr, NoReq, NoTpl, Drafts, Cfgs, Forms, Reqs

\* A form that shows a configuration is of its type.
LEMMA FreshTyped ==
  ASSUME NEW c \in Cfgs, NEW ok \in BOOLEAN
  PROVE  Fresh(c, ok) \in Forms
BY DEF Fresh, Forms, Cfgs, Drafts

\* So is the configuration the device answers with.
LEMMA ConfigTyped == McTypeOK => Config \in Cfgs
BY Values DEF McTypeOK, Config, Cfgs

\* What is posted of the password field.
LEMMA PostedTyped ==
  ASSUME NEW d \in Drafts
  PROVE  Posted(d) \in Password \cup {"", "keep"}
BY DEF Posted, Drafts

\* Every action keeps the types.
LEMMA TypeInductive == McTypeOK /\ [McNext]_mcVars => McTypeOK'
<1> SUFFICES ASSUME McTypeOK, [McNext]_mcVars PROVE McTypeOK'
  OBVIOUS
<1>1. /\ broker \in [tpl : Accepted, pw : Password \cup {""}]
      /\ form \in Forms /\ typed \in Drafts /\ body \in [open : BOOLEAN, busy : BOOLEAN]
      /\ reqs \in [ReqSlot -> Reqs] /\ Config \in Cfgs
  BY ConfigTyped DEF McTypeOK
<1>2. ASSUME NEW r \in Reqs, Ask(r) PROVE reqs' \in [ReqSlot -> Reqs]
  BY <1>1, <1>2 DEF Ask
<1>3. ASSUME NEW i \in ReqSlot, Ended(i) PROVE reqs' \in [ReqSlot -> Reqs]
  BY <1>1, <1>3, Values DEF Ended
<1>4. ASSUME NEW i \in ReqSlot, Failed(i) PROVE
        form' \in Forms /\ body' \in [open : BOOLEAN, busy : BOOLEAN] /\ reqs' \in [ReqSlot -> Reqs]
  <2>1. reqs[i].snap \in Forms
    BY <1>1 DEF Reqs
  <2>2. [reqs[i].snap EXCEPT !.err = TRUE] \in Forms
    BY <2>1 DEF Forms
  <2> QED
    BY <1>1, <1>3, <1>4, <2>2 DEF Failed
<1>5. ASSUME NEW d \in Drafts, Edit(d) PROVE McTypeOK'
  <2>1. [form EXCEPT !.draft = d, !.err = FALSE, !.saved = FALSE] \in Forms
    BY <1>1 DEF Forms
  <2> QED
    BY <1>1, <1>5, <2>1 DEF Edit, McTypeOK
<1>6. CASE OpenCard
  <2>1. [NoReq EXCEPT !.kind = "load"] \in Reqs
    BY Values DEF Reqs
  <2>2. reqs' \in [ReqSlot -> Reqs]
    BY <1>1, <1>2, <1>6, <2>1 DEF OpenCard
  <2> QED
    BY <1>1, <1>6, <2>2 DEF OpenCard, McTypeOK
<1>7. CASE CloseCard
  BY <1>1, <1>7 DEF CloseCard, McTypeOK
<1>8. CASE LeaveTab
  <2>1. ASSUME NEW i \in ReqSlot PROVE
          (IF reqs[i].kind = "post" THEN [reqs[i] EXCEPT !.snap = NoForm] ELSE NoReq) \in Reqs
    BY <1>1, Values DEF Reqs
  <2>2. reqs' \in [ReqSlot -> Reqs]
    BY <1>8, <2>1 DEF LeaveTab
  <2> QED
    BY <1>1, <1>8, <2>2, Values DEF LeaveTab, McTypeOK
<1>9. CASE TypeTemplate
  <2>1. PICK t \in Template : Edit([form.draft EXCEPT !.tpl = t])
    BY <1>9 DEF TypeTemplate
  <2>2. [form.draft EXCEPT !.tpl = t] \in Drafts
    BY <1>1 DEF Forms, Drafts
  <2> QED
    BY <1>5, <2>1, <2>2
<1>10. CASE TypePassword
  <2>1. PICK p \in Password \cup {""} : Edit([form.draft EXCEPT !.pw = p])
    BY <1>10 DEF TypePassword
  <2>2. [form.draft EXCEPT !.pw = p] \in Drafts
    BY <1>1 DEF Forms, Drafts
  <2> QED
    BY <1>5, <2>1, <2>2
<1>11. CASE TickClear
  <2>1. [form.draft EXCEPT !.clear = ~@, !.pw = ""] \in Drafts
    BY <1>1 DEF Forms, Drafts
  <2> QED
    BY <1>5, <1>11, <2>1 DEF TickClear
<1>12. CASE save
  <2>1. [NoReq EXCEPT !.kind = "post", !.snap = form, !.tpl = form.draft.tpl,
                      !.pw = Posted(form.draft)] \in Reqs
    <3>1. form.draft \in Drafts /\ form.draft.tpl \in Template \cup {NoTpl}
      BY <1>1 DEF Forms, Drafts
    <3> QED
      BY <1>1, <3>1, Values, PostedTyped DEF Reqs
  <2>2. reqs' \in [ReqSlot -> Reqs]
    BY <1>2, <1>12, <2>1 DEF save
  <2> QED
    BY <1>1, <1>12, <2>2 DEF save, McTypeOK
<1>13. ASSUME NEW i \in ReqSlot, McReq(i) PROVE McTypeOK'
  <2>1. CASE Serve(i)
    <3> DEFINE kind == IF reqs[i].kind = "load" THEN "loaded" ELSE "reread"
    <3>1. kind \in {"loaded", "reread"}
      OBVIOUS
    <3> HIDE DEF kind
    <3>2. [reqs[i] EXCEPT !.cfg = Config, !.kind = kind] \in Reqs
      BY <1>1, <3>1 DEF Reqs
    <3> USE DEF kind
    <3> QED
      BY <1>1, <2>1, <3>2 DEF Serve, McTypeOK
  <2>2. CASE LoadArrives(i)
    <3>1. Fresh(reqs[i].cfg, FALSE) \in Forms
      BY <1>1, FreshTyped DEF Reqs
    <3> QED
      BY <1>1, <1>3, <2>2, <3>1 DEF LoadArrives, McTypeOK
  <2>3. CASE LoadLost(i)
    BY <1>1, <1>3, <2>3, Values DEF LoadLost, McTypeOK
  <2>4. CASE PostApplied(i)
    <3>1. broker' \in [tpl : Accepted, pw : Password \cup {""}]
      <4>1. reqs[i].pw \in Password \cup {"", "keep"}
        BY <1>1 DEF Reqs
      <4> QED
        BY <1>1, <2>4, <4>1 DEF PostApplied
    <3>2. CASE UNCHANGED <<form, body>> /\ reqs' = [reqs EXCEPT ![i].kind = "read"]
      <4>1. [reqs[i] EXCEPT !.kind = "read"] \in Reqs
        BY <1>1 DEF Reqs
      <4> QED
        BY <1>1, <2>4, <3>1, <3>2, <4>1 DEF PostApplied, McTypeOK
    <3>3. CASE Failed(i)
      BY <1>1, <1>4, <2>4, <3>1, <3>3 DEF PostApplied, McTypeOK
    <3> QED
      BY <2>4, <3>2, <3>3 DEF PostApplied
  <2>5. CASE PostFails(i)
    BY <1>1, <1>4, <2>5 DEF PostFails, McTypeOK
  <2>6. CASE ReadArrives(i)
    <3>1. Fresh(reqs[i].cfg, TRUE) \in Forms
      BY <1>1, FreshTyped DEF Reqs
    <3> QED
      BY <1>1, <1>3, <2>6, <3>1, Values DEF ReadArrives, McTypeOK
  <2>7. CASE ReadLost(i)
    BY <1>1, <1>4, <2>7 DEF ReadLost, McTypeOK
  <2> QED
    BY <1>13, <2>1, <2>2, <2>3, <2>4, <2>5, <2>6, <2>7 DEF McReq
<1>14. CASE UNCHANGED mcVars
  BY <1>1, <1>14 DEF mcVars, McTypeOK
<1> QED
  BY <1>6, <1>7, <1>8, <1>9, <1>10, <1>11, <1>12, <1>13, <1>14 DEF McNext, McUser

\* The page before its first request is of its types.
LEMMA CardTypeInitial == McInit => McTypeOK
<1> SUFFICES ASSUME McInit PROVE McTypeOK
  OBVIOUS
<1>1. form \in Forms /\ typed \in Drafts
  BY Values DEF McInit
<1>2. reqs \in [ReqSlot -> Reqs]
  BY Values DEF McInit
<1>3. broker \in [tpl : Accepted, pw : Password \cup {""}]
      /\ body \in [open : BOOLEAN, busy : BOOLEAN]
  BY DEF McInit
<1> QED
  BY <1>1, <1>2, <1>3 DEF McTypeOK

\* mqtt-card.js: settings, form and requests are always of their types, however hasty the
\* user is.
THEOREM McTypeCorrect == McSpec => []McTypeOK
BY CardTypeInitial, TypeInductive, PTL DEF McSpec

-----------------------------------------------------------------------------
(* MqttCard: the form, when the user waits for each answer.                *)

\* A user who waits acts with nothing in flight.
LEMMA NothingAsked ==
  ASSUME ~Hasty, MayAct
  PROVE  \A i \in ReqSlot : reqs[i] = NoReq
BY DEF MayAct

\* Nothing is in flight, and nothing is said of nothing.
LEMMA Quiet ==
  ASSUME \A i \in ReqSlot : reqs'[i] = NoReq
  PROVE  OneInv' /\ \A i \in ReqSlot : ReqInv(reqs[i])'
BY Values DEF OneInv, ReqInv

\* A request is asked for when none is in flight.
LEMMA Alone ==
  ASSUME reqs \in [ReqSlot -> Reqs], \A i \in ReqSlot : reqs[i] = NoReq, NEW r, Ask(r)
  PROVE  OneInv' /\ \A i \in ReqSlot : reqs'[i] = r \/ reqs'[i] = NoReq
BY DEF Ask, OneInv

\* The request that ends was the only one.
LEMMA Last ==
  ASSUME McTypeOK, OneInv, NEW i \in ReqSlot, reqs[i].kind # "none", Ended(i)
  PROVE  \A j \in ReqSlot : reqs'[j] = NoReq
BY Values DEF McTypeOK, OneInv, Ended

\* The request at i goes on, and stays the only one.
LEMMA Changed ==
  ASSUME McTypeOK, OneInv, NEW i \in ReqSlot, reqs[i].kind # "none",
         NEW r, reqs' = [reqs EXCEPT ![i] = r]
  PROVE  OneInv' /\ \A j \in ReqSlot : reqs'[j] = IF j = i THEN r ELSE NoReq
<1>1. \A j \in ReqSlot : j # i => reqs[j] = NoReq
  BY Values DEF OneInv
<1>2. \A j \in ReqSlot : reqs'[j] = IF j = i THEN r ELSE NoReq
  BY <1>1 DEF McTypeOK
<1> QED
  BY <1>2 DEF OneInv

\* An edit makes the draft what the user typed.
LEMMA Edited ==
  ASSUME McIInv, ~Hasty, Editing, NEW d \in Drafts, d.clear => d.pw = "", Edit(d)
  PROVE  OneInv' /\ DraftInv' /\ SavedInv' /\ \A i \in ReqSlot : ReqInv(reqs[i])'
<1>1. /\ form' = [form EXCEPT !.draft = d, !.err = FALSE, !.saved = FALSE]
      /\ typed' = d /\ UNCHANGED <<broker, body, reqs>>
      /\ form.kind = "draft" /\ \A i \in ReqSlot : reqs[i] = NoReq
  BY NothingAsked DEF Edit, Editing
<1>2. form'.draft = d /\ form'.kind = "draft" /\ ~form'.saved
  BY <1>1 DEF McIInv, McTypeOK, Forms
<1>3. OneInv' /\ \A i \in ReqSlot : ReqInv(reqs[i])'
  BY <1>1, Quiet
<1>4. DraftInv'
  BY <1>1, <1>2 DEF DraftInv
<1>5. SavedInv'
  BY <1>2 DEF SavedInv
<1> QED
  BY <1>3, <1>4, <1>5
\* A save that fails leaves the form as it was, with an error.
LEMMA FailKeeps ==
  ASSUME McIInv, NEW i \in ReqSlot, reqs[i].kind \in {"post", "read"}, Failed(i),
         typed' = typed, SavedInv, form.saved => form.cfg = Config' /\ broker'.tpl = broker.tpl
  PROVE  OneInv' /\ DraftInv' /\ SavedInv' /\ \A j \in ReqSlot : ReqInv(reqs[j])'
<1>1. /\ McTypeOK /\ OneInv /\ DraftInv /\ ReqInv(reqs[i])
      /\ form \in Forms
  BY DEF McIInv, McTypeOK
<1>2. reqs[i].snap = form /\ form.kind = "draft" /\ form # NoForm
  BY <1>1, Values DEF ReqInv
<1>3. form' = [form EXCEPT !.err = TRUE] /\ Ended(i)
  BY <1>2 DEF Failed
<1>4. form'.kind = form.kind /\ form'.draft = form.draft /\ form'.cfg = form.cfg /\ form'.saved = form.saved
  BY <1>1, <1>3 DEF Forms
<1>5. \A j \in ReqSlot : reqs'[j] = NoReq
  BY <1>1, <1>3, Last
<1>6. OneInv' /\ \A j \in ReqSlot : ReqInv(reqs[j])'
  BY <1>5, Quiet
<1>7. DraftInv'
  BY <1>1, <1>4 DEF DraftInv
<1>8. SavedInv'
  BY <1>1, <1>4 DEF SavedInv
<1> QED
  BY <1>6, <1>7, <1>8

\* What a POST applied does to the device: nothing, if the form says it is saved.
LEMMA PostTaken ==
  ASSUME McIInv, NEW i \in ReqSlot, PostApplied(i)
  PROVE  /\ form.kind = "draft" /\ reqs[i].snap = form
         /\ form.saved => broker' = broker
         /\ broker'.pw # broker.pw =>
              \/ typed.pw = broker'.pw /\ typed.pw # "" /\ ~typed.clear
              \/ typed.clear /\ broker'.pw = ""
<1>1. /\ McTypeOK /\ DraftInv /\ SavedInv /\ ReqInv(reqs[i]) /\ reqs[i].kind = "post"
      /\ broker' = [tpl |-> reqs[i].tpl,
                    pw |-> IF reqs[i].pw = "keep" THEN broker.pw ELSE reqs[i].pw]
  BY DEF McIInv, PostApplied
<1>2. /\ form.kind = "draft" /\ reqs[i].snap = form
      /\ reqs[i].tpl = form.draft.tpl /\ reqs[i].pw = Posted(form.draft)
  BY <1>1 DEF ReqInv
<1>3. broker \in [tpl : Accepted, pw : Password \cup {""}] /\ form.draft \in Drafts
  BY <1>1 DEF McTypeOK, Forms
<1>4. ASSUME form.saved PROVE broker' = broker
  <2>1. form.draft.tpl = broker.tpl /\ form.draft.pw = "" /\ ~form.draft.clear
    BY <1>1, <1>4 DEF SavedInv
  <2>2. reqs[i].pw = "keep" /\ reqs[i].tpl = broker.tpl
    BY <1>2, <2>1 DEF Posted
  <2> QED
    BY <1>1, <1>3, <2>2
<1>5. ASSUME broker'.pw # broker.pw
      PROVE  \/ typed.pw = broker'.pw /\ typed.pw # "" /\ ~typed.clear
             \/ typed.clear /\ broker'.pw = ""
  <2>1. broker'.pw = Posted(form.draft) /\ Posted(form.draft) # "keep"
    BY <1>1, <1>2, <1>5
  <2>2. CASE form.draft.clear
    BY <1>1, <1>2, <2>1, <2>2 DEF Posted, DraftInv
  <2>3. CASE ~form.draft.clear
    <3>1. form.draft.pw # "" /\ broker'.pw = form.draft.pw
      BY <2>1, <2>3 DEF Posted
    <3>2. typed = form.draft
      BY <1>1, <1>2, <3>1 DEF DraftInv
    <3> QED
      BY <2>3, <3>1, <3>2
  <2> QED
    BY <2>2, <2>3
<1> QED
  BY <1>2, <1>4, <1>5

\* The invariant holds of the page before its first request.
LEMMA McInitial == McInit => McIInv
<1> SUFFICES ASSUME McInit PROVE McIInv
  OBVIOUS
<1>1. form = NoForm /\ typed = NoDraft /\ \A i \in ReqSlot : reqs[i] = NoReq
  BY DEF McInit
<1>2. OneInv /\ \A i \in ReqSlot : ReqInv(reqs[i])
  BY <1>1, Values DEF OneInv, ReqInv
<1>3. DraftInv /\ SavedInv
  BY <1>1, Values DEF DraftInv, SavedInv
<1> QED
  BY <1>2, <1>3, CardTypeInitial DEF McIInv

\* Every action keeps the invariant: the user's, then the answers'.
LEMMA McInductive ==
  ASSUME ~Hasty
  PROVE  McIInv /\ [McNext]_mcVars => McIInv'
<1> SUFFICES ASSUME McIInv, [McNext]_mcVars
             PROVE  OneInv' /\ DraftInv' /\ SavedInv' /\ \A j \in ReqSlot : ReqInv(reqs[j])'
  BY TypeInductive DEF McIInv
<1>1. /\ McTypeOK /\ OneInv /\ DraftInv /\ SavedInv /\ \A j \in ReqSlot : ReqInv(reqs[j])
      /\ form \in Forms /\ form.draft \in Drafts /\ reqs \in [ReqSlot -> Reqs]
  BY DEF McIInv, McTypeOK, Forms
<1>2. CASE OpenCard
  <2>1. UNCHANGED <<broker, form, typed>> /\ \A i \in ReqSlot : reqs[i] = NoReq
    BY <1>2, NothingAsked DEF OpenCard
  <2>2. DraftInv' /\ SavedInv'
    BY <1>1, <2>1 DEF DraftInv, SavedInv, Config
  <2>3. CASE form.kind = "null"
    <3>1. OneInv' /\ \A i \in ReqSlot : \/ reqs'[i] = [NoReq EXCEPT !.kind = "load"]
                                        \/ reqs'[i] = NoReq
      BY <1>1, <1>2, <2>1, <2>3, Alone DEF OpenCard
    <3>2. [NoReq EXCEPT !.kind = "load"].kind = "load"
      BY Values DEF Reqs
    <3>3. \A i \in ReqSlot : ReqInv(reqs[i])'
      BY <2>1, <2>3, <3>1, <3>2, Values DEF ReqInv
    <3> QED
      BY <2>2, <3>1, <3>3
  <2>4. CASE form.kind # "null"
    <3>1. \A i \in ReqSlot : reqs'[i] = NoReq
      BY <1>2, <2>1, <2>4 DEF OpenCard
    <3> QED
      BY <2>2, <3>1, Quiet
  <2> QED
    BY <2>3, <2>4
<1>3. CASE CloseCard
  <2>1. UNCHANGED <<broker, form, typed, reqs>> /\ \A i \in ReqSlot : reqs[i] = NoReq
    BY <1>3, NothingAsked DEF CloseCard
  <2>2. DraftInv' /\ SavedInv'
    BY <1>1, <2>1 DEF DraftInv, SavedInv, Config
  <2> QED
    BY <2>1, <2>2, Quiet
<1>4. CASE LeaveTab
  <2>1. form' = NoForm /\ typed' = NoDraft /\ \A i \in ReqSlot : reqs[i] = NoReq
    BY <1>4, NothingAsked DEF LeaveTab
  <2>2. \A i \in ReqSlot : reqs'[i] = NoReq
    BY <1>4, <2>1, Values DEF LeaveTab
  <2>3. DraftInv' /\ SavedInv'
    BY <2>1, Values DEF DraftInv, SavedInv
  <2> QED
    BY <2>2, <2>3, Quiet
<1>5. CASE TypeTemplate
  <2>1. PICK t \in Template : Editing /\ Edit([form.draft EXCEPT !.tpl = t])
    BY <1>5 DEF TypeTemplate
  <2> DEFINE d == [form.draft EXCEPT !.tpl = t]
  <2>2. d \in Drafts /\ (d.clear => d.pw = "")
    BY <1>1 DEF Drafts, DraftInv
  <2> QED
    BY <2>1, <2>2, Edited
<1>6. CASE TypePassword
  <2>1. PICK p \in Password \cup {""} :
          Editing /\ ~form.draft.clear /\ Edit([form.draft EXCEPT !.pw = p])
    BY <1>6 DEF TypePassword
  <2> DEFINE d == [form.draft EXCEPT !.pw = p]
  <2>2. d \in Drafts /\ ~d.clear
    BY <1>1, <2>1 DEF Drafts
  <2> QED
    BY <2>1, <2>2, Edited
<1>7. CASE TickClear
  <2> DEFINE d == [form.draft EXCEPT !.clear = ~@, !.pw = ""]
  <2>1. Editing /\ Edit(d)
    BY <1>7 DEF TickClear
  <2>2. d \in Drafts /\ d.pw = ""
    BY <1>1 DEF Drafts
  <2> QED
    BY <2>1, <2>2, Edited
<1>8. CASE save
  <2> DEFINE r == [NoReq EXCEPT !.kind = "post", !.snap = form, !.tpl = form.draft.tpl,
                                !.pw = Posted(form.draft)]
  <2>1. /\ UNCHANGED <<broker, form, typed>> /\ form.kind = "draft" /\ Ask(r)
        /\ \A i \in ReqSlot : reqs[i] = NoReq
    BY <1>8, NothingAsked DEF save, Editing
  <2>2. DraftInv' /\ SavedInv'
    BY <1>1, <2>1 DEF DraftInv, SavedInv, Config
  <2>3. OneInv' /\ \A i \in ReqSlot : reqs'[i] = r \/ reqs'[i] = NoReq
    BY <1>1, <2>1, Alone
  <2>4. r.kind = "post" /\ r.snap = form /\ r.tpl = form.draft.tpl /\ r.pw = Posted(form.draft)
    BY Values DEF Reqs
  <2>5. \A i \in ReqSlot : ReqInv(reqs[i])'
    BY <2>1, <2>3, <2>4, Values DEF ReqInv
  <2> QED
    BY <2>2, <2>3, <2>5
<1>9. ASSUME NEW i \in ReqSlot, McReq(i)
      PROVE  OneInv' /\ DraftInv' /\ SavedInv' /\ \A j \in ReqSlot : ReqInv(reqs[j])'
  <2>1. CASE Serve(i)
    <3> DEFINE kind == IF reqs[i].kind = "load" THEN "loaded" ELSE "reread"
               r    == [reqs[i] EXCEPT !.cfg = Config, !.kind = kind]
    <3>1. reqs' = [reqs EXCEPT ![i] = r] /\ reqs[i].kind \in {"load", "read"}
          /\ UNCHANGED <<broker, form, body, typed>>
      BY <2>1 DEF Serve, Served
    <3>2. OneInv' /\ \A j \in ReqSlot : reqs'[j] = IF j = i THEN r ELSE NoReq
      BY <1>1, <3>1, Changed
    <3>3. r.kind = kind /\ r.cfg = Config /\ r.snap = reqs[i].snap
      BY <1>1 DEF Reqs
    <3>4. \/ kind = "loaded" /\ reqs[i].kind = "load"
          \/ kind = "reread" /\ reqs[i].kind = "read"
      BY <3>1
    <3> HIDE DEF r, kind
    <3>5. /\ r.kind \in {"load", "loaded"} => form'.kind = "null"
          /\ r.kind \in {"post", "read", "reread"} => r.snap = form' /\ form'.kind = "draft"
          /\ r.kind # "post"
          /\ r.kind = "reread" => r.cfg = Config'
      BY <1>1, <3>1, <3>3, <3>4 DEF ReqInv, Config
    <3>6. ASSUME NEW j \in ReqSlot PROVE ReqInv(reqs[j])'
      <4>1. CASE j = i
        BY <3>2, <3>5, <4>1 DEF ReqInv
      <4>2. CASE j # i
        BY <3>2, <4>2, Values DEF ReqInv
      <4> QED
        BY <4>1, <4>2
    <3>7. DraftInv' /\ SavedInv'
      BY <1>1, <3>1 DEF DraftInv, SavedInv, Config
    <3> QED
      BY <3>2, <3>6, <3>7
  <2>2. CASE LoadArrives(i)
    <3>1. /\ reqs[i].kind = "loaded" /\ form' = Fresh(reqs[i].cfg, FALSE) /\ Ended(i)
          /\ UNCHANGED <<broker, body, typed>>
      BY <2>2 DEF LoadArrives
    <3>2. typed = NoDraft
      BY <1>1, <3>1 DEF ReqInv, DraftInv
    <3>3. DraftInv' /\ SavedInv'
      BY <3>1, <3>2 DEF DraftInv, SavedInv, Fresh
    <3> QED
      BY <1>1, <3>1, <3>3, Last, Quiet
  <2>3. CASE LoadLost(i)
    <3>1. /\ reqs[i].kind = "load" /\ form' = LoadErr /\ Ended(i) /\ UNCHANGED <<broker, body, typed>>
      BY <2>3 DEF LoadLost
    <3>2. typed = NoDraft
      BY <1>1, <3>1 DEF ReqInv, DraftInv
    <3>3. DraftInv' /\ SavedInv'
      BY <3>1, <3>2, Values DEF DraftInv, SavedInv
    <3> QED
      BY <1>1, <3>1, <3>3, Last, Quiet
  <2>4. CASE PostApplied(i)
    <3>1. /\ reqs[i].kind = "post" /\ reqs[i].snap = form /\ form.kind = "draft" /\ typed' = typed
          /\ form.saved => broker' = broker
      BY <2>4, PostTaken DEF PostApplied
    <3>2. form.saved => form.cfg = Config' /\ broker'.tpl = broker.tpl
      BY <1>1, <3>1 DEF SavedInv, Config
    <3>3. CASE UNCHANGED <<form, body>> /\ reqs' = [reqs EXCEPT ![i].kind = "read"]
      <4> DEFINE r == [reqs[i] EXCEPT !.kind = "read"]
      <4>1. reqs' = [reqs EXCEPT ![i] = r] /\ form' = form
        BY <3>3
      <4>2. OneInv' /\ \A j \in ReqSlot : reqs'[j] = IF j = i THEN r ELSE NoReq
        BY <1>1, <3>1, <4>1, Changed
      <4>3. r.kind = "read" /\ r.snap = reqs[i].snap
        BY <1>1 DEF Reqs
      <4> HIDE DEF r
      <4>4. \A j \in ReqSlot : ReqInv(reqs[j])'
        BY <3>1, <4>1, <4>2, <4>3, Values DEF ReqInv
      <4>5. DraftInv' /\ SavedInv'
        BY <1>1, <3>1, <3>2, <4>1 DEF DraftInv, SavedInv
      <4> QED
        BY <4>2, <4>4, <4>5
    <3>4. CASE Failed(i)
      BY <1>1, <3>1, <3>2, <3>4, FailKeeps
    <3> QED
      BY <2>4, <3>3, <3>4 DEF PostApplied
  <2>5. CASE PostFails(i) \/ ReadLost(i)
    <3>1. /\ reqs[i].kind \in {"post", "read"} /\ Failed(i) /\ UNCHANGED <<broker, typed>>
      BY <2>5 DEF PostFails, ReadLost
    <3>2. form.saved => form.cfg = Config' /\ broker'.tpl = broker.tpl
      BY <1>1, <3>1 DEF SavedInv, Config
    <3> QED
      BY <1>1, <3>1, <3>2, FailKeeps
  <2>6. CASE ReadArrives(i)
    <3>1. /\ reqs[i].snap = form /\ form.kind = "draft" /\ form # NoForm /\ reqs[i].cfg = Config
          /\ reqs[i].kind = "reread"
      BY <1>1, <2>6, Values DEF ReadArrives, ReqInv
    <3>2. /\ form' = Fresh(Config, TRUE) /\ Ended(i) /\ UNCHANGED broker
          /\ typed' = IF typed = form.draft THEN NoDraft ELSE typed
      BY <2>6, <3>1 DEF ReadArrives
    <3>3. typed' = NoDraft
      BY <1>1, <3>1, <3>2 DEF DraftInv
    <3>4. DraftInv' /\ SavedInv'
      BY <3>2, <3>3 DEF DraftInv, SavedInv, Fresh, Config
    <3> QED
      BY <1>1, <3>1, <3>2, <3>4, Last, Quiet
  <2> QED
    BY <1>9, <2>1, <2>2, <2>3, <2>4, <2>5, <2>6 DEF McReq
<1>10. CASE UNCHANGED mcVars
  BY <1>1, <1>10 DEF mcVars, OneInv, DraftInv, SavedInv, ReqInv, Config
<1> QED
  BY <1>2, <1>3, <1>4, <1>5, <1>6, <1>7, <1>8, <1>9, <1>10 DEF McNext, McUser

\* McIInv is inductive for a user who waits.
THEOREM McInvariant ==
  ASSUME ~Hasty
  PROVE  McSpec => []McIInv
BY McInitial, McInductive, PTL DEF McSpec

\* mqtt-card.js: what the user typed stays in the form until it is saved, and "saved" is on
\* the button only while the form shows what the device has, for any templates and passwords.
THEOREM FormStaysTrue ==
  ASSUME ~Hasty
  PROVE  McSpec => []FormKept
<1>1. McIInv => FormKept
  <2> SUFFICES ASSUME McIInv PROVE DraftKept /\ SavedIsStored
    BY DEF FormKept
  <2>1. DraftKept
    <3>1. form.kind = "draft" \/ form.kind # "draft"
      OBVIOUS
    <3> QED
      BY <3>1 DEF McIInv, DraftInv, DraftKept
  <2>2. SavedIsStored
    BY DEF McIInv, SavedInv, SavedIsStored
  <2> QED
    BY <2>1, <2>2
<1> QED
  BY <1>1, McInvariant, PTL

\* mqtt-card.js:106: the stored password changes only to one that the user typed, or goes
\* because the user said so.
THEOREM PasswordStays ==
  ASSUME ~Hasty
  PROVE  McSpec => PasswordKept
<1> DEFINE Told == broker'.pw # broker.pw =>
                     \/ typed.pw = broker'.pw /\ typed.pw # "" /\ ~typed.clear
                     \/ typed.clear /\ broker'.pw = ""
<1>1. McIInv /\ [McNext]_mcVars => [Told]_mcVars
  <2> SUFFICES ASSUME McIInv, McNext PROVE Told
    OBVIOUS
  <2>1. CASE \E i \in ReqSlot : PostApplied(i)
    BY <2>1, PostTaken
  <2>2. CASE McUser \/ \E i \in ReqSlot : McReq(i) /\ ~PostApplied(i)
    <3>1. broker' = broker
      BY <2>2 DEF McUser, McReq, OpenCard, CloseCard, LeaveTab, TypeTemplate, TypePassword,
         TickClear, Edit, save, Serve, LoadArrives, LoadLost, PostFails, ReadArrives, ReadLost
    <3> QED
      BY <3>1
  <2> QED
    BY <2>1, <2>2 DEF McNext
<1> QED
  BY <1>1, McInvariant, PTL DEF McSpec, PasswordKept

-----------------------------------------------------------------------------
(* Manual.                                                                 *)

\* An edit keeps a project of its kind: tables, lists and stories stay what they are.
LEMMA MaInductive == MaTypeOK /\ [MaNext]_maVars => MaTypeOK'
<1> SUFFICES ASSUME MaTypeOK, [MaNext]_maVars PROVE MaTypeOK'
  OBVIOUS
<1>1. CASE TextEdited
  <2>1. PICK l \in LANGS, k \in Key, v \in Kind \cup {Missing} : tables' = [tables EXCEPT ![l][k] = v]
    BY <1>1 DEF TextEdited
  <2>2. tables' \in [LANGS -> Table]
    BY <2>1 DEF MaTypeOK, Table
  <2> QED
    BY <1>1, <2>2, ManualAssumption DEF MaTypeOK, TextEdited, MayEdit
<1>2. CASE AppEdited
  BY <1>2, ManualAssumption DEF MaTypeOK, AppEdited, MayEdit
<1>3. CASE CoverageEdited
  BY <1>3, ManualAssumption DEF MaTypeOK, CoverageEdited, MayEdit, PartList
<1>4. CASE StoryEdited
  <2>1. PICK l \in LANGS, i \in Story :
          \E new \in {NoStory}
                  \cup {[stories[l][i] EXCEPT !.screens = Flip(@, s), !.chapter = TRUE] : s \in Screen}
                  \cup {[stories[l][i] EXCEPT !.sections = Flip(@, s), !.chapter = TRUE] : s \in SECTIONS}
                  \cup {[stories[l][i] EXCEPT !.quotes = Flip(@, k), !.chapter = TRUE] : k \in Key}
                  \cup {stories[m][i] : m \in LANGS} :
            stories' = [stories EXCEPT ![l][i] = new]
    BY <1>4 DEF StoryEdited
  <2>2. \A m \in LANGS : stories[m][i] \in Text
    BY DEF MaTypeOK
  <2>3. ASSUME NEW st \in Text
        PROVE  /\ NoStory \in Text
               /\ \A s \in Screen : [st EXCEPT !.screens = Flip(@, s), !.chapter = TRUE] \in Text
               /\ \A s \in SECTIONS : [st EXCEPT !.sections = Flip(@, s), !.chapter = TRUE] \in Text
               /\ \A k \in Key : [st EXCEPT !.quotes = Flip(@, k), !.chapter = TRUE] \in Text
    BY DEF Text, NoStory, Flip
  <2>4. PICK new \in Text : stories' = [stories EXCEPT ![l][i] = new]
    BY <2>1, <2>2, <2>3
  <2>5. stories' \in [LANGS -> [Story -> Text]]
    BY <2>4 DEF MaTypeOK
  <2>6. MayEdit /\ UNCHANGED <<tables, ui, coverage>>
    BY <1>4 DEF StoryEdited
  <2>7. edits' \in 0..MaxEdits
    BY <2>6, ManualAssumption DEF MaTypeOK, MayEdit
  <2> QED
    BY <2>5, <2>6, <2>7 DEF MaTypeOK
<1>5. CASE UNCHANGED maVars
  BY <1>5 DEF MaTypeOK, maVars
<1> QED
  BY <1>1, <1>2, <1>3, <1>4, <1>5 DEF MaNext

\* docs/, spa/src/i18n/: whatever is edited, tables, coverage list and stories are of their
\* types, for any languages, keys, screens and number of edits.
THEOREM MaTypeCorrect == MaSpec => []MaTypeOK
<1>1. MaInit => MaTypeOK
  BY ManualAssumption DEF MaInit, MaTypeOK
<1> QED
  BY <1>1, MaInductive, PTL DEF MaSpec

\* A story of the original that is not refused in another language has the same screens,
\* sections and quotes there.
LEMMA SameStory ==
  ASSUME ~ manualProblem, NEW l \in LANGS, NEW i \in ids
  PROVE  /\ Has(l, i) /\ stories[l][i].screens = stories[Ref][i].screens
         /\ stories[l][i].quotes = stories[Ref][i].quotes
         /\ i \in Story /\ ~ parseProblem(stories[l][i]) /\ ~ renderProblem(l, stories[l][i])
<1>1. i \in Story /\ Has(Ref, i)
  BY DEF ids
<1>2. Has(l, i) /\ stories[l][i].screens = stories[Ref][i].screens
        /\ stories[l][i].quotes = stories[Ref][i].quotes
  <2>1. CASE l = Ref
    BY <1>1, <2>1
  <2>2. CASE l # Ref
    BY <2>2 DEF manualProblem, differs
  <2> QED
    BY <2>1, <2>2
<1> QED
  BY <1>1, <1>2 DEF manualProblem

\* docs/build.mjs: the checks of the build suffice for the coverage the manual promises.
LEMMA PartsDescribed == EveryPartDescribed
<1> SUFFICES ASSUME ~ manualProblem PROVE EveryPartDescribed
  BY DEF EveryPartDescribed
<1>1. ui = listed
  BY DEF manualProblem
<1>2. ASSUME NEW l \in LANGS, NEW p \in ui
      PROVE  \E i \in site(l), s \in COVERAGE :
               /\ p \in coverage[s] /\ s \in stories[l][i].screens
               /\ REQUIRED_SECTIONS \subseteq stories[l][i].sections
  <2>1. PICK s \in COVERAGE : p \in coverage[s]
    BY <1>1 DEF listed
  <2>2. PICK i \in ids : s \in stories[Ref][i].screens
    BY DEF manualProblem
  <2>3. /\ i \in site(l) /\ s \in stories[l][i].screens
        /\ REQUIRED_SECTIONS \subseteq stories[l][i].sections
    BY <2>2, SameStory DEF site, parseProblem
  <2> QED
    BY <2>1, <2>3
<1>3. \A s \in COVERAGE : coverage[s] \subseteq ui
  BY <1>1 DEF listed
<1> QED
  BY <1>2, <1>3 DEF EveryPartDescribed

\* docs/build.mjs: and for the labels.
LEMMA LabelsShown == LabelsOfTheDevice
<1> SUFFICES ASSUME ~ manualProblem PROVE LabelsOfTheDevice
  BY DEF LabelsOfTheDevice
<1>1. ASSUME NEW l \in LANGS, NEW i \in Story, Has(l, i)
      PROVE  i \in ids
  <2>1. CASE l = Ref
    BY <1>1, <2>1 DEF ids
  <2>2. CASE l # Ref
    BY <1>1, <2>2 DEF manualProblem
  <2> QED
    BY <2>1, <2>2
<1>2. ASSUME NEW l \in LANGS, NEW i \in Story, Has(l, i)
      PROVE  i \in site(l) /\ \A k \in stories[l][i].quotes : S(l, k).from = l
  <2>1. i \in ids
    BY <1>1, <1>2
  <2>2. \A k \in stories[l][i].quotes : tables[l][k] # Missing
    BY <2>1, SameStory DEF renderProblem
  <2> QED
    BY <1>2, <2>1, <2>2 DEF site, S
<1>3. ASSUME NEW l \in LANGS, NEW m \in LANGS, NEW i \in Story
      PROVE  stories[l][i].quotes = stories[m][i].quotes
  <2>1. CASE i \in ids
    BY <2>1, SameStory
  <2>2. CASE i \notin ids
    BY <1>1, <2>2 DEF Has
  <2> QED
    BY <2>1, <2>2
<1> QED
  BY <1>2, <1>3 DEF LabelsOfTheDevice

\* docs/build.mjs, i18n-check.mjs: a manual that builds describes every part of the app in
\* every language by the labels of the device, and an app that builds falls back to no other
\* language, for any languages, keys, screens, stories and edits.
THEOREM BuildsAreComplete == MaSpec => []ManualTrue
<1>1. OwnLanguage
  <2>1. ASSUME spaBuilds, NEW l \in LANGS, NEW k \in Key, tables[Ref][k] # Missing
        PROVE  S(l, k) = [from |-> l, kind |-> tables[Ref][k]]
    <3>1. CASE l = Ref
      BY <2>1, <3>1 DEF S
    <3>2. CASE l # Ref
      <4>1. <<l, k>> \in (LANGS \ {Ref}) \X Key
        BY <3>2
      <4>2. tables[l][k] = tables[Ref][k]
        BY <2>1, <4>1 DEF spaBuilds, checkLanguageTables
      <4> QED
        BY <2>1, <4>2 DEF S
    <3> QED
      BY <3>1, <3>2
  <2> QED
    BY <2>1 DEF OwnLanguage
<1>2. ManualTrue
  BY <1>1, PartsDescribed, LabelsShown DEF ManualTrue
<1> QED
  BY <1>2, PTL

-----------------------------------------------------------------------------
(* MCPages: the pages side by side.                                        *)

\* A behaviour of the instance is one of each page: the page in focus takes its own steps,
\* the others take none.
LEMMA PagesAreThemselves == PagesSpec => WzSpec /\ McSpec /\ MaSpec
<1>1. PagesInit => WzInit /\ McInit /\ MaInit
  BY DEF PagesInit
<1>2. ASSUME [PagesNext]_<<focus, wzVars, mcVars, maVars>>
      PROVE  [WzNext]_wzVars /\ [McNext]_mcVars /\ [MaNext]_maVars
  <2>1. CASE WzNext /\ UNCHANGED <<mcVars, maVars>>
    BY <2>1
  <2>2. CASE McNext /\ UNCHANGED <<wzVars, maVars>>
    BY <2>2
  <2>3. CASE MaNext /\ UNCHANGED <<wzVars, mcVars>>
    BY <2>3
  <2>4. CASE UNCHANGED <<wzVars, mcVars, maVars>>
    BY <2>4
  <2> QED
    BY <1>2, <2>1, <2>2, <2>3, <2>4 DEF PagesNext, AtBound
<1> QED
  BY <1>1, <1>2, PTL DEF PagesSpec, WzSpec, McSpec, MaSpec

\* main.js, mqtt-card.js, docs/build.mjs: each page in focus, and the others behind it, are of
\* their types, for any profiles, lines, templates, passwords and languages.
THEOREM PagesTypeCorrect == PagesSpec => []PagesTypeOK
<1>1. WzTypeOK /\ McTypeOK /\ MaTypeOK => PagesTypeOK
  BY DEF PagesTypeOK
<1> QED
  BY <1>1, PagesAreThemselves, WizardTypeCorrect, McTypeCorrect, MaTypeCorrect, PTL


\* docs/build.mjs, i18n-check.mjs: whatever is edited, in whatever order, a manual and an app
\* that build are complete in every language, beside pages that run.
THEOREM BuildsStayComplete == PagesSpec => []BuildsComplete
<1>1. ManualTrue => BuildsComplete
  BY DEF BuildsComplete
<1> QED
  BY <1>1, PagesAreThemselves, BuildsAreComplete, PTL
=============================================================================

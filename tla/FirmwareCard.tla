---------------------------- MODULE FirmwareCard ----------------------------
(***************************************************************************)
(* The firmware card of the Device tab (spa/src/live/firmware-card.js): an *)
(* upload from a file, an install from the release and a plain restart,    *)
(* all three ending in the wait for a device that has come back.  Each     *)
(* async function of the card is a flow: it goes on, awaiting one answer   *)
(* after another, while the user taps, leaves the tab and comes back (a    *)
(* new mount of the card, with a new phase), and while the device reboots, *)
(* rolls an image back or does not answer.                                 *)
(*                                                                         *)
(* Time runs in units of about five seconds: the head start of the wait    *)
(* (4 s) and its slack (5 s) are one unit each.                            *)
(***************************************************************************)
EXTENDS Integers, FiniteSets

CONSTANTS
  Image,          \* images as records [app, fw, build]; "" is a missing value
  Factory,        \* the image that runs when the page is loaded
  Release,        \* the image the release manifest offers
  File,           \* pickable files: [img, big, magic, desc, chip]
  OtaAuth,        \* an OTA password is set
  Patient,        \* the user does not tap while an earlier tap awaits its answer
  Misses,         \* missed polls in a row that are taken for the reboot (code: 3)
  MaxFlows,       \* bound: async functions in flight at once
  RestartTimeout, RebootTimeout, RelTimeout  \* in time units

ASSUME FirmwareAssumption ==
  /\ Factory \in Image /\ Release \in Image
  /\ \A i \in Image : DOMAIN i = {"app", "fw", "build"}
  /\ File \subseteq [img : Image, big : BOOLEAN, magic : BOOLEAN,
                     desc : BOOLEAN, chip : BOOLEAN]
  /\ OtaAuth \in BOOLEAN /\ Patient \in BOOLEAN
  /\ MaxFlows \in Nat \ {0} /\ Misses \in Nat \ {0}
  /\ {RestartTimeout, RebootTimeout, RelTimeout} \subseteq Nat \ {0}
  /\ \A t \in {RestartTimeout, RebootTimeout} : t <= RelTimeout

VARIABLES
  unit,     \* the device: [img, next, up, down, todo, offer]
  card,     \* the mounted card: [on, phase, rel, file, timer]
  flows     \* slot -> the async function running there

fwVars == <<unit, card, flows>>

Slots    == 1..MaxFlows
Slack    == 1
UpCap    == RelTimeout   \* older than any wait that can still succeed
Offers   == {"none", "checking", "available", "installing", "error"}
Busy     == {"upload", "download", "reboot", "restart"}
Phases   == Busy \cup {"idle", "picked", "done", "same", "failed", "rconfirm",
                       "confirm", "back", "lost"}
Sending  == {"picked", "upload"}   \* the phases that read the picked file
NoFile   == [img |-> Factory, big |-> FALSE, magic |-> FALSE, desc |-> FALSE,
             chip |-> FALSE]

NoFlow == [kind |-> "none", alive |-> FALSE, at |-> "", t |-> 0, before |-> Factory,
           want |-> Factory, missed |-> 0, fresh |-> FALSE]

NoCard == [on |-> FALSE, phase |-> "idle", rel |-> "null", file |-> NoFile, timer |-> "off"]

\* alive: the closure's own mount is on display.  fresh (history): the device has
\* booted since the flow's t0, or within the slack before it.
NewFlow(kind, at, want) ==
  [NoFlow EXCEPT !.kind = kind, !.alive = TRUE, !.at = at, !.want = want]

FwInit ==
  /\ unit = [img |-> Factory, next |-> Factory, up |-> UpCap, down |-> FALSE,
             todo |-> FALSE, offer |-> "none"]
  /\ card = NoCard
  /\ flows = [i \in Slots |-> NoFlow]

-----------------------------------------------------------------------------
(* Helpers *)

\* Starts an async function in the first free slot.
Start(flow) ==
  \E i \in Slots : /\ flows[i] = NoFlow
                   /\ \A j \in Slots : j < i => flows[j] # NoFlow
                   /\ flows' = [flows EXCEPT ![i] = flow]

\* A flow that still has a request to make, which the device will see.
Asking(f) == f.at \in {"status", "send"}

End(i)   == flows' = [flows EXCEPT ![i] = NoFlow]

Go(i, g) == flows' = [flows EXCEPT ![i] = IF g.alive \/ Asking(g) THEN g ELSE NoFlow]

\* A setState of an unmounted card changes nothing.
SetPhase(f, p) ==
  card' = IF f.alive THEN [card EXCEPT !.phase = p, !.file = IF p \in Sending THEN @ ELSE NoFile]
          ELSE card
SetRel(f, r)   == card' = IF f.alive THEN [card EXCEPT !.rel = r] ELSE card

\* Mutant: an install under way is shown as a state of the release part.
Shown_Raw(offer) == IF offer \in {"none", "error"} THEN "again" ELSE offer

\* What the release part shows of the device's state: the offer, a spinner, or
\* a button to check again; nothing while an install runs.
Shown(offer) == CASE offer \in {"none", "error"} -> "again"
                  [] offer = "installing" -> "null"
                  [] OTHER -> offer

\* /api/update exists on the image that runs.
HasUpdate == ~unit.down /\ unit.img.fw # ""

Inspect(file) ==
  IF file.big THEN "fwTooBig"
  ELSE IF ~file.magic THEN "fwNotImage"
  ELSE IF ~file.desc THEN "fwFactory"
  ELSE IF ~file.chip THEN "fwWrongChip"
  ELSE "ok"

Limit(f) == CASE f.kind = "restart" -> RestartTimeout
              [] f.kind = "upload"  -> RebootTimeout
              [] OTHER              -> RelTimeout

Timed(f)   == f.at \in {"poll", "wait"} /\ f.kind # "check"
Expired(f) == f.t >= Limit(f)

-----------------------------------------------------------------------------
(* The device, as the card's requests find it *)

GoDown ==
  /\ ~unit.down /\ unit.todo
  /\ unit' = [unit EXCEPT !.down = TRUE, !.todo = FALSE]
  /\ UNCHANGED <<card, flows>>

\* The new image comes up, or the boot loader falls back to the one before it.
ComeUp ==
  /\ unit.down
  /\ \E img \in {unit.next, unit.img} :
       unit' = [img |-> img, next |-> img, up |-> 0, down |-> FALSE,
                todo |-> FALSE, offer |-> "none"]
  /\ flows' = [i \in Slots |-> [flows[i] EXCEPT !.fresh = Timed(flows[i])]]
  /\ UNCHANGED card

\* Another phone, the button or Home Assistant restarts the device.
OtherRestart ==
  /\ ~unit.down /\ ~unit.todo
  /\ unit' = [unit EXCEPT !.todo = TRUE]
  /\ UNCHANGED <<card, flows>>

\* A check ends; after its time-out ("error") the answer may still arrive.
CheckEnds ==
  /\ ~unit.down /\ unit.offer \in {"checking", "error"}
  /\ \E o \in {"none", "available", "error"} :
       /\ unit.offer = "error" => o # "error"
       /\ o = "available" => unit.img # Release
       /\ unit' = [unit EXCEPT !.offer = o]
  /\ UNCHANGED <<card, flows>>

\* The download ends in a reboot, in an error, or was never begun because the
\* entity had nothing on offer any more when the deferred call ran.
InstallEnds ==
  /\ ~unit.down /\ unit.offer = "installing"
  /\ \/ unit' = [unit EXCEPT !.next = Release, !.todo = TRUE]
     \/ \E o \in {"error", "none"} : unit' = [unit EXCEPT !.offer = o]
  /\ ~unit.todo
  /\ UNCHANGED <<card, flows>>

DeviceStep == GoDown \/ ComeUp \/ OtherRestart \/ CheckEnds \/ InstallEnds

-----------------------------------------------------------------------------
(* The user *)

\* The Device tab is opened: the card mounts and reads the last check.
Enter ==
  /\ ~card.on
  /\ card' = [card EXCEPT !.on = TRUE]
  /\ Start(NewFlow("mount", "ask", Release))
  /\ UNCHANGED unit

\* Another tab: the card's state and its timer are gone.  Its flows go on, but
\* without a card to set they only matter while a request of theirs is to come.
Leave ==
  /\ card.on
  /\ card' = NoCard
  /\ flows' = [i \in Slots |-> IF Asking(flows[i]) THEN [flows[i] EXCEPT !.alive = FALSE]
                                ELSE NoFlow]
  /\ UNCHANGED unit

Waiting == \E i \in Slots : flows[i].alive /\ flows[i].at = "status"

MayTap(from) == card.on /\ card.phase \in from /\ (Patient => ~Waiting)
Tap(from, new) == MayTap(from) /\ card' = new /\ UNCHANGED unit

Pick ==
  /\ \E f \in File : Tap({"idle"}, [card EXCEPT !.file = f, !.phase = "picked"])
  /\ UNCHANGED flows

\* Cancel: reset() in three phases, the two confirmations also stop their timer.
Cancel ==
  /\ \/ Tap({"picked", "failed", "lost"}, [card EXCEPT !.file = NoFile, !.phase = "idle"])
     \/ Tap({"confirm", "rconfirm"}, [card EXCEPT !.timer = "off", !.phase = "idle"])
  /\ UNCHANGED flows

askRestart ==
  /\ Tap({"idle"}, [card EXCEPT !.phase = "confirm", !.timer = "confirm"])
  /\ UNCHANGED flows

askRelease ==
  /\ card.rel = "available"
  /\ Tap({"idle"}, [card EXCEPT !.phase = "rconfirm", !.timer = "rconfirm"])
  /\ UNCHANGED flows

\* The confirmation takes itself back, unless the phase has moved on.
TimerFires ==
  /\ card.on /\ card.timer # "off"
  /\ card' = [card EXCEPT !.timer = "off",
                          !.phase = IF @ = card.timer THEN "idle" ELSE @]
  /\ UNCHANGED <<unit, flows>>

\* Both installs first await /api/status; until it answers the phase, and so
\* the buttons, stay as they were.
install ==
  /\ Inspect(card.file) = "ok"
  /\ Tap({"picked"}, card)
  /\ Start(NewFlow("upload", "status", card.file.img))

installRelease ==
  /\ Tap({"rconfirm"}, [card EXCEPT !.timer = "off"])
  /\ Start(NewFlow("release", "status", Release))

\* POST /api/reboot: done, or lost on the way.  An error is kept for the message
\* and the card waits in either case.
restart ==
  /\ MayTap({"confirm"})
  /\ card' = [card EXCEPT !.timer = "off", !.phase = "restart"]
  /\ Start([NewFlow("restart", "wait", Factory) EXCEPT !.fresh = unit.up < Slack])
  /\ \/ ~unit.down /\ unit' = [unit EXCEPT !.todo = TRUE]
     \/ UNCHANGED unit

\* POST /api/update/check: a check begins, none does (one ran less than a minute
\* ago, or an install runs).  A request that fails changes nothing shown here.
checkRelease ==
  /\ card.rel = "again" /\ MayTap({"idle"})
  /\ HasUpdate
  /\ card' = [card EXCEPT !.rel = "checking"]
  /\ Start(NewFlow("check", "poll", Release))
  /\ \/ unit.offer # "installing" /\ unit' = [unit EXCEPT !.offer = "checking"]
     \/ UNCHANGED unit

UserStep == \/ Enter \/ Leave \/ Pick \/ Cancel \/ askRestart \/ askRelease
            \/ install \/ installRelease \/ restart \/ checkRelease

-----------------------------------------------------------------------------
(* The async functions, one action per answer awaited.  A POST answered at once *)
(* is one step with what leads to it.                                           *)

\* What await api.status() before an install resolves to: the image that runs,
\* or the one of the status the page was loaded with.
Before == {Factory} \cup (IF unit.down THEN {} ELSE {unit.img})

UploadBegins(i) == LET f == flows[i] IN
  /\ f.kind = "upload" /\ f.at = "status"
  /\ \E img \in Before : Go(i, [f EXCEPT !.before = img, !.at = "send"])
  /\ SetPhase(f, "upload")
  /\ UNCHANGED unit

\* The upload is accepted: the image is the one to boot and the device restarts.
\* The answer may be lost with the connection.
UploadAccepted(i) == LET f == flows[i] IN
  /\ f.kind = "upload" /\ f.at = "send" /\ ~unit.down
  /\ unit' = [unit EXCEPT !.next = f.want, !.todo = TRUE]
  /\ \/ /\ Go(i, [f EXCEPT !.at = "wait", !.fresh = unit.up < Slack])
        /\ SetPhase(f, "reboot")
     \/ End(i) /\ SetPhase(f, "failed")

\* 401, "Update Failed!", a lost connection or the time-out.
UploadRefused(i) == LET f == flows[i] IN
  /\ f.kind = "upload" /\ f.at = "send"
  /\ \/ SetPhase(f, "failed")
     \/ OtaAuth /\ ~unit.down /\ SetPhase(f, "picked")
  /\ End(i)
  /\ UNCHANGED unit

\* POST /api/update/install is taken: the install is followed, unless the answer
\* was lost.
InstallTaken(i) == LET f == flows[i] IN
  /\ f.kind = "release" /\ f.at = "status" /\ HasUpdate /\ unit.offer = "available"
  /\ unit' = [unit EXCEPT !.offer = "installing"]
  /\ \/ /\ \E img \in Before :
             Go(i, [f EXCEPT !.before = img, !.at = "poll", !.fresh = unit.up < Slack])
        /\ SetPhase(f, "download")
     \/ Go(i, [NewFlow("read", "ask", Release) EXCEPT !.alive = f.alive]) /\ SetPhase(f, "failed")

\* 401 returns to the confirmation, without a timer; after 409 or a failure the
\* card reads again what the device has to offer.
InstallRefused(i) == LET f == flows[i] IN
  /\ f.kind = "release" /\ f.at = "status"
  /\ \/ OtaAuth /\ HasUpdate /\ End(i) /\ SetPhase(f, "rconfirm")
     \/ Go(i, [NewFlow("read", "ask", Release) EXCEPT !.alive = f.alive]) /\ SetPhase(f, "failed")
  /\ UNCHANGED unit

\* GET /api/update on mount: an install that already runs is followed.
MountRead(i) == LET f == flows[i] IN
  /\ f.kind = "mount" /\ f.at = "ask"
  /\ \/ HasUpdate /\ f.alive /\ unit.offer = "installing"
        /\ card' = [card EXCEPT !.rel = Shown(unit.offer), !.phase = "download"]
        /\ Go(i, [f EXCEPT !.kind = "follow", !.at = "poll", !.fresh = unit.up < Slack])
     \/ HasUpdate /\ unit.offer # "installing" /\ SetRel(f, Shown(unit.offer)) /\ End(i)
     \/ (~f.alive \/ unit.down \/ ~HasUpdate) /\ End(i) /\ UNCHANGED card
  /\ UNCHANGED unit

\* ... and after a refused install.
ReadAgain(i) == LET f == flows[i] IN
  /\ f.kind = "read" /\ f.at = "ask"
  /\ SetRel(f, IF HasUpdate THEN Shown(unit.offer) ELSE "null") /\ End(i)
  /\ UNCHANGED unit

\* One poll of followInstall: progress, an error, or the end of the download.
FollowPoll(i) == LET f == flows[i] IN
  /\ f.kind \in {"release", "follow"} /\ f.at = "poll" /\ HasUpdate
  /\ IF ~f.alive THEN End(i) /\ UNCHANGED card
     ELSE CASE unit.offer = "installing" ->
                 Go(i, [f EXCEPT !.missed = 0]) /\ UNCHANGED card
            [] unit.offer = "error" ->
                 End(i) /\ card' = [card EXCEPT !.rel = "again", !.phase = "failed"]
            [] OTHER -> Go(i, [f EXCEPT !.at = "wait", !.missed = 0]) /\ SetPhase(f, "reboot")
  /\ UNCHANGED unit

\* A missed poll; the third in a row, or the time-out, is taken for the reboot.
FollowMissed(i) == LET f == flows[i] IN
  /\ f.kind \in {"release", "follow"} /\ f.at = "poll"
  /\ IF ~f.alive THEN End(i) /\ UNCHANGED card
     ELSE IF f.missed = Misses - 1 \/ Expired(f)
          THEN Go(i, [f EXCEPT !.at = "wait", !.missed = 0]) /\ SetPhase(f, "reboot")
          ELSE Go(i, [f EXCEPT !.missed = @ + 1]) /\ UNCHANGED card
  /\ UNCHANGED unit

\* Polled until it is no longer "checking", for a little over the device's own
\* time-out: an error then.
CheckPoll(i) == LET f == flows[i] IN
  /\ f.kind = "check" /\ f.at = "poll"
  /\ \/ HasUpdate /\ SetRel(f, Shown(unit.offer))
        /\ IF f.alive /\ unit.offer = "checking" THEN UNCHANGED flows ELSE End(i)
     \/ SetRel(f, "again") /\ End(i)
  /\ UNCHANGED unit

\* Mutant: any answer after the head start is taken for the restarted device's.
IsBack_Answers(f) == f.t >= 1 /\ ~unit.down

\* waitForReboot(): after the head start, the first status younger than the wait.
IsBack(f) == f.t >= 1 /\ ~unit.down /\ unit.up < f.t + Slack

\* Mutant: an upload is judged by whether the image has changed.
Outcome_Changed(f) ==
  CASE f.kind = "restart" -> "back"
    [] f.kind = "upload"  -> IF unit.img.app = f.before.app THEN "same" ELSE "done"
    [] OTHER -> IF unit.img.fw = f.want.fw THEN "done" ELSE "same"

\* Which image came up: what was uploaded or asked for, by its hash or version;
\* by the build time when the image is too old to tell.
Outcome(f) ==
  CASE f.kind = "restart" -> "back"
    [] f.kind = "upload"  ->
         IF unit.img.app # "" THEN IF unit.img.app = f.want.app THEN "done" ELSE "same"
         ELSE IF unit.img.build = f.before.build THEN "same" ELSE "done"
    [] OTHER ->
         IF unit.img.fw # "" THEN IF unit.img.fw = f.want.fw THEN "done" ELSE "same"
         ELSE IF f.kind = "release" /\ unit.img.app = f.before.app THEN "same" ELSE "done"

Back(i) == LET f == flows[i] IN
  /\ f.kind \in {"restart", "upload", "release", "follow"} /\ f.at = "wait"
  /\ IsBack(f) /\ ~Expired(f)
  /\ card' = IF ~f.alive THEN card
             ELSE [card EXCEPT !.phase = Outcome(f),
                     !.rel = IF f.kind \in {"release", "follow"} THEN "null" ELSE @]
  /\ End(i)
  /\ UNCHANGED unit

\* Mutant: a wait that ends without the device says nothing.
NotBack_Silent(i) == LET f == flows[i] IN
  /\ f.at = "wait" /\ Expired(f)
  /\ End(i)
  /\ UNCHANGED <<card, unit>>

NotBack(i) == LET f == flows[i] IN
  /\ f.at = "wait" /\ Expired(f)
  /\ SetPhase(f, IF f.kind = "restart" THEN "lost" ELSE "failed")
  /\ End(i)
  /\ UNCHANGED unit

FlowStep(i) ==
  /\ flows[i] # NoFlow
  /\ \/ UploadBegins(i) \/ UploadAccepted(i) \/ UploadRefused(i) \/ InstallTaken(i)
     \/ InstallRefused(i) \/ MountRead(i) \/ ReadAgain(i) \/ FollowPoll(i)
     \/ FollowMissed(i) \/ CheckPoll(i)
     \/ Back(i) \/ NotBack(i)

\* One unit of time; a flow at its limit ends before time goes on.
Tick ==
  /\ \A i \in Slots : Timed(flows[i]) => ~Expired(flows[i])
  /\ unit' = [unit EXCEPT !.up = IF @ = UpCap \/ unit.down THEN @ ELSE @ + 1]
  /\ flows' = [i \in Slots |-> IF Timed(flows[i])
                               THEN [flows[i] EXCEPT !.t = @ + 1] ELSE flows[i]]
  /\ UNCHANGED card
  /\ fwVars' # fwVars

FwNext == DeviceStep \/ UserStep \/ TimerFires \/ Tick \/ \E i \in Slots : FlowStep(i)

\* Timers fire and every awaited answer comes or fails; the device need not come
\* back and the user need not tap.
FwFairness == /\ WF_fwVars(TimerFires) /\ WF_fwVars(Tick)
              /\ \A i \in Slots : WF_fwVars(FlowStep(i))

FwSpec == FwInit /\ [][FwNext]_fwVars /\ FwFairness

-----------------------------------------------------------------------------
(* Properties *)

\* Type correctness of the card, its flows and the device.
FwTypeOK ==
  /\ unit \in [img : Image, next : Image, up : 0..UpCap, down : BOOLEAN,
               todo : BOOLEAN, offer : Offers]
  /\ card \in [on : BOOLEAN, phase : Phases, rel : {"null", "again", "checking", "available"},
               file : File \cup {NoFile}, timer : {"off", "confirm", "rconfirm"}]
  /\ flows \in [Slots -> [kind : {"none", "mount", "read", "check", "restart", "upload",
                                  "release", "follow"},
                          alive : BOOLEAN, at : {"", "ask", "status", "send", "poll", "wait"},
                          t : 0..RelTimeout, before : Image, want : Image,
                          missed : 0..(Misses - 1), fresh : BOOLEAN]]

\* Flow i ends its wait in this step and the card says so.
Concludes(i) == /\ flows[i].at = "wait" /\ flows[i].alive /\ flows'[i] = NoFlow
                /\ card'.on /\ card'.phase # card.phase

\* "The device is back" is only ever said of a device that did restart after
\* the tap (or had booted within the slack of the clock comparison).
BackMeansRestarted ==
  [][\A i \in Slots : Concludes(i) /\ card'.phase \in {"back", "done", "same"}
                      => flows[i].fresh]_fwVars

\* "Update installed" is never shown for a device that runs another image than
\* the one asked for, and "same image" never when it does run: except that an
\* image too old to report its hash is told by its build time alone.
VerdictRight ==
  [][\A i \in Slots : LET f == flows[i] IN Concludes(i) =>
       /\ card'.phase = "done" => \/ unit.img = f.want
                                  \/ unit.img.app = "" /\ unit.img # f.before
       /\ card'.phase = "same" => \/ unit.img # f.want
                                  \/ unit.img.app = "" /\ unit.img.build = f.before.build]_fwVars

\* Every busy phase ends (the card is held open meanwhile), whatever the device does.
BusyEnds == card.on /\ card.phase \in Busy ~> ~(card.on /\ card.phase \in Busy)
=============================================================================

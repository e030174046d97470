----------------------------- MODULE MqttClient -----------------------------
(***************************************************************************)
(* The MQTT client (mqtt.cpp): a POST on the httpd task hands compiled     *)
(* settings to the loop task, which starts, stops and feeds the client;    *)
(* the client's own task reports events and sends what was queued; a       *)
(* client that is given up is torn down on a task of its own.  The broker  *)
(* keeps the retained availability message and publishes the last will.    *)
(*                                                                         *)
(* Clients are numbered in the order they are created.  Queued messages    *)
(* other than "online" are left out: a full outbox shows as an enqueue     *)
(* that is refused.  There is one broker; of the connection settings the   *)
(* identifier and the availability topic are kept.                         *)
(***************************************************************************)
EXTENDS Integers, Sequences, FiniteSets

CONSTANTS
  Topics,       \* availability topics
  Ids,          \* client identifiers
  Offered,      \* settings that are stored or posted
  Uploads,      \* meter profiles that are posted
  MaxPosts,     \* bound: settings posted
  MaxMeters,    \* bound: meter profiles posted
  MaxLosses,    \* bound: connections that break, and restarts
  MaxClients    \* bound: clients created

NoTopic == ""                        \* avail_topic left empty
Templates == {"any", "named"}        \* "named" uses a register only "full" has
Settings == [enabled : BOOLEAN, topic : Topics \cup {NoTopic}, id : Ids, tpl : Templates]

Profiles == {"full", "bare"}

ASSUME OfferedAssumption == Offered \subseteq Settings /\ Uploads \subseteq Profiles
ASSUME BoundsAssumption == {MaxPosts, MaxMeters, MaxLosses, MaxClients} \subseteq Nat

Fits(tpl, p) == tpl = "any" \/ p = "full"

Clients == 1 .. MaxClients
NoClient == 0
NoRun == [set |-> {}]                \* mqtt_run_ empty

VARIABLES
  \* httpd: mqtt_cfg_, the handover slot; the meter profile and desc_gen_
  cfg, pendingSet, pendingRun, pendingReconnect, profile, gen,
  \* loop: point in mqtt_service_, mqtt_run_, reconnect, mqtt_tpl_err_,
  \* mqtt_client_, and the generations of the latest message
  pass, run, reconnect, tplErr, client, shot,
  \* atomics the event handler writes: mqtt_state_, mqtt_online_due_; and where
  \* the handler of each client is once it has found itself the current one
  state, onlineDue, handler,
  \* tear-down tasks: whom they stop, and at which point; mqtt_stopping_
  stopArgs, stopping,
  \* flash and the saves deferred to the loop
  nvs, unsaved,
  \* esp-mqtt, per client: connection, settings it was created with, "online"s
  \* in its outbox
  link, conn, queued,
  \* broker: whose session each identifier has, the retained availability
  session, retained,
  \* history: clients so far; whether the current connection was announced or
  \* the outbox refused it; topics whose latest "online" came from a client that
  \* was already being stopped; the bounds
  created, said, refused, late, posts, meters, losses

httpd == <<cfg, pendingSet, pendingRun, pendingReconnect, profile, gen>>
loop == <<pass, run, reconnect, tplErr, client, shot>>
events == <<state, onlineDue, handler>>
stop == <<stopArgs, stopping>>
flash == <<nvs, unsaved>>
net == <<link, conn, queued, session, retained>>
history == <<created, said, refused, late>>
bounds == <<posts, meters, losses>>
mqVars == <<httpd, loop, events, stop, flash, net, history, bounds>>

Runs == [cfg : Settings, gen : 0 .. MaxMeters, ok : BOOLEAN] \cup {NoRun}

MqTypeOK ==
  /\ cfg \in Settings /\ nvs \in Settings /\ unsaved \in Seq(Settings)
  /\ pendingSet \in BOOLEAN /\ pendingReconnect \in BOOLEAN /\ pendingRun \in Runs
  /\ profile \in Profiles /\ gen \in 0 .. MaxMeters
  /\ pass \in {"idle", "manage", "stop", "compile", "announce", "publish"}
  /\ run \in Runs /\ reconnect \in BOOLEAN /\ tplErr \in BOOLEAN
  /\ client \in Clients \cup {NoClient} /\ shot \in [tpl : Nat, values : Nat]
  /\ state \in {"off", "connecting", "connected"} /\ onlineDue \in BOOLEAN
  /\ handler \in [Clients -> {"none", "connected", "due", "disconnected"}]
  /\ stopArgs \subseteq [client : Clients, online : BOOLEAN, told : BOOLEAN]
  /\ stopping \in Nat
  /\ link \in [Clients -> {"none", "connecting", "up", "broken", "gone"}]
  /\ conn \in [Clients -> Settings] /\ queued \in [Clients -> Nat]
  /\ session \in [Ids -> Clients \cup {NoClient}]
  /\ retained \in [Topics -> {"none", "online", "offline"}]
  /\ created \in 0 .. MaxClients /\ said \in BOOLEAN /\ refused \in BOOLEAN
  /\ late \subseteq Topics

\* mqtt_compile_
Compiled(s) == [cfg |-> s, gen |-> gen, ok |-> Fits(s.tpl, profile)]

MqInit ==
  /\ profile = "full" /\ gen = 0
  /\ nvs \in Offered /\ unsaved = <<>>
  /\ cfg = nvs /\ run = (IF nvs.enabled THEN Compiled(nvs) ELSE NoRun) /\ tplErr = FALSE
  /\ pendingSet = FALSE /\ pendingRun = NoRun /\ pendingReconnect = FALSE
  /\ pass = "idle" /\ reconnect = FALSE /\ client = NoClient
  /\ shot = [tpl |-> 0, values |-> 0]
  /\ state = "off" /\ onlineDue = FALSE /\ handler = [c \in Clients |-> "none"]
  /\ stopArgs = {} /\ stopping = 0
  /\ link = [c \in Clients |-> "none"] /\ conn = [c \in Clients |-> nvs]
  /\ queued = [c \in Clients |-> 0]
  /\ session = [i \in Ids |-> NoClient] /\ retained = [t \in Topics |-> "none"]
  /\ created = 0 /\ said = FALSE /\ refused = FALSE /\ late = {}
  /\ posts = 0 /\ meters = 0 /\ losses = 0

-----------------------------------------------------------------------------
(* The httpd task.                                                         *)

ConnDiffers(a, b) == a.enabled # b.enabled \/ a.topic # b.topic \/ a.id # b.id

\* Mutant: whether to reconnect is decided by the latest POST alone.
Reconnects_Latest(s) == ConnDiffers(cfg, s)
Reconnects(s) == pendingReconnect \/ ConnDiffers(cfg, s)

\* handle_mqtt_post_ with settings that compile; others are refused.
PostSettings(s) ==
  /\ posts < MaxPosts /\ posts' = posts + 1
  /\ Fits(s.tpl, profile)
  /\ pendingReconnect' = Reconnects(s)
  /\ cfg' = s
  /\ pendingRun' = IF s.enabled THEN Compiled(s) ELSE NoRun
  /\ pendingSet' = TRUE
  /\ unsaved' = Append(unsaved, s)
  /\ UNCHANGED <<profile, gen, loop, events, stop, nvs, net, history, meters, losses>>

\* apply_meter_json_: another profile.
PostMeter(p) ==
  /\ meters < MaxMeters /\ meters' = meters + 1
  /\ profile' = p /\ gen' = gen + 1
  /\ UNCHANGED <<cfg, pendingSet, pendingRun, pendingReconnect,
                 loop, events, stop, flash, net, history, posts, losses>>

-----------------------------------------------------------------------------
(* The loop task: deferred saves and mqtt_service_.                        *)

Save ==
  /\ pass = "idle" /\ unsaved # <<>>
  /\ nvs' = Head(unsaved) /\ unsaved' = Tail(unsaved)
  /\ UNCHANGED <<httpd, loop, events, stop, net, history, bounds>>

\* The handover, under mqtt_mutex_.
TakePending ==
  /\ pass = "idle" /\ pass' = "manage"
  /\ IF pendingSet
     THEN /\ run' = pendingRun /\ reconnect' = pendingReconnect /\ tplErr' = FALSE
          /\ pendingRun' = NoRun /\ pendingSet' = FALSE /\ pendingReconnect' = FALSE
     ELSE /\ reconnect' = FALSE
          /\ UNCHANGED <<run, tplErr, pendingRun, pendingSet, pendingReconnect>>
  /\ UNCHANGED <<cfg, profile, gen, client, shot, events, stop, flash, net, history, bounds>>

\* mqtt_stop_ takes the client away from the event handler ...
StopClient ==
  /\ pass = "manage" /\ client # NoClient /\ (reconnect \/ run = NoRun)
  /\ pass' = "stop"
  /\ stopArgs' = stopArgs \cup {[client |-> client, online |-> FALSE, told |-> FALSE]}
  /\ client' = NoClient /\ reconnect' = FALSE
  /\ UNCHANGED <<httpd, run, tplErr, shot, events, stopping, flash, net, history, bounds>>

SaysOffline == state = "connected"

\* ... and hands it to a tear-down task of its own.
HandOver(a) ==
  /\ pass = "stop" /\ a.client = created
  /\ stopArgs' = (stopArgs \ {a}) \cup {[a EXCEPT !.online = SaysOffline]}
  /\ stopping' = stopping + 1
  /\ state' = "off" /\ onlineDue' = FALSE
  /\ pass' = "manage"
  /\ UNCHANGED <<httpd, run, reconnect, tplErr, client, shot, handler, flash, net, history, bounds>>

\* No Wi-Fi, a retry that has to wait, a client still being stopped, or MQTT off.
PassWithoutClient ==
  /\ pass = "manage" /\ client = NoClient
  /\ pass' = "idle"
  /\ UNCHANGED <<httpd, run, reconnect, tplErr, client, shot, events, stop, flash, net, history, bounds>>

\* Mutant: the new client does not wait for the old one's "offline".
MayStart_AtOnce == TRUE
MayStart == stopping = 0

\* mqtt_start_; the settings are copied into the client.
StartClient ==
  /\ pass = "manage" /\ client = NoClient /\ run # NoRun /\ MayStart
  /\ created < MaxClients /\ created' = created + 1
  /\ link' = [link EXCEPT ![created'] = "connecting"]
  /\ conn' = [conn EXCEPT ![created'] = run.cfg]
  /\ client' = created' /\ state' = "connecting"
  /\ said' = FALSE /\ refused' = FALSE
  /\ pass' = "idle"
  /\ UNCHANGED <<httpd, run, reconnect, tplErr, shot, onlineDue, handler, stop, flash,
                 queued, session, retained, late, bounds>>

\* mqtt_start_ with esp_mqtt_client_init or _start failing.
StartFails ==
  /\ pass = "manage" /\ client = NoClient /\ run # NoRun /\ MayStart
  /\ state' = "off" /\ pass' = "idle"
  /\ UNCHANGED <<httpd, run, reconnect, tplErr, client, shot, onlineDue, handler, stop,
                 flash, net, history, bounds>>

KeepClient ==
  /\ pass = "manage" /\ client # NoClient /\ ~ reconnect /\ run # NoRun
  /\ pass' = "compile"
  /\ UNCHANGED <<httpd, run, reconnect, tplErr, client, shot, events, stop, flash, net, history, bounds>>

\* The templates are compiled again after a change of the profile.
CompileTemplates ==
  /\ pass = "compile" /\ pass' = "announce"
  /\ IF gen # run.gen
     THEN run' = Compiled(run.cfg) /\ tplErr' = ~ run'.ok
     ELSE UNCHANGED <<run, tplErr>>
  /\ UNCHANGED <<httpd, reconnect, client, shot, events, stop, flash, net, history, bounds>>

Announces == onlineDue /\ state = "connected" /\ run.cfg.topic # NoTopic

\* "online" once per connection, after the event handler asked for it.
Announce ==
  /\ pass = "announce" /\ pass' = "publish"
  /\ onlineDue' = FALSE
  /\ \/ Announces /\ queued' = [queued EXCEPT ![client] = @ + 1] /\ UNCHANGED refused
     \/ Announces /\ refused' = TRUE /\ UNCHANGED queued
     \/ ~ Announces /\ UNCHANGED <<queued, refused>>
  /\ UNCHANGED <<httpd, run, reconnect, tplErr, client, shot, state, handler, stop, flash,
                 link, conn, session, retained, created, said, late, bounds>>

StillCompiled == gen = run.gen

\* The values are copied under mutex_, rendered and queued.
Publish ==
  /\ pass = "publish" /\ pass' = "idle"
  /\ run.ok /\ StillCompiled
  /\ shot' = [tpl |-> run.gen, values |-> gen]
  /\ UNCHANGED <<httpd, run, reconnect, tplErr, client, events, stop, flash, net, history, bounds>>

\* The period has not passed, the meter is silent, or the templates do not fit.
SkipPublish ==
  /\ pass = "publish" /\ pass' = "idle"
  /\ UNCHANGED <<httpd, run, reconnect, tplErr, client, shot, events, stop, flash, net, history, bounds>>

-----------------------------------------------------------------------------
(* The tear-down task: stop_client.                                        *)

\* The blocking "offline" of a client that was connected when it was stopped.
SayOffline(a) ==
  /\ pass # "stop" /\ ~ a.told
  /\ stopArgs' = (stopArgs \ {a}) \cup {[a EXCEPT !.told = TRUE]}
  /\ retained' = [t \in Topics |->
                    IF a.online /\ conn[a.client].topic = t /\ link[a.client] = "up"
                    THEN "offline" ELSE retained[t]]
  /\ UNCHANGED <<httpd, loop, events, stopping, flash,
                 link, conn, queued, session, history, bounds>>

\* esp_mqtt_client_destroy: a clean DISCONNECT, which costs the broker the will,
\* and the end of the client's task.
Destroy(a) ==
  /\ a.told /\ handler[a.client] = "none"
  /\ stopArgs' = stopArgs \ {a} /\ stopping' = stopping - 1
  /\ session' = [i \in Ids |-> IF session[i] = a.client /\ link[a.client] = "up"
                               THEN NoClient ELSE session[i]]
  /\ link' = [link EXCEPT ![a.client] = "gone"]
  /\ queued' = [queued EXCEPT ![a.client] = 0]
  /\ UNCHANGED <<httpd, loop, events, flash, conn, retained, history, bounds>>

-----------------------------------------------------------------------------
(* esp-mqtt and the broker.                                                *)

\* mqtt_event_ past its check of the client, one atomic at a time.
Handle(c) ==
  /\ \/ handler[c] = "connected" /\ state' = "connected"
        /\ handler' = [handler EXCEPT ![c] = "due"] /\ UNCHANGED onlineDue
     \/ handler[c] = "due" /\ onlineDue' = TRUE
        /\ handler' = [handler EXCEPT ![c] = "none"] /\ UNCHANGED state
     \/ handler[c] = "disconnected" /\ state' = "connecting"
        /\ handler' = [handler EXCEPT ![c] = "none"] /\ UNCHANGED onlineDue
  /\ UNCHANGED <<httpd, loop, stop, flash, net, history, bounds>>

\* The check: events of a client that is no longer the current one are dropped.
Event(c, e) ==
  handler' = [handler EXCEPT ![c] = IF c = client THEN e ELSE "none"]

\* CONNECT is accepted.  A session the identifier still has is taken over: its
\* connection is closed and its will published.
Connects(c) ==
  LET prior == session[conn[c].id] IN
  /\ link[c] = "connecting" /\ handler[c] = "none"
  /\ link' = [d \in Clients |-> IF d = c THEN "up"
                                ELSE IF d = prior /\ link[d] = "up" THEN "broken" ELSE link[d]]
  /\ session' = [session EXCEPT ![conn[c].id] = c]
  /\ retained' = [t \in Topics |->
                    IF prior # NoClient /\ conn[prior].topic = t THEN "offline" ELSE retained[t]]
  /\ IF c = client THEN said' = FALSE /\ refused' = FALSE ELSE UNCHANGED <<said, refused>>
  /\ Event(c, "connected")
  /\ UNCHANGED <<httpd, loop, state, onlineDue, stop, flash, conn, queued, created, late, bounds>>

\* The connection is gone, and neither side knows.
Breaks(c) ==
  /\ losses < MaxLosses /\ losses' = losses + 1
  /\ link[c] = "up"
  /\ link' = [link EXCEPT ![c] = "broken"]
  /\ UNCHANGED <<httpd, loop, events, stop, flash, conn, queued, session, retained, history,
                 posts, meters>>

\* The client notices, reports it and connects again.
ClientNotices(c) ==
  /\ link[c] = "broken" /\ handler[c] = "none"
  /\ link' = [link EXCEPT ![c] = "connecting"]
  /\ Event(c, "disconnected")
  /\ UNCHANGED <<httpd, loop, state, onlineDue, stop, flash, conn, queued, session, retained,
                 history, bounds>>

\* The broker notices, by its keep-alive, and publishes the will.
BrokerNotices(i) ==
  /\ session[i] # NoClient /\ link[session[i]] # "up"
  /\ session' = [session EXCEPT ![i] = NoClient]
  /\ retained' = [t \in Topics |-> IF conn[session[i]].topic = t THEN "offline" ELSE retained[t]]
  /\ UNCHANGED <<httpd, loop, events, stop, flash, link, conn, queued, history, bounds>>

\* The client's task sends an "online" from its outbox, until it is destroyed.
SendQueued(c) ==
  LET t == conn[c].topic IN
  /\ queued[c] > 0 /\ link[c] = "up" /\ handler[c] = "none"
  /\ queued' = [queued EXCEPT ![c] = @ - 1]
  /\ retained' = [retained EXCEPT ![t] = "online"]
  /\ IF c = client THEN said' = TRUE /\ late' = late \ {t}
                   ELSE late' = late \cup {t} /\ UNCHANGED said
  /\ UNCHANGED <<httpd, loop, events, stop, flash, link, conn, session, created, refused, bounds>>

\* A restart: no DISCONNECT, what is in RAM is lost; mqtt_setup_ takes the
\* settings from NVS and compiles them against the profile.
Restart ==
  /\ losses < MaxLosses /\ losses' = losses + 1
  /\ cfg' = nvs /\ unsaved' = <<>>
  /\ run' = IF nvs.enabled THEN Compiled(nvs) ELSE NoRun
  /\ tplErr' = (nvs.enabled /\ ~ Fits(nvs.tpl, profile))
  /\ pendingSet' = FALSE /\ pendingRun' = NoRun /\ pendingReconnect' = FALSE
  /\ pass' = "idle" /\ reconnect' = FALSE /\ client' = NoClient
  /\ shot' = [tpl |-> 0, values |-> 0]
  /\ state' = "off" /\ onlineDue' = FALSE /\ handler' = [c \in Clients |-> "none"]
  /\ stopArgs' = {} /\ stopping' = 0
  /\ link' = [c \in Clients |-> IF link[c] = "none" THEN "none" ELSE "gone"]
  /\ queued' = [c \in Clients |-> 0]
  /\ said' = FALSE /\ refused' = FALSE
  /\ UNCHANGED <<profile, gen, nvs, conn, session, retained, created, late, posts, meters>>

HttpdNext == (\E s \in Offered : PostSettings(s)) \/ (\E p \in Uploads : PostMeter(p))

LoopNext ==
  \/ Save \/ TakePending \/ StopClient \/ (\E a \in stopArgs : HandOver(a))
  \/ PassWithoutClient \/ StartClient \/ StartFails
  \/ KeepClient \/ CompileTemplates \/ Announce \/ Publish \/ SkipPublish

StopNext == \E a \in stopArgs : SayOffline(a) \/ Destroy(a)

NetNext ==
  \/ \E c \in Clients : Handle(c) \/ Connects(c) \/ Breaks(c) \/ ClientNotices(c) \/ SendQueued(c)
  \/ \E i \in Ids : BrokerNotices(i)

MqNext == HttpdNext \/ LoopNext \/ StopNext \/ NetNext \/ Restart

MqSpec == MqInit /\ [][MqNext]_mqVars

-----------------------------------------------------------------------------
(* Properties.                                                             *)

\* When the loop has nothing to take over and is between two passes, what runs
\* is what was accepted last, the connection was made with it, and the reported
\* verdict on the templates is that of what runs, however POSTs, profile changes
\* and passes of the loop interleaved (mqtt_pending_reconnect_ |= ..., mqtt.cpp).
LatestSettings ==
  pass = "idle" /\ ~ pendingSet =>
    /\ IF cfg.enabled THEN run # NoRun /\ run.cfg = cfg ELSE run = NoRun
    /\ client # NoClient => cfg.enabled /\ ~ ConnDiffers(conn[client], cfg)
    /\ tplErr <=> run # NoRun /\ ~ run.ok

\* Values are rendered with templates compiled against the profile they were
\* read with: an index never meets the registers of another profile.
ProfileMatches == shot.tpl = shot.values

\* A retained "online" has a session behind it whose will takes it back should
\* the device vanish: the reason for stop_client's "offline" ("without this a
\* save that changes the broker or turns MQTT off would leave "online"
\* retained", mqtt.cpp).  Excepted is an "online" the client's task sends from
\* its outbox while the client is being stopped.
OnlineHasWill ==
  \A t \in Topics \ late :
    retained[t] = "online" => \E i \in Ids : session[i] # NoClient /\ conn[session[i]].topic = t

OneId == Cardinality({conn[c].id : c \in 1 .. created}) <= 1

\* A connected client that has said "online" is not shown as offline: the
\* "offline" of its predecessor came first ("The old client's "offline" must
\* reach the broker before the new one says "online"", mqtt.cpp).  Excepted is a
\* change of identifier together with a lost connection or a restart, where the
\* broker publishes the old identifier's will later.
OnlineStays ==
  client # NoClient /\ link[client] = "up" /\ said /\ (OneId \/ losses = 0) =>
    retained[conn[client].topic] = "online"

\* Every connection is announced: it has been, or "online" is due, in the outbox
\* or was refused by it.  Neither the order of the handler's two writes nor a
\* reconnect between them loses it ("gets "online" on every connect", mqtt.cpp).
OnlineNotLost ==
  client # NoClient /\ link[client] = "up" /\ handler[client] = "none"
    /\ conn[client].topic # NoTopic =>
      \/ said \/ refused \/ queued[client] > 0
      \/ onlineDue /\ state = "connected"

\* mqtt.cpp, mqtt_service_: what runs is what was accepted last, with templates of the
\* profile the values are from.
SettingsInForce == MqTypeOK /\ LatestSettings /\ ProfileMatches

\* mqtt.cpp, stop_client and the event handler: the availability on the broker is that of
\* the device: announced on every connect, not taken back by an old client, and never
\* left without a will.
AvailabilityTrue == OnlineHasWill /\ OnlineStays /\ OnlineNotLost

=============================================================================

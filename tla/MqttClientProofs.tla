-------------------------- MODULE MqttClientProofs --------------------------
(***************************************************************************)
(* Proofs about MqttClient, for any topics, identifiers and settings and   *)
(* any number of clients, POSTs, profile changes, lost connections and     *)
(* restarts: what runs is what was accepted last, and the availability on  *)
(* the broker is that of the device.                                       *)
(*                                                                         *)
(* The last section is about MqttTemplate: what tpl_compile accepts, for   *)
(* any capacities and any meter, renders without an overrun into what the  *)
(* client publishes.                                                       *)
(***************************************************************************)
EXTENDS MCMqtt, FoldLemmas, SequenceTheorems, FiniteSetTheorems, TLAPS

-----------------------------------------------------------------------------
(* The inductive invariant.                                                *)

\* The settings accepted last are in force, or will be with run r.
InForce(r) == IF cfg.enabled THEN r # NoRun /\ r.cfg = cfg ELSE r = NoRun

\* Between the POST and the handover; pendingReconnect is FALSE only if all
\* POSTs since the last handover left the connection alone.
CfgInv ==
  /\ gen = meters
  /\ pendingSet => InForce(pendingRun) /\ (pendingRun # NoRun => pendingRun.ok)
  /\ ~ pendingSet => InForce(run) /\ ~ pendingReconnect
  /\ run # NoRun => run.cfg.enabled
  /\ tplErr <=> run # NoRun /\ ~ run.ok
  /\ ~ pendingReconnect => IF cfg.enabled THEN run # NoRun /\ ~ ConnDiffers(run.cfg, cfg)
                                          ELSE run = NoRun

\* The client's connection is the one run asks for, unless it is about to be
\* given up.
ConnInv ==
  /\ pass \in {"compile", "announce", "publish"} => ~ reconnect /\ client # NoClient
  /\ client # NoClient => conn[client].enabled
  /\ client # NoClient /\ (pass = "idle" \/ ~ reconnect) =>
       /\ run # NoRun /\ ~ ConnDiffers(conn[client], run.cfg)
       /\ ~ pendingReconnect => ~ ConnDiffers(conn[client], cfg)

\* One client at a time has a task: the current one, or the one that is stopped.
Retired(c) == c # created \/ (client = NoClient /\ stopArgs = {})

OneInv ==
  /\ client \in {NoClient, created}
  /\ \A c \in Clients :
       /\ Retired(c) => link[c] \in {"none", "gone"} /\ handler[c] = "none" /\ queued[c] = 0
       /\ handler[c] = "disconnected" => link[c] = "connecting"
  /\ IF stopArgs = {} THEN stopping = 0 /\ pass # "stop"
     ELSE /\ client = NoClient /\ created # NoClient
          /\ stopping = IF pass = "stop" THEN 0 ELSE 1
          /\ \A a \in stopArgs : a.client = created /\ (pass = "stop" => ~ a.told)
          /\ \A a, b \in stopArgs : a = b

\* The broker's sessions and what the client's task knows of its connection.
NetInv ==
  /\ losses \in Nat
  /\ \A i \in Ids : session[i] # NoClient => session[i] <= created /\ conn[session[i]].id = i
  /\ \A c \in Clients : link[c] = "up" => session[conn[c].id] = c
  /\ \A c \in Clients : queued[c] > 0 => conn[c].topic \in Topics
  /\ losses = 0 => \A i \in Ids : session[i] # NoClient => link[session[i]] = "up"
  /\ client # NoClient /\ said => conn[client].topic \in Topics
  /\ client # NoClient /\ link[client] = "up" /\ handler[client] \in {"none", "due"} =>
       state = "connected"

\* Nothing c has said is retained that no other session's will takes back.
OtherWill(c) ==
  \A t \in Topics \ late : conn[c].topic = t /\ retained[t] = "online" =>
    \E i \in Ids : session[i] \notin {NoClient, c} /\ conn[session[i]].topic = t

\* A connected client that may have said "online" takes it back before it goes.
WillInv ==
  \A c \in Clients : link[c] = "up" =>
    /\ client = c \/ pass = "stop" => OtherWill(c) \/ state = "connected"
    /\ \A a \in stopArgs : pass # "stop" => OtherWill(c) \/ (a.online /\ ~ a.told)

MqInv ==
  /\ MqTypeOK /\ CfgInv /\ ConnInv /\ OneInv /\ NetInv /\ WillInv
  /\ OnlineHasWill /\ OnlineStays /\ OnlineNotLost

-----------------------------------------------------------------------------
(* Types, in parts.                                                        *)

HttpdOK ==
  /\ cfg \in Settings /\ nvs \in Settings /\ unsaved \in Seq(Settings)
  /\ pendingSet \in BOOLEAN /\ pendingReconnect \in BOOLEAN /\ pendingRun \in Runs
  /\ profile \in Profiles /\ gen \in 0 .. MaxMeters

LoopOK ==
  /\ pass \in {"idle", "manage", "stop", "compile", "announce", "publish"}
  /\ run \in Runs /\ reconnect \in BOOLEAN /\ tplErr \in BOOLEAN
  /\ client \in Clients \cup {NoClient} /\ shot \in [tpl : Nat, values : Nat]

EventsOK ==
  /\ state \in {"off", "connecting", "connected"} /\ onlineDue \in BOOLEAN
  /\ handler \in [Clients -> {"none", "connected", "due", "disconnected"}]
  /\ stopArgs \subseteq [client : Clients, online : BOOLEAN, told : BOOLEAN]
  /\ stopping \in Nat

NetOK ==
  /\ link \in [Clients -> {"none", "connecting", "up", "broken", "gone"}]
  /\ conn \in [Clients -> Settings] /\ queued \in [Clients -> Nat]
  /\ session \in [Ids -> Clients \cup {NoClient}]
  /\ retained \in [Topics -> {"none", "online", "offline"}]

SaidOK ==
  /\ created \in 0 .. MaxClients /\ said \in BOOLEAN /\ refused \in BOOLEAN
  /\ late \subseteq Topics

LEMMA TypeParts == MqTypeOK <=> HttpdOK /\ LoopOK /\ EventsOK /\ NetOK /\ SaidOK
BY Zenon DEF MqTypeOK, HttpdOK, LoopOK, EventsOK, NetOK, SaidOK

LEMMA NextTypes == HttpdOK' /\ LoopOK' /\ EventsOK' /\ NetOK' /\ SaidOK' => MqTypeOK'
BY Zenon DEF MqTypeOK, HttpdOK, LoopOK, EventsOK, NetOK, SaidOK

LEMMA MqBounds ==
  /\ MaxPosts \in Nat /\ MaxMeters \in Nat /\ MaxLosses \in Nat /\ MaxClients \in Nat
  /\ Offered \subseteq Settings /\ Uploads \subseteq Profiles /\ "full" \in Profiles
BY BoundsAssumption, OfferedAssumption DEF Profiles

\* What mqtt_compile_ makes is a run, and never the empty one.
LEMMA CompiledIs ==
  ASSUME NEW s \in Settings, gen \in 0 .. MaxMeters
  PROVE  /\ Compiled(s) \in Runs /\ Compiled(s) # NoRun
         /\ Compiled(s).cfg = s /\ Compiled(s).gen = gen
         /\ Compiled(s).ok <=> Fits(s.tpl, profile)
<1> DEFINE o == Fits(s.tpl, profile)
<1>1. o \in BOOLEAN
  BY DEF Fits
<1>2. Compiled(s) = [cfg |-> s, gen |-> gen, ok |-> o]
  BY DEF Compiled
<1> HIDE DEF o
<1>3. Compiled(s) \in [cfg : Settings, gen : 0 .. MaxMeters, ok : BOOLEAN]
  BY <1>1, <1>2
<1>4. DOMAIN Compiled(s) = {"cfg", "gen", "ok"} /\ DOMAIN NoRun = {"set"}
  BY <1>2 DEF NoRun
<1>5. Compiled(s) # NoRun
  BY <1>4
<1> QED
  BY <1>2, <1>3, <1>5 DEF Runs, o

LEMMA RunIs ==
  ASSUME NEW r \in Runs, r # NoRun
  PROVE  r.cfg \in Settings /\ r.gen \in 0 .. MaxMeters /\ r.ok \in BOOLEAN
BY DEF Runs

\* Settings that agree on the connection, and settings in between.
LEMMA ConnEqual ==
  /\ \A a : ~ ConnDiffers(a, a)
  /\ \A a, b : ~ ConnDiffers(a, b) => ~ ConnDiffers(b, a)
  /\ \A a, b, c : ~ ConnDiffers(a, b) /\ ~ ConnDiffers(b, c) => ~ ConnDiffers(a, c)
  /\ \A a, b : ~ ConnDiffers(a, b) => a.enabled = b.enabled /\ a.topic = b.topic
BY DEF ConnDiffers

LEMMA MqInitial == MqInit => MqInv
<1> SUFFICES ASSUME MqInit PROVE MqInv
  OBVIOUS
<1>1. /\ profile = "full" /\ gen = 0 /\ nvs \in Settings /\ unsaved = <<>>
      /\ cfg = nvs /\ run = (IF nvs.enabled THEN Compiled(nvs) ELSE NoRun) /\ tplErr = FALSE
      /\ pendingSet = FALSE /\ pendingRun = NoRun /\ pendingReconnect = FALSE
      /\ pass = "idle" /\ reconnect = FALSE /\ client = NoClient
      /\ shot = [tpl |-> 0, values |-> 0]
      /\ state = "off" /\ onlineDue = FALSE /\ handler = [c \in Clients |-> "none"]
      /\ stopArgs = {} /\ stopping = 0
      /\ link = [c \in Clients |-> "none"] /\ conn = [c \in Clients |-> nvs]
      /\ queued = [c \in Clients |-> 0]
      /\ session = [i \in Ids |-> NoClient] /\ retained = [t \in Topics |-> "none"]
      /\ created = 0 /\ said = FALSE /\ refused = FALSE /\ late = {}
      /\ posts = 0 /\ meters = 0 /\ losses = 0
  BY MqBounds DEF MqInit
<1>2. gen \in 0 .. MaxMeters /\ 0 \in 0 .. MaxClients
  BY <1>1, MqBounds
<1>3. /\ Compiled(nvs) \in Runs /\ Compiled(nvs) # NoRun
      /\ Compiled(nvs).cfg = nvs /\ Compiled(nvs).gen = gen
      /\ Compiled(nvs).ok
  BY <1>1, <1>2, CompiledIs DEF Fits
<1>4. HttpdOK
  <2>1. unsaved \in Seq(Settings)
    BY <1>1, EmptySeq
  <2> QED
    BY <1>1, <1>2, <2>1, MqBounds DEF HttpdOK, Runs
<1>5. LoopOK
  BY <1>1, <1>3 DEF LoopOK, Runs
<1>6. EventsOK /\ NetOK /\ SaidOK
  BY <1>1, <1>2 DEF EventsOK, NetOK, SaidOK
<1>7. CfgInv
  BY <1>1, <1>3, ConnEqual DEF CfgInv, InForce
<1>8. ConnInv /\ OneInv
  BY <1>1 DEF ConnInv, OneInv, NoClient, Retired
<1>9. NetInv /\ WillInv
  BY <1>1 DEF NetInv, WillInv, NoClient
<1>10. OnlineHasWill /\ OnlineStays /\ OnlineNotLost
  BY <1>1 DEF OnlineHasWill, OnlineStays, OnlineNotLost
<1> QED
  BY <1>4, <1>5, <1>6, <1>7, <1>8, <1>9, <1>10, TypeParts DEF MqInv

-----------------------------------------------------------------------------
(* What a step leaves alone.                                               *)

LEMMA MqFrames ==
  ASSUME MqInv
  PROVE  /\ UNCHANGED <<cfg, nvs, unsaved, pendingSet, pendingReconnect, pendingRun, profile, gen>>
              => HttpdOK'
         /\ UNCHANGED loop => LoopOK'
         /\ UNCHANGED <<state, onlineDue, handler, stopArgs, stopping>> => EventsOK'
         /\ UNCHANGED net => NetOK'
         /\ UNCHANGED <<created, said, refused, late>> => SaidOK'
<1>1. HttpdOK /\ LoopOK /\ EventsOK /\ NetOK /\ SaidOK
  BY TypeParts DEF MqInv
<1>2. UNCHANGED <<cfg, nvs, unsaved, pendingSet, pendingReconnect, pendingRun, profile, gen>>
        => HttpdOK'
  BY <1>1 DEF HttpdOK, Runs
<1>3. UNCHANGED loop => LoopOK'
  BY <1>1 DEF LoopOK, Runs, loop
<1>4. UNCHANGED <<state, onlineDue, handler, stopArgs, stopping>> => EventsOK'
  BY <1>1 DEF EventsOK
<1>5. UNCHANGED net => NetOK'
  BY <1>1 DEF NetOK, net
<1>6. UNCHANGED <<created, said, refused, late>> => SaidOK'
  BY <1>1 DEF SaidOK
<1> QED
  BY <1>2, <1>3, <1>4, <1>5, <1>6

LEMMA LoopFrames ==
  ASSUME MqInv
  PROVE  /\ UNCHANGED <<cfg, pendingSet, pendingRun, pendingReconnect, gen, meters, run, tplErr>>
              => CfgInv'
         /\ UNCHANGED <<pass, reconnect, client, conn, run, pendingReconnect, cfg>> => ConnInv'
<1>1. ASSUME UNCHANGED <<cfg, pendingSet, pendingRun, pendingReconnect, gen, meters, run, tplErr>>
      PROVE  CfgInv'
  <2>1. /\ cfg' = cfg /\ pendingSet' = pendingSet /\ pendingRun' = pendingRun
        /\ pendingReconnect' = pendingReconnect /\ gen' = gen /\ meters' = meters
        /\ run' = run /\ tplErr' = tplErr
    BY <1>1
  <2>2. InForce(pendingRun)' = InForce(pendingRun) /\ InForce(run)' = InForce(run)
    BY <2>1 DEF InForce
  <2>3. CfgInv' = CfgInv
    BY <2>1, <2>2 DEF CfgInv
  <2> QED
    BY <2>3 DEF MqInv
<1>2. ASSUME UNCHANGED <<pass, reconnect, client, conn, run, pendingReconnect, cfg>>
      PROVE  ConnInv'
  <2>1. /\ pass' = pass /\ reconnect' = reconnect /\ client' = client /\ conn' = conn
        /\ run' = run /\ pendingReconnect' = pendingReconnect /\ cfg' = cfg
    BY <1>2
  <2>2. ConnInv' = ConnInv
    BY <2>1 DEF ConnInv
  <2> QED
    BY <2>2 DEF MqInv
<1> QED
  BY <1>1, <1>2

LEMMA NetFrames ==
  ASSUME MqInv
  PROVE  /\ UNCHANGED <<client, created, link, handler, queued, stopArgs, stopping>>
              /\ (pass' = "stop" <=> pass = "stop") => OneInv'
         /\ UNCHANGED <<created, link, conn, queued, session, losses, client, said, handler, state>>
              => NetInv'
         /\ UNCHANGED <<link, client, state, stopArgs, conn, retained, session, late>>
              /\ (pass' = "stop" <=> pass = "stop") => WillInv'
         /\ UNCHANGED <<retained, session, conn, late>> => OnlineHasWill'
         /\ UNCHANGED <<created, conn>> => (OneId' <=> OneId)
         /\ UNCHANGED <<client, link, said, created, conn, losses, retained>> => OnlineStays'
         /\ UNCHANGED <<client, link, handler, conn, said, refused, queued, onlineDue, state>>
              => OnlineNotLost'
<1>1. ASSUME UNCHANGED <<client, created, link, handler, queued, stopArgs, stopping>>,
             pass' = "stop" <=> pass = "stop"
      PROVE  OneInv'
  BY <1>1 DEF MqInv, OneInv, Retired
<1>2. ASSUME UNCHANGED <<created, link, conn, queued, session, losses, client, said, handler, state>>
      PROVE  NetInv'
  <2>1. /\ created' = created /\ link' = link /\ conn' = conn /\ queued' = queued
        /\ session' = session /\ losses' = losses /\ client' = client /\ said' = said
        /\ handler' = handler /\ state' = state
    BY <1>2
  <2>2. NetInv' = NetInv
    BY <2>1 DEF NetInv
  <2> QED
    BY <2>2 DEF MqInv
<1>3. ASSUME UNCHANGED <<link, client, state, stopArgs, conn, retained, session, late>>,
             pass' = "stop" <=> pass = "stop"
      PROVE  WillInv'
  <2>1. \A c : OtherWill(c)' = OtherWill(c)
    BY <1>3 DEF OtherWill
  <2> QED
    BY <1>3, <2>1 DEF MqInv, WillInv
<1>4. UNCHANGED <<retained, session, conn, late>> => OnlineHasWill'
  BY DEF MqInv, OnlineHasWill
<1>5. UNCHANGED <<created, conn>> => (OneId' <=> OneId)
  BY DEF OneId
<1>6. UNCHANGED <<client, link, said, created, conn, losses, retained>> => OnlineStays'
  BY <1>5 DEF MqInv, OnlineStays
<1>7. ASSUME UNCHANGED <<client, link, handler, conn, said, refused, queued, onlineDue, state>>
      PROVE  OnlineNotLost'
  <2>1. /\ client' = client /\ link' = link /\ handler' = handler /\ conn' = conn /\ said' = said
        /\ refused' = refused /\ queued' = queued /\ onlineDue' = onlineDue /\ state' = state
    BY <1>7
  <2>2. OnlineNotLost' = OnlineNotLost
    BY <2>1 DEF OnlineNotLost
  <2> QED
    BY <2>2 DEF MqInv
<1> QED
  BY <1>1, <1>2, <1>3, <1>4, <1>5, <1>6, <1>7

\* A step of the httpd task or of the loop that concerns neither the client nor
\* the network.
LEMMA NetRests ==
  ASSUME MqInv, UNCHANGED <<client, net, stop, history, state, handler, losses>>,
         pass' = "stop" <=> pass = "stop"
  PROVE  /\ NetOK' /\ SaidOK' /\ OneInv' /\ NetInv' /\ WillInv' /\ OnlineHasWill' /\ OnlineStays'
         /\ onlineDue' = onlineDue => EventsOK' /\ OnlineNotLost'
<1>1. /\ client' = client /\ stopArgs' = stopArgs /\ stopping' = stopping /\ state' = state
      /\ handler' = handler /\ losses' = losses /\ created' = created /\ said' = said
      /\ refused' = refused /\ late' = late
      /\ link' = link /\ conn' = conn /\ queued' = queued /\ session' = session
      /\ retained' = retained
  BY DEF net, stop, history
<1> QED
  BY <1>1, MqFrames, NetFrames DEF net

-----------------------------------------------------------------------------
(* The httpd task.                                                         *)

LEMMA PostSettingsStep ==
  ASSUME MqInv, NEW s \in Offered, PostSettings(s)
  PROVE  MqInv'
<1>1. /\ Fits(s.tpl, profile) /\ pendingReconnect' = Reconnects(s) /\ cfg' = s
      /\ pendingRun' = IF s.enabled THEN Compiled(s) ELSE NoRun
      /\ pendingSet' = TRUE /\ unsaved' = Append(unsaved, s)
      /\ UNCHANGED <<profile, gen, loop, events, stop, nvs, net, history, meters, losses>>
  BY DEF PostSettings
<1>2. /\ UNCHANGED <<client, net, stop, history, state, handler, losses, onlineDue>>
      /\ pass' = pass /\ UNCHANGED loop
      /\ run' = run /\ tplErr' = tplErr /\ reconnect' = reconnect /\ conn' = conn
      /\ gen' = gen /\ meters' = meters /\ profile' = profile /\ nvs' = nvs
  BY <1>1 DEF loop, events, net
<1>3. s \in Settings /\ HttpdOK
  BY MqBounds, TypeParts DEF MqInv
<1>4. /\ Compiled(s) \in Runs /\ Compiled(s) # NoRun /\ Compiled(s).cfg = s /\ Compiled(s).ok
  BY <1>1, <1>3, CompiledIs DEF HttpdOK
<1>5. HttpdOK'
  <2>1. pendingReconnect' \in BOOLEAN
    BY <1>1, <1>3 DEF HttpdOK, Reconnects, ConnDiffers
  <2>2. unsaved' \in Seq(Settings)
    BY <1>1, <1>3, AppendProperties DEF HttpdOK
  <2>3. pendingRun' \in Runs
    BY <1>1, <1>4 DEF Runs
  <2> QED
    BY <1>1, <1>2, <1>3, <2>1, <2>2, <2>3 DEF HttpdOK, Runs
<1>6. ~ pendingReconnect' => ~ pendingReconnect /\ ~ ConnDiffers(cfg, s)
  BY <1>1 DEF Reconnects
<1>7. CfgInv'
  <2>1. InForce(pendingRun)' /\ (pendingRun' # NoRun => pendingRun'.ok)
    BY <1>1, <1>4 DEF InForce
  <2>2. ~ pendingReconnect' =>
          IF cfg'.enabled THEN run' # NoRun /\ ~ ConnDiffers(run'.cfg, cfg') ELSE run' = NoRun
    <3> SUFFICES ASSUME ~ pendingReconnect'
                 PROVE  IF s.enabled THEN run # NoRun /\ ~ ConnDiffers(run.cfg, s) ELSE run = NoRun
      BY <1>1, <1>2
    <3>1. ~ pendingReconnect /\ ~ ConnDiffers(cfg, s) /\ s.enabled = cfg.enabled
      BY <1>6, ConnEqual
    <3>2. IF cfg.enabled THEN run # NoRun /\ ~ ConnDiffers(run.cfg, cfg) ELSE run = NoRun
      BY <3>1 DEF MqInv, CfgInv
    <3> QED
      BY <3>1, <3>2, ConnEqual
  <2>3. gen' = meters' /\ (run' # NoRun => run'.cfg.enabled)
        /\ (tplErr' <=> run' # NoRun /\ ~ run'.ok)
    BY <1>2 DEF MqInv, CfgInv
  <2> QED
    BY <1>1, <2>1, <2>2, <2>3 DEF CfgInv
<1>8. ConnInv'
  <2>1. ASSUME client # NoClient, pass = "idle" \/ ~ reconnect, ~ pendingReconnect'
        PROVE  ~ ConnDiffers(conn[client], s)
    <3>1. ~ ConnDiffers(conn[client], cfg) /\ ~ ConnDiffers(cfg, s)
      BY <1>6, <2>1 DEF MqInv, ConnInv
    <3> QED
      BY <3>1, ConnEqual
  <2>2. client' = client
    BY <1>2
  <2> QED
    BY <1>1, <1>2, <2>1, <2>2 DEF MqInv, ConnInv
<1>9. /\ NetOK' /\ SaidOK' /\ OneInv' /\ NetInv' /\ WillInv' /\ OnlineHasWill' /\ OnlineStays'
      /\ EventsOK' /\ OnlineNotLost'
  BY <1>2, NetRests
<1>10. LoopOK'
  BY <1>2, MqFrames
<1> QED
  BY <1>5, <1>7, <1>8, <1>9, <1>10, NextTypes DEF MqInv

LEMMA PostMeterStep ==
  ASSUME MqInv, NEW p \in Uploads, PostMeter(p)
  PROVE  MqInv'
<1>1. /\ meters < MaxMeters /\ meters' = meters + 1 /\ profile' = p /\ gen' = gen + 1
      /\ UNCHANGED <<cfg, pendingSet, pendingRun, pendingReconnect,
                     loop, events, stop, flash, net, history, posts, losses>>
  BY DEF PostMeter
<1>2. /\ UNCHANGED <<client, net, stop, history, state, handler, losses, onlineDue>>
      /\ pass' = pass /\ UNCHANGED loop
      /\ run' = run /\ tplErr' = tplErr /\ reconnect' = reconnect /\ conn' = conn /\ client' = client
      /\ cfg' = cfg /\ pendingSet' = pendingSet /\ pendingRun' = pendingRun
      /\ pendingReconnect' = pendingReconnect /\ nvs' = nvs /\ unsaved' = unsaved
  BY <1>1 DEF loop, events, net, flash
<1>3. HttpdOK
  BY TypeParts DEF MqInv
<1>4. gen = meters /\ gen' = meters' /\ gen' \in 0 .. MaxMeters
  BY <1>1, <1>3, MqBounds DEF MqInv, CfgInv, HttpdOK
<1>5. HttpdOK'
  BY <1>1, <1>2, <1>3, <1>4, MqBounds DEF HttpdOK, Runs
<1>6. CfgInv'
  <2>1. InForce(pendingRun)' = InForce(pendingRun) /\ InForce(run)' = InForce(run)
    BY <1>2 DEF InForce
  <2> QED
    BY <1>2, <1>4, <2>1 DEF MqInv, CfgInv
<1>7. ConnInv'
  BY <1>2, LoopFrames
<1>8. /\ NetOK' /\ SaidOK' /\ OneInv' /\ NetInv' /\ WillInv' /\ OnlineHasWill' /\ OnlineStays'
      /\ EventsOK' /\ OnlineNotLost'
  BY <1>2, NetRests
<1>9. LoopOK'
  BY <1>2, MqFrames
<1> QED
  BY <1>5, <1>6, <1>7, <1>8, <1>9, NextTypes DEF MqInv

-----------------------------------------------------------------------------
(* The loop task.                                                          *)

LEMMA SaveStep ==
  ASSUME MqInv, Save
  PROVE  MqInv'
<1>1. /\ unsaved # <<>> /\ nvs' = Head(unsaved) /\ unsaved' = Tail(unsaved)
      /\ UNCHANGED <<httpd, loop, events, stop, net, history, bounds>>
  BY DEF Save
<1>2. /\ UNCHANGED <<client, net, stop, history, state, handler, losses, onlineDue>>
      /\ pass' = pass /\ UNCHANGED loop
      /\ run' = run /\ tplErr' = tplErr /\ reconnect' = reconnect /\ conn' = conn /\ client' = client
      /\ cfg' = cfg /\ pendingSet' = pendingSet /\ pendingRun' = pendingRun
      /\ pendingReconnect' = pendingReconnect /\ profile' = profile /\ gen' = gen
      /\ meters' = meters
  BY <1>1 DEF httpd, loop, events, net, bounds
<1>3. HttpdOK
  BY TypeParts DEF MqInv
<1>4. nvs' \in Settings /\ unsaved' \in Seq(Settings)
  BY <1>1, <1>3, HeadTailProperties DEF HttpdOK
<1>5. HttpdOK'
  BY <1>2, <1>3, <1>4 DEF HttpdOK, Runs
<1>6. CfgInv' /\ ConnInv'
  BY <1>2, LoopFrames
<1>7. /\ NetOK' /\ SaidOK' /\ OneInv' /\ NetInv' /\ WillInv' /\ OnlineHasWill' /\ OnlineStays'
      /\ EventsOK' /\ OnlineNotLost'
  BY <1>2, NetRests
<1>8. LoopOK'
  BY <1>2, MqFrames
<1> QED
  BY <1>5, <1>6, <1>7, <1>8, NextTypes DEF MqInv

\* The handover.
LEMMA TakePendingStep ==
  ASSUME MqInv, TakePending
  PROVE  MqInv'
<1>1. /\ pass = "idle" /\ pass' = "manage"
      /\ IF pendingSet
         THEN /\ run' = pendingRun /\ reconnect' = pendingReconnect /\ tplErr' = FALSE
              /\ pendingRun' = NoRun /\ pendingSet' = FALSE /\ pendingReconnect' = FALSE
         ELSE /\ reconnect' = FALSE
              /\ UNCHANGED <<run, tplErr, pendingRun, pendingSet, pendingReconnect>>
      /\ UNCHANGED <<cfg, profile, gen, client, shot, events, stop, flash, net, history, bounds>>
  BY DEF TakePending
<1>2. /\ UNCHANGED <<client, net, stop, history, state, handler, losses, onlineDue>>
      /\ client' = client /\ shot' = shot /\ cfg' = cfg /\ gen' = gen /\ meters' = meters
      /\ profile' = profile /\ nvs' = nvs /\ unsaved' = unsaved /\ conn' = conn
  BY <1>1 DEF events, net, flash, bounds
<1>3. HttpdOK /\ LoopOK /\ CfgInv /\ ConnInv
  BY TypeParts DEF MqInv
<1>4. HttpdOK' /\ LoopOK'
  <2>1. CASE pendingSet
    BY <1>1, <1>2, <1>3, <2>1 DEF HttpdOK, LoopOK, Runs
  <2>2. CASE ~ pendingSet
    BY <1>1, <1>2, <1>3, <2>2 DEF HttpdOK, LoopOK, Runs
  <2> QED
    BY <2>1, <2>2
<1>5. ASSUME pendingSet PROVE CfgInv' /\ ConnInv'
  <2>1. /\ run' = pendingRun /\ reconnect' = pendingReconnect /\ tplErr' = FALSE
        /\ pendingRun' = NoRun /\ pendingSet' = FALSE /\ pendingReconnect' = FALSE
    BY <1>1, <1>5
  <2>2. InForce(run)' /\ (run' # NoRun => run'.ok)
    BY <1>2, <1>3, <1>5, <2>1 DEF CfgInv, InForce
  <2>3. CfgInv'
    <3>1. run' # NoRun => run'.cfg.enabled
      BY <2>2 DEF InForce
    <3>2. IF cfg'.enabled THEN run' # NoRun /\ ~ ConnDiffers(run'.cfg, cfg') ELSE run' = NoRun
      BY <2>2, ConnEqual DEF InForce
    <3> QED
      BY <1>2, <1>3, <2>1, <2>2, <3>1, <3>2 DEF CfgInv
  <2>4. ASSUME client # NoClient, ~ reconnect'
        PROVE  /\ run' # NoRun /\ ~ ConnDiffers(conn[client], run'.cfg)
               /\ ~ ConnDiffers(conn[client], cfg)
    <3>1. conn[client].enabled /\ ~ ConnDiffers(conn[client], cfg)
      BY <1>1, <1>3, <2>1, <2>4 DEF ConnInv
    <3>2. cfg.enabled
      BY <3>1, ConnEqual
    <3> QED
      BY <1>2, <2>2, <3>1, <3>2 DEF InForce
  <2>5. ConnInv'
    BY <1>1, <1>2, <1>3, <2>1, <2>4 DEF ConnInv
  <2> QED
    BY <2>3, <2>5
<1>6. ASSUME ~ pendingSet PROVE CfgInv' /\ ConnInv'
  <2>1. /\ run' = run /\ tplErr' = tplErr /\ pendingRun' = pendingRun /\ reconnect' = FALSE
        /\ pendingSet' = pendingSet /\ pendingReconnect' = pendingReconnect
    BY <1>1, <1>6
  <2>2. CfgInv'
    BY <1>2, <2>1, LoopFrames
  <2>3. ConnInv'
    BY <1>1, <1>2, <1>3, <2>1 DEF ConnInv
  <2> QED
    BY <2>2, <2>3
<1>7. /\ NetOK' /\ SaidOK' /\ OneInv' /\ NetInv' /\ WillInv' /\ OnlineHasWill' /\ OnlineStays'
      /\ EventsOK' /\ OnlineNotLost'
  <2>1. pass' = "stop" <=> pass = "stop"
    BY <1>1
  <2> QED
    BY <1>2, <2>1, NetRests
<1> QED
  BY <1>4, <1>5, <1>6, <1>7, NextTypes DEF MqInv

\* The steps that only move on.
LEMMA MoveOnStep ==
  ASSUME MqInv, PassWithoutClient \/ KeepClient \/ Publish \/ SkipPublish
  PROVE  MqInv'
<1>1. /\ UNCHANGED <<run, reconnect, tplErr, client>>
      /\ UNCHANGED <<httpd, events, stop, flash, net, history, bounds>>
      /\ \/ pass = "manage" /\ client = NoClient /\ pass' = "idle" /\ shot' = shot
         \/ pass = "manage" /\ client # NoClient /\ ~ reconnect /\ pass' = "compile" /\ shot' = shot
         \/ pass = "publish" /\ pass' = "idle" /\ shot' = shot
         \/ /\ pass = "publish" /\ pass' = "idle" /\ run # NoRun
            /\ shot' = [tpl |-> run.gen, values |-> gen]
  <2>1. CASE PassWithoutClient
    BY <2>1 DEF PassWithoutClient
  <2>2. CASE KeepClient
    BY <2>2 DEF KeepClient
  <2>3. CASE Publish
    <3>1. run # NoRun
      BY <2>3 DEF Publish, MqInv, ConnInv
    <3> QED
      BY <2>3, <3>1 DEF Publish
  <2>4. CASE SkipPublish
    BY <2>4 DEF SkipPublish
  <2> QED
    BY <2>1, <2>2, <2>3, <2>4
<1>2. /\ UNCHANGED <<client, net, stop, history, state, handler, losses, onlineDue>>
      /\ run' = run /\ tplErr' = tplErr /\ reconnect' = reconnect /\ conn' = conn /\ client' = client
      /\ cfg' = cfg /\ pendingSet' = pendingSet /\ pendingRun' = pendingRun
      /\ pendingReconnect' = pendingReconnect /\ gen' = gen /\ meters' = meters
      /\ UNCHANGED <<nvs, unsaved, profile>>
  BY <1>1 DEF httpd, events, net, flash, bounds
<1>3. LoopOK /\ HttpdOK /\ ConnInv
  BY TypeParts DEF MqInv
<1>4. LoopOK'
  <2>1. shot' \in [tpl : Nat, values : Nat]
    <3>1. run # NoRun => run.gen \in Nat /\ gen \in Nat
      BY <1>3, RunIs, MqBounds DEF LoopOK, HttpdOK
    <3> QED
      BY <1>1, <1>3, <3>1 DEF LoopOK
  <2> QED
    BY <1>1, <1>2, <1>3, <2>1 DEF LoopOK, Runs
<1>5. CfgInv' /\ HttpdOK'
  BY <1>2, LoopFrames, MqFrames
<1>6. ConnInv'
  BY <1>1, <1>2, <1>3 DEF ConnInv
<1>7. /\ NetOK' /\ SaidOK' /\ OneInv' /\ NetInv' /\ WillInv' /\ OnlineHasWill' /\ OnlineStays'
      /\ EventsOK' /\ OnlineNotLost'
  <2>1. pass' = "stop" <=> pass = "stop"
    BY <1>1
  <2> QED
    BY <1>2, <2>1, NetRests
<1> QED
  BY <1>4, <1>5, <1>6, <1>7, NextTypes DEF MqInv

LEMMA CompileStep ==
  ASSUME MqInv, CompileTemplates
  PROVE  MqInv'
<1>1. /\ pass = "compile" /\ pass' = "announce"
      /\ IF gen # run.gen
         THEN run' = Compiled(run.cfg) /\ tplErr' = ~ run'.ok
         ELSE UNCHANGED <<run, tplErr>>
      /\ UNCHANGED <<httpd, reconnect, client, shot, events, stop, flash, net, history, bounds>>
  BY DEF CompileTemplates
<1>2. /\ UNCHANGED <<client, net, stop, history, state, handler, losses, onlineDue>>
      /\ reconnect' = reconnect /\ conn' = conn /\ client' = client /\ shot' = shot
      /\ cfg' = cfg /\ pendingSet' = pendingSet /\ pendingRun' = pendingRun
      /\ pendingReconnect' = pendingReconnect /\ gen' = gen /\ meters' = meters
      /\ UNCHANGED <<nvs, unsaved, profile>>
  BY <1>1 DEF httpd, events, net, flash, bounds
<1>3. LoopOK /\ HttpdOK /\ ConnInv /\ CfgInv
  BY TypeParts DEF MqInv
<1>4. run # NoRun
  BY <1>1, <1>3 DEF ConnInv
<1>5. /\ run' \in Runs /\ run' # NoRun /\ run'.cfg = run.cfg
      /\ tplErr' \in BOOLEAN /\ (tplErr' <=> ~ run'.ok)
  <2>1. CASE gen # run.gen
    <3>1. run.cfg \in Settings
      BY <1>3, <1>4, RunIs DEF LoopOK
    <3>2. run' \in Runs /\ run' # NoRun /\ run'.cfg = run.cfg /\ tplErr' = ~ run'.ok
      BY <1>1, <1>3, <2>1, <3>1, CompiledIs DEF HttpdOK
    <3>3. run'.ok \in BOOLEAN
      BY <3>2, RunIs
    <3> QED
      BY <3>2, <3>3
  <2>2. CASE gen = run.gen
    BY <1>1, <1>3, <1>4, <2>2 DEF LoopOK, CfgInv
  <2> QED
    BY <2>1, <2>2
<1>6. LoopOK'
  BY <1>1, <1>2, <1>3, <1>5 DEF LoopOK, Runs
<1>7. CfgInv'
  <2>1. InForce(pendingRun)' = InForce(pendingRun)
    BY <1>2 DEF InForce
  <2>2. InForce(run)' <=> InForce(run)
    BY <1>2, <1>4, <1>5 DEF InForce
  <2> QED
    BY <1>2, <1>3, <1>4, <1>5, <2>1, <2>2 DEF CfgInv
<1>8. ConnInv'
  BY <1>1, <1>2, <1>3, <1>5 DEF ConnInv
<1>9. HttpdOK'
  BY <1>2, MqFrames
<1>10. /\ NetOK' /\ SaidOK' /\ OneInv' /\ NetInv' /\ WillInv' /\ OnlineHasWill' /\ OnlineStays'
       /\ EventsOK' /\ OnlineNotLost'
  <2>1. pass' = "stop" <=> pass = "stop"
    BY <1>1
  <2> QED
    BY <1>2, <2>1, NetRests
<1> QED
  BY <1>6, <1>7, <1>8, <1>9, <1>10, NextTypes DEF MqInv

\* What the loop alone changes around the client.
LEMMA RunRests ==
  ASSUME MqInv, UNCHANGED <<httpd, flash, meters, run, tplErr>>
  PROVE  HttpdOK' /\ CfgInv'
<1>1. /\ cfg' = cfg /\ pendingSet' = pendingSet /\ pendingRun' = pendingRun
      /\ pendingReconnect' = pendingReconnect /\ profile' = profile /\ gen' = gen
      /\ nvs' = nvs /\ unsaved' = unsaved /\ run' = run /\ tplErr' = tplErr /\ meters' = meters
  BY DEF httpd, flash
<1> QED
  BY <1>1, MqFrames, LoopFrames

LEMMA ClientIs ==
  ASSUME MqInv
  PROVE  /\ created \in Nat /\ created <= MaxClients
         /\ client # NoClient => client = created /\ client \in Clients /\ stopArgs = {}
         /\ \A a \in stopArgs : a.client = created /\ a.client \in Clients
         /\ stopArgs # {} => client = NoClient
<1>1. created \in 0 .. MaxClients /\ client \in Clients \cup {NoClient}
      /\ stopArgs \subseteq [client : Clients, online : BOOLEAN, told : BOOLEAN]
  BY DEF MqInv, MqTypeOK
<1>2. \A a \in stopArgs : a.client \in Clients
  BY <1>1
<1> QED
  BY <1>1, <1>2, MqBounds DEF MqInv, OneInv

LEMMA StopClientStep ==
  ASSUME MqInv, StopClient
  PROVE  MqInv'
<1> DEFINE a == [client |-> client, online |-> FALSE, told |-> FALSE]
<1>1. /\ pass = "manage" /\ client # NoClient /\ pass' = "stop"
      /\ stopArgs' = stopArgs \cup {a} /\ client' = NoClient /\ reconnect' = FALSE
      /\ UNCHANGED <<httpd, run, tplErr, shot, events, stopping, flash, net, history, bounds>>
  BY DEF StopClient
<1>2. /\ run' = run /\ tplErr' = tplErr /\ shot' = shot /\ stopping' = stopping
      /\ state' = state /\ onlineDue' = onlineDue /\ handler' = handler
      /\ link' = link /\ conn' = conn /\ queued' = queued /\ session' = session
      /\ retained' = retained /\ created' = created /\ said' = said /\ refused' = refused
      /\ late' = late /\ meters' = meters /\ losses' = losses
      /\ UNCHANGED <<httpd, flash>>
  BY <1>1 DEF events, net, history, bounds
<1>3. client = created /\ client \in Clients /\ stopArgs' = {a} /\ created # NoClient
  BY <1>1, ClientIs
<1>4. LoopOK /\ EventsOK /\ OneInv
  BY TypeParts DEF MqInv
<1>5. HttpdOK' /\ CfgInv'
  BY <1>2, RunRests
<1>6. LoopOK'
  BY <1>1, <1>2, <1>4 DEF LoopOK, Runs
<1>7. EventsOK'
  <2>1. stopArgs' \subseteq [client : Clients, online : BOOLEAN, told : BOOLEAN]
    BY <1>3
  <2> QED
    BY <1>2, <1>4, <2>1 DEF EventsOK
<1>8. NetOK' /\ SaidOK' /\ OnlineHasWill'
  <2>1. UNCHANGED net /\ UNCHANGED <<created, said, refused, late>>
    BY <1>2 DEF net
  <2> QED
    BY <1>2, <2>1, MqFrames, NetFrames
<1>9. ConnInv'
  BY <1>1 DEF ConnInv
<1>10. OneInv'
  <2>1. \A c \in Clients : Retired(c)' => Retired(c)
    BY <1>1, <1>2, <1>3 DEF Retired
  <2>2. stopArgs' # {} /\ \A x \in stopArgs' : x.client = created /\ ~ x.told
    BY <1>3
  <2>3. stopping = 0
    BY <1>1, <1>3, <1>4, ClientIs DEF OneInv
  <2> QED
    BY <1>1, <1>2, <1>3, <1>4, <2>1, <2>2, <2>3 DEF OneInv
<1>11. NetInv'
  BY <1>1, <1>2 DEF MqInv, NetInv
<1>12. WillInv'
  <2> SUFFICES ASSUME NEW c \in Clients, link[c] = "up"
               PROVE  OtherWill(c)' \/ state' = "connected"
    BY <1>1, <1>2, Zenon DEF WillInv
  <2>1. c = client
    BY <1>3, <1>4 DEF OneInv, Retired
  <2>2. OtherWill(c)' = OtherWill(c)
    BY <1>2 DEF OtherWill
  <2> QED
    BY <1>2, <2>1, <2>2 DEF MqInv, WillInv
<1>13. OnlineStays' /\ OnlineNotLost'
  BY <1>1 DEF OnlineStays, OnlineNotLost
<1> QED
  BY <1>5, <1>6, <1>7, <1>8, <1>9, <1>10, <1>11, <1>12, <1>13, NextTypes DEF MqInv

LEMMA HandOverStep ==
  ASSUME MqInv, NEW a \in stopArgs, HandOver(a)
  PROVE  MqInv'
<1> DEFINE b == [a EXCEPT !.online = SaysOffline]
<1>1. /\ pass = "stop" /\ a.client = created /\ stopArgs' = (stopArgs \ {a}) \cup {b}
      /\ stopping' = stopping + 1 /\ state' = "off" /\ onlineDue' = FALSE /\ pass' = "manage"
      /\ UNCHANGED <<httpd, run, reconnect, tplErr, client, shot, handler, flash, net, history, bounds>>
  BY DEF HandOver
<1>2. /\ run' = run /\ tplErr' = tplErr /\ shot' = shot /\ reconnect' = reconnect
      /\ client' = client /\ handler' = handler
      /\ link' = link /\ conn' = conn /\ queued' = queued /\ session' = session
      /\ retained' = retained /\ created' = created /\ said' = said /\ refused' = refused
      /\ late' = late /\ meters' = meters /\ losses' = losses
      /\ UNCHANGED <<httpd, flash>>
  BY <1>1 DEF net, history, bounds
<1>3. LoopOK /\ EventsOK /\ OneInv
  BY TypeParts DEF MqInv
<1>4. /\ client = NoClient /\ created # NoClient /\ stopping = 0 /\ stopArgs = {a} /\ ~ a.told
      /\ a \in [client : Clients, online : BOOLEAN, told : BOOLEAN]
  BY <1>1, <1>3 DEF OneInv, EventsOK
<1>5. /\ b \in [client : Clients, online : BOOLEAN, told : BOOLEAN]
      /\ b.client = created /\ ~ b.told /\ (b.online <=> state = "connected")
  BY <1>1, <1>4 DEF SaysOffline
<1> HIDE DEF b
<1>6. stopArgs' = {b}
  BY <1>1, <1>4
<1>7. HttpdOK' /\ CfgInv'
  BY <1>2, RunRests
<1>8. LoopOK'
  BY <1>1, <1>2, <1>3 DEF LoopOK, Runs
<1>9. EventsOK'
  <2>1. stopArgs' \subseteq [client : Clients, online : BOOLEAN, told : BOOLEAN] /\ stopping' \in Nat
    BY <1>1, <1>4, <1>5, <1>6
  <2> QED
    BY <1>1, <1>2, <1>3, <2>1 DEF EventsOK
<1>10. NetOK' /\ SaidOK' /\ OnlineHasWill'
  <2>1. UNCHANGED net /\ UNCHANGED <<created, said, refused, late>>
    BY <1>2 DEF net
  <2> QED
    BY <1>2, <2>1, MqFrames, NetFrames
<1>11. ConnInv'
  BY <1>1, <1>2, <1>4 DEF ConnInv
<1>12. OneInv'
  <2>1. \A c \in Clients : Retired(c)' => Retired(c)
    BY <1>2, <1>4, <1>6 DEF Retired
  <2> QED
    BY <1>1, <1>2, <1>3, <1>4, <1>5, <1>6, <2>1 DEF OneInv
<1>13. NetInv'
  BY <1>2, <1>4 DEF MqInv, NetInv
<1>14. WillInv'
  <2>0. \A c \in Clients : client' # c
    BY <1>2, <1>4, MqBounds DEF NoClient, Clients
  <2> SUFFICES ASSUME NEW c \in Clients, link[c] = "up"
               PROVE  OtherWill(c)' \/ (b.online /\ ~ b.told)
    BY <1>1, <1>2, <1>6, <2>0 DEF WillInv
  <2>1. OtherWill(c)' = OtherWill(c)
    BY <1>2 DEF OtherWill
  <2>2. OtherWill(c) \/ state = "connected"
    BY <1>1 DEF MqInv, WillInv
  <2> QED
    BY <1>5, <2>1, <2>2
<1>15. OnlineStays' /\ OnlineNotLost'
  BY <1>2, <1>4 DEF OnlineStays, OnlineNotLost
<1> QED
  BY <1>7, <1>8, <1>9, <1>10, <1>11, <1>12, <1>13, <1>14, <1>15, NextTypes DEF MqInv

\* Before a client is created there is none.
LEMMA NoneLeft ==
  ASSUME MqInv, pass = "manage", client = NoClient, stopping = 0
  PROVE  /\ stopArgs = {}
         /\ \A c \in Clients : link[c] \in {"none", "gone"} /\ handler[c] = "none" /\ queued[c] = 0
<1>1. stopArgs = {}
  BY DEF MqInv, OneInv
<1> QED
  BY <1>1 DEF MqInv, OneInv, Retired

LEMMA StartClientStep ==
  ASSUME MqInv, StartClient
  PROVE  MqInv'
<1> DEFINE n == created + 1
<1>1. /\ pass = "manage" /\ client = NoClient /\ run # NoRun /\ stopping = 0
      /\ created < MaxClients /\ created' = n
      /\ link' = [link EXCEPT ![n] = "connecting"]
      /\ conn' = [conn EXCEPT ![n] = run.cfg]
      /\ client' = n /\ state' = "connecting" /\ said' = FALSE /\ refused' = FALSE
      /\ pass' = "idle"
      /\ UNCHANGED <<httpd, run, reconnect, tplErr, shot, onlineDue, handler, stop, flash,
                     queued, session, retained, late, bounds>>
  BY DEF StartClient, MayStart
<1>2. /\ run' = run /\ tplErr' = tplErr /\ shot' = shot /\ reconnect' = reconnect
      /\ onlineDue' = onlineDue /\ handler' = handler /\ stopArgs' = stopArgs
      /\ stopping' = stopping /\ queued' = queued /\ session' = session
      /\ retained' = retained /\ late' = late /\ meters' = meters /\ losses' = losses
      /\ cfg' = cfg /\ pendingReconnect' = pendingReconnect
      /\ UNCHANGED <<httpd, flash>>
  BY <1>1 DEF stop, bounds, httpd
<1>3. HttpdOK /\ LoopOK /\ EventsOK /\ NetOK /\ SaidOK /\ OneInv /\ NetInv /\ CfgInv
  BY TypeParts DEF MqInv
<1>4. /\ stopArgs = {}
      /\ \A c \in Clients : link[c] \in {"none", "gone"} /\ handler[c] = "none" /\ queued[c] = 0
  BY <1>1, NoneLeft
<1>5. n \in Clients /\ n \in 0 .. MaxClients /\ n # NoClient /\ n > created /\ n \in Nat
  BY <1>1, ClientIs, MqBounds DEF Clients, NoClient
<1>6. run.cfg \in Settings /\ run.cfg.enabled
  BY <1>1, <1>3, RunIs DEF LoopOK, CfgInv
<1> HIDE DEF n
<1>7. /\ link'[n] = "connecting" /\ conn'[n] = run.cfg
      /\ \A c \in Clients : c # n => link'[c] = link[c] /\ conn'[c] = conn[c]
      /\ link' \in [Clients -> {"none", "connecting", "up", "broken", "gone"}]
      /\ conn' \in [Clients -> Settings]
  BY <1>1, <1>3, <1>5, <1>6 DEF NetOK
<1>8. HttpdOK' /\ CfgInv'
  BY <1>2, RunRests
<1>9. LoopOK' /\ EventsOK'
  BY <1>1, <1>2, <1>3, <1>5 DEF LoopOK, EventsOK, Runs
<1>10. NetOK' /\ SaidOK'
  BY <1>1, <1>2, <1>3, <1>5, <1>7 DEF NetOK, SaidOK
<1>11. ConnInv'
  <2>1. ~ pendingReconnect => ~ ConnDiffers(run.cfg, cfg)
    BY <1>1, <1>3 DEF CfgInv
  <2> QED
    BY <1>1, <1>2, <1>6, <1>7, <2>1, ConnEqual DEF ConnInv
<1>12. OneInv'
  <2>1. \A c \in Clients : Retired(c)' => c # n
    BY <1>1, <1>5 DEF Retired
  <2> QED
    BY <1>1, <1>2, <1>4, <1>5, <1>7, <2>1 DEF OneInv
<1>13. \A i \in Ids : session[i] # NoClient =>
          /\ session[i] \in Clients /\ session[i] <= created /\ session[i] # n
          /\ conn'[session[i]] = conn[session[i]]
  BY <1>3, <1>5, <1>7, ClientIs DEF NetInv, NetOK, Clients
<1>14. \A c \in Clients : link'[c] # "up"
  BY <1>4, <1>7
<1>15. NetInv'
  <2>1. \A i \in Ids : session[i] # NoClient => session[i] <= n /\ conn'[session[i]].id = i
    BY <1>3, <1>5, <1>13, ClientIs DEF NetInv, Clients
  <2>2. losses = 0 => \A i \in Ids : session[i] # NoClient => link'[session[i]] = "up"
    BY <1>3, <1>7, <1>13 DEF NetInv
  <2>3. \A c \in Clients : queued'[c] = 0
    BY <1>2, <1>4
  <2>4. /\ losses \in Nat /\ losses' = losses /\ session' = session /\ client' = n
        /\ created' = n /\ ~ said'
    BY <1>1, <1>2, <1>3 DEF NetInv
  <2>5. link'[client'] # "up"
    BY <1>5, <1>14, <2>4
  <2>6. /\ losses' \in Nat
        /\ \A i \in Ids : session'[i] # NoClient => session'[i] <= created' /\ conn'[session'[i]].id = i
        /\ losses' = 0 => \A i \in Ids : session'[i] # NoClient => link'[session'[i]] = "up"
    BY <2>1, <2>2, <2>4
  <2>7. /\ \A c \in Clients : link'[c] = "up" => session'[conn'[c].id] = c
        /\ \A c \in Clients : queued'[c] > 0 => conn'[c].topic \in Topics
    BY <1>14, <2>3
  <2> QED
    BY <2>4, <2>5, <2>6, <2>7 DEF NetInv
<1>16. WillInv'
  BY <1>14 DEF WillInv
<1>17. OnlineHasWill'
  BY <1>2, <1>13 DEF MqInv, OnlineHasWill
<1>18. OnlineStays' /\ OnlineNotLost'
  BY <1>1, <1>5, <1>14 DEF OnlineStays, OnlineNotLost
<1> QED
  BY <1>8, <1>9, <1>10, <1>11, <1>12, <1>15, <1>16, <1>17, <1>18, NextTypes DEF MqInv

LEMMA StartFailsStep ==
  ASSUME MqInv, StartFails
  PROVE  MqInv'
<1>1. /\ pass = "manage" /\ client = NoClient /\ run # NoRun /\ stopping = 0
      /\ state' = "off" /\ pass' = "idle"
      /\ UNCHANGED <<httpd, run, reconnect, tplErr, client, shot, onlineDue, handler, stop,
                     flash, net, history, bounds>>
  BY DEF StartFails, MayStart
<1>2. /\ run' = run /\ tplErr' = tplErr /\ shot' = shot /\ reconnect' = reconnect
      /\ client' = client /\ handler' = handler /\ onlineDue' = onlineDue
      /\ stopArgs' = stopArgs /\ stopping' = stopping
      /\ link' = link /\ conn' = conn /\ queued' = queued /\ session' = session
      /\ retained' = retained /\ created' = created /\ said' = said /\ refused' = refused
      /\ late' = late /\ meters' = meters /\ losses' = losses
      /\ UNCHANGED <<httpd, flash>>
  BY <1>1 DEF net, history, bounds, stop
<1>3. LoopOK /\ EventsOK
  BY TypeParts DEF MqInv
<1>4. HttpdOK' /\ CfgInv'
  BY <1>2, RunRests
<1>5. LoopOK' /\ EventsOK'
  BY <1>1, <1>2, <1>3 DEF LoopOK, EventsOK, Runs
<1>6. NetOK' /\ SaidOK' /\ OnlineHasWill' /\ OneInv'
  <2>1. UNCHANGED net /\ UNCHANGED <<created, said, refused, late>>
    BY <1>2 DEF net
  <2> QED
    BY <1>1, <1>2, <2>1, MqFrames, NetFrames
<1>7. ConnInv' /\ OnlineStays' /\ OnlineNotLost'
  BY <1>1, <1>2 DEF ConnInv, OnlineStays, OnlineNotLost
<1>8. NetInv'
  BY <1>1, <1>2 DEF MqInv, NetInv
<1>9. WillInv'
  <2>1. \A c \in Clients : link'[c] # "up"
    BY <1>1, <1>2, NoneLeft
  <2> QED
    BY <2>1 DEF WillInv
<1> QED
  BY <1>4, <1>5, <1>6, <1>7, <1>8, <1>9, NextTypes DEF MqInv

LEMMA AnnounceStep ==
  ASSUME MqInv, Announce
  PROVE  MqInv'
<1>1. /\ pass = "announce" /\ pass' = "publish" /\ onlineDue' = FALSE
      /\ \/ Announces /\ queued' = [queued EXCEPT ![client] = @ + 1] /\ refused' = refused
         \/ Announces /\ refused' = TRUE /\ queued' = queued
         \/ ~ Announces /\ queued' = queued /\ refused' = refused
      /\ UNCHANGED <<httpd, run, reconnect, tplErr, client, shot, state, handler, stop, flash,
                     link, conn, session, retained, created, said, late, bounds>>
  BY DEF Announce
<1>2. /\ run' = run /\ tplErr' = tplErr /\ shot' = shot /\ reconnect' = reconnect
      /\ client' = client /\ handler' = handler /\ state' = state
      /\ stopArgs' = stopArgs /\ stopping' = stopping
      /\ link' = link /\ conn' = conn /\ session' = session
      /\ retained' = retained /\ created' = created /\ said' = said
      /\ late' = late /\ meters' = meters /\ losses' = losses
      /\ cfg' = cfg /\ pendingReconnect' = pendingReconnect
      /\ UNCHANGED <<httpd, flash>>
  BY <1>1 DEF bounds, stop, httpd
<1>3. LoopOK /\ EventsOK /\ NetOK /\ SaidOK /\ ConnInv /\ OneInv /\ NetInv
  BY TypeParts DEF MqInv
<1>4. /\ client # NoClient /\ client = created /\ client \in Clients /\ stopArgs = {}
      /\ run # NoRun /\ conn[client].topic = run.cfg.topic
  <2>1. client # NoClient /\ ~ reconnect
    BY <1>1, <1>3 DEF ConnInv
  <2>2. run # NoRun /\ ~ ConnDiffers(conn[client], run.cfg)
    BY <1>3, <2>1 DEF ConnInv
  <2> QED
    BY <2>1, <2>2, ClientIs, ConnEqual
<1>5. /\ queued' \in [Clients -> Nat] /\ refused' \in BOOLEAN
      /\ \A c \in Clients : c # client => queued'[c] = queued[c]
      /\ queued'[client] > 0 => queued[client] > 0 \/ Announces
      /\ Announces => queued'[client] > 0 \/ refused'
      /\ queued[client] > 0 => queued'[client] > 0
      /\ refused => refused'
  <2>1. queued \in [Clients -> Nat] /\ queued[client] \in Nat
    BY <1>3, <1>4 DEF NetOK
  <2> DEFINE q == [queued EXCEPT ![client] = @ + 1]
  <2>2. q \in [Clients -> Nat] /\ q[client] > 0 /\ \A c \in Clients : c # client => q[c] = queued[c]
    BY <1>4, <2>1
  <2>3. \/ Announces /\ queued' = q /\ refused' = refused
        \/ Announces /\ refused' = TRUE /\ queued' = queued
        \/ ~ Announces /\ queued' = queued /\ refused' = refused
    BY <1>1
  <2> HIDE DEF q
  <2>4. queued' = q \/ queued' = queued
    BY <2>3
  <2>5. /\ queued' \in [Clients -> Nat]
        /\ \A c \in Clients : c # client => queued'[c] = queued[c]
        /\ queued[client] > 0 => queued'[client] > 0
    BY <2>1, <2>2, <2>4
  <2>6. refused' \in BOOLEAN /\ (refused => refused')
    BY <1>3, <2>3, Zenon DEF SaidOK
  <2>7. queued' = q \/ refused' \/ ~ Announces
    BY <2>3, Zenon
  <2>8. queued' = queued \/ Announces
    BY <2>3, Zenon
  <2> QED
    BY <2>2, <2>5, <2>6, <2>7, <2>8
<1>6. HttpdOK' /\ CfgInv'
  BY <1>2, RunRests
<1>7. LoopOK' /\ EventsOK'
  BY <1>1, <1>2, <1>3 DEF LoopOK, EventsOK, Runs
<1>8. NetOK' /\ SaidOK'
  BY <1>2, <1>3, <1>5 DEF NetOK, SaidOK
<1>9. ConnInv'
  BY <1>1, <1>2, <1>3 DEF ConnInv
<1>10. OneInv'
  BY <1>1, <1>2, <1>3, <1>4, <1>5 DEF OneInv, Retired
<1>11. NetInv'
  <2>1. Announces => conn[client].topic \in Topics
    <3>1. conn[client].topic \in Topics \cup {NoTopic}
      BY <1>3, <1>4 DEF NetOK, Settings
    <3> QED
      BY <1>4, <3>1 DEF Announces
  <2>2. \A c \in Clients : queued'[c] > 0 => conn'[c].topic \in Topics
    BY <1>2, <1>3, <1>5, <2>1 DEF NetInv
  <2> QED
    BY <1>2, <1>3, <2>2 DEF NetInv
<1>12. WillInv' /\ OnlineHasWill' /\ OnlineStays'
  BY <1>1, <1>2, NetFrames
<1>13. OnlineNotLost'
  <2> SUFFICES ASSUME link[client] = "up", handler[client] = "none", conn[client].topic # NoTopic
               PROVE  said \/ refused' \/ queued'[client] > 0
    BY <1>2 DEF OnlineNotLost
  <2>1. said \/ refused \/ queued[client] > 0 \/ (onlineDue /\ state = "connected")
    BY <1>4 DEF MqInv, OnlineNotLost
  <2>2. onlineDue /\ state = "connected" => Announces
    BY <1>4 DEF Announces
  <2> QED
    BY <1>5, <2>1, <2>2
<1> QED
  BY <1>6, <1>7, <1>8, <1>9, <1>10, <1>11, <1>12, <1>13, NextTypes DEF MqInv

-----------------------------------------------------------------------------
(* The tear-down task.                                                     *)

\* The steps of the other tasks leave the settings alone.
LEMMA LoopRests ==
  ASSUME MqInv, UNCHANGED <<httpd, loop, flash, meters, conn>>
  PROVE  HttpdOK' /\ LoopOK' /\ CfgInv' /\ ConnInv'
<1>1. /\ cfg' = cfg /\ pendingSet' = pendingSet /\ pendingRun' = pendingRun
      /\ pendingReconnect' = pendingReconnect /\ profile' = profile /\ gen' = gen
      /\ nvs' = nvs /\ unsaved' = unsaved /\ run' = run /\ tplErr' = tplErr /\ meters' = meters
      /\ pass' = pass /\ reconnect' = reconnect /\ client' = client /\ conn' = conn
  BY DEF httpd, flash, loop
<1> QED
  BY <1>1, MqFrames, LoopFrames

LEMMA SayOfflineStep ==
  ASSUME MqInv, NEW a \in stopArgs, SayOffline(a)
  PROVE  MqInv'
<1> DEFINE b == [a EXCEPT !.told = TRUE]
<1>1. /\ pass # "stop" /\ ~ a.told /\ stopArgs' = (stopArgs \ {a}) \cup {b}
      /\ retained' = [t \in Topics |->
                        IF a.online /\ conn[a.client].topic = t /\ link[a.client] = "up"
                        THEN "offline" ELSE retained[t]]
      /\ UNCHANGED <<httpd, loop, events, stopping, flash,
                     link, conn, queued, session, history, bounds>>
  BY DEF SayOffline
<1>2. /\ pass' = pass /\ client' = client /\ state' = state /\ onlineDue' = onlineDue
      /\ handler' = handler /\ stopping' = stopping
      /\ link' = link /\ conn' = conn /\ queued' = queued /\ session' = session
      /\ created' = created /\ said' = said /\ refused' = refused
      /\ late' = late /\ meters' = meters /\ losses' = losses
      /\ UNCHANGED <<httpd, loop, flash>>
  BY <1>1 DEF loop, events, history, bounds
<1>3. LoopOK /\ EventsOK /\ NetOK /\ OneInv
  BY TypeParts DEF MqInv
<1>4. /\ client = NoClient /\ created # NoClient /\ stopping = 1 /\ stopArgs = {a} /\ a.client = created
      /\ a \in [client : Clients, online : BOOLEAN, told : BOOLEAN]
  BY <1>1, <1>3 DEF OneInv, EventsOK
<1>5. /\ b \in [client : Clients, online : BOOLEAN, told : BOOLEAN]
      /\ b.client = created /\ b.told /\ b.online = a.online
  BY <1>4
<1> HIDE DEF b
<1>6. stopArgs' = {b}
  BY <1>1, <1>4
<1>7. HttpdOK' /\ LoopOK' /\ CfgInv' /\ ConnInv'
  BY <1>2, LoopRests
<1>8. EventsOK'
  BY <1>2, <1>3, <1>5, <1>6 DEF EventsOK
<1>9. SaidOK'
  BY <1>2, MqFrames
<1>10. /\ retained' \in [Topics -> {"none", "online", "offline"}]
       /\ \A t \in Topics : retained'[t] = "online" => retained[t] = "online"
       /\ a.online /\ link[created] = "up" =>
            \A t \in Topics : conn[created].topic = t => retained'[t] = "offline"
  BY <1>1, <1>3, <1>4 DEF NetOK
<1>11. NetOK'
  BY <1>2, <1>3, <1>10 DEF NetOK
<1>12. OneInv'
  <2>1. \A c \in Clients : Retired(c)' => Retired(c)
    BY <1>2, <1>4, <1>6 DEF Retired
  <2> QED
    BY <1>1, <1>2, <1>3, <1>4, <1>5, <1>6, <2>1 DEF OneInv
<1>13. NetInv'
  BY <1>2, NetFrames
<1>14. OnlineHasWill'
  BY <1>2, <1>10 DEF MqInv, OnlineHasWill
<1>15. WillInv'
  <2>0. \A c \in Clients : client' # c
    BY <1>2, <1>4, MqBounds DEF NoClient, Clients
  <2> SUFFICES ASSUME NEW c \in Clients, link[c] = "up"
               PROVE  OtherWill(c)'
    BY <1>1, <1>2, <1>6, <2>0 DEF WillInv
  <2>1. c = created
    BY <1>3 DEF OneInv, Retired
  <2>2. OtherWill(c) \/ a.online
    BY <1>1 DEF MqInv, WillInv
  <2>3. CASE a.online
    <3>1. \A t \in Topics : conn[c].topic = t => retained'[t] = "offline"
      BY <1>10, <2>1, <2>3
    <3> QED
      BY <1>2, <3>1 DEF OtherWill
  <2>4. CASE OtherWill(c)
    BY <1>2, <1>10, <2>4 DEF OtherWill
  <2> QED
    BY <2>2, <2>3, <2>4
<1>16. OnlineStays' /\ OnlineNotLost'
  BY <1>2, <1>4 DEF OnlineStays, OnlineNotLost
<1> QED
  BY <1>7, <1>8, <1>9, <1>11, <1>12, <1>13, <1>14, <1>15, <1>16, NextTypes DEF MqInv

LEMMA DestroyStep ==
  ASSUME MqInv, NEW a \in stopArgs, Destroy(a)
  PROVE  MqInv'
<1> DEFINE c == a.client
<1>1. /\ a.told /\ handler[c] = "none" /\ stopArgs' = stopArgs \ {a} /\ stopping' = stopping - 1
      /\ session' = [i \in Ids |-> IF session[i] = c /\ link[c] = "up"
                                   THEN NoClient ELSE session[i]]
      /\ link' = [link EXCEPT ![c] = "gone"]
      /\ queued' = [queued EXCEPT ![c] = 0]
      /\ UNCHANGED <<httpd, loop, events, flash, conn, retained, history, bounds>>
  BY DEF Destroy
<1>2. /\ pass' = pass /\ client' = client /\ state' = state /\ onlineDue' = onlineDue
      /\ handler' = handler /\ conn' = conn /\ retained' = retained
      /\ created' = created /\ said' = said /\ refused' = refused
      /\ late' = late /\ meters' = meters /\ losses' = losses
      /\ UNCHANGED <<httpd, loop, flash>>
  BY <1>1 DEF loop, events, history, bounds
<1>3. LoopOK /\ EventsOK /\ NetOK /\ OneInv /\ NetInv
  BY TypeParts DEF MqInv
<1>4. /\ client = NoClient /\ created # NoClient /\ pass # "stop" /\ stopping = 1
      /\ stopArgs = {a} /\ c = created /\ c \in Clients
  BY <1>1, <1>3, ClientIs DEF OneInv
<1> HIDE DEF c
<1>5. stopArgs' = {} /\ stopping' = 0
  BY <1>1, <1>4
<1>6. /\ link'[c] = "gone" /\ queued'[c] = 0
      /\ \A d \in Clients : d # c => link'[d] = link[d] /\ queued'[d] = queued[d]
      /\ link' \in [Clients -> {"none", "connecting", "up", "broken", "gone"}]
      /\ queued' \in [Clients -> Nat]
  BY <1>1, <1>3, <1>4 DEF NetOK
<1>7. /\ session' \in [Ids -> Clients \cup {NoClient}]
      /\ \A i \in Ids : IF session[i] = c /\ link[c] = "up" THEN session'[i] = NoClient
                                                            ELSE session'[i] = session[i]
  BY <1>1, <1>3 DEF NetOK
<1>8. HttpdOK' /\ LoopOK' /\ CfgInv' /\ ConnInv'
  BY <1>2, LoopRests
<1>9. EventsOK' /\ SaidOK'
  <2>1. SaidOK'
    BY <1>2, MqFrames
  <2> QED
    BY <1>2, <1>3, <1>5, <2>1 DEF EventsOK
<1>10. NetOK'
  BY <1>2, <1>3, <1>6, <1>7 DEF NetOK
<1>11. \A d \in Clients : d # c => link[d] \in {"none", "gone"} /\ handler[d] = "none" /\ queued[d] = 0
  BY <1>3, <1>4 DEF OneInv, Retired
<1>12. OneInv'
  BY <1>1, <1>2, <1>3, <1>4, <1>5, <1>6, <1>11 DEF OneInv
<1>13. \A d \in Clients : link'[d] # "up" /\ queued'[d] = 0
  BY <1>6, <1>11
<1>14. NetInv'
  <2>1. \A i \in Ids : session'[i] # NoClient => session'[i] = session[i]
    BY <1>7
  <2>2. losses = 0 => \A i \in Ids : session'[i] = NoClient
    <3> SUFFICES ASSUME losses = 0, NEW i \in Ids, session[i] # NoClient
                 PROVE  session[i] = c /\ link[c] = "up"
      BY <1>7
    <3>1. session[i] \in Clients /\ link[session[i]] = "up"
      BY <1>3 DEF NetInv, NetOK
    <3> QED
      BY <1>11, <3>1
  <2> QED
    BY <1>2, <1>3, <1>4, <1>13, <2>1, <2>2 DEF NetInv
<1>15. WillInv'
  BY <1>13 DEF WillInv
<1>16. OnlineHasWill'
  <2> SUFFICES ASSUME NEW t \in Topics \ late, retained[t] = "online"
               PROVE  \E i \in Ids : session'[i] # NoClient /\ conn[session'[i]].topic = t
    BY <1>2 DEF OnlineHasWill
  <2>1. PICK i \in Ids : session[i] # NoClient /\ conn[session[i]].topic = t
    BY DEF MqInv, OnlineHasWill
  <2>2. CASE session[i] = c /\ link[c] = "up"
    <3>1. OtherWill(c)
      BY <1>1, <1>4, <2>2 DEF MqInv, WillInv
    <3>2. PICK j \in Ids : session[j] \notin {NoClient, c} /\ conn[session[j]].topic = t
      BY <2>1, <2>2, <3>1 DEF OtherWill
    <3> QED
      BY <1>7, <3>2
  <2>3. CASE ~ (session[i] = c /\ link[c] = "up")
    BY <1>7, <2>1, <2>3
  <2> QED
    BY <2>2, <2>3
<1>17. OnlineStays' /\ OnlineNotLost'
  BY <1>2, <1>4 DEF OnlineStays, OnlineNotLost
<1> QED
  BY <1>8, <1>9, <1>10, <1>12, <1>14, <1>15, <1>16, <1>17, NextTypes DEF MqInv

-----------------------------------------------------------------------------
(* The client's task, the broker, restarts.                                *)

\* The event handler is that of the one client with a task.
LEMMA HandleStep ==
  ASSUME MqInv, NEW c \in Clients, Handle(c)
  PROVE  MqInv'
<1>1. /\ \/ handler[c] = "connected" /\ state' = "connected"
            /\ handler' = [handler EXCEPT ![c] = "due"] /\ onlineDue' = onlineDue
         \/ handler[c] = "due" /\ onlineDue' = TRUE
            /\ handler' = [handler EXCEPT ![c] = "none"] /\ state' = state
         \/ handler[c] = "disconnected" /\ state' = "connecting"
            /\ handler' = [handler EXCEPT ![c] = "none"] /\ onlineDue' = onlineDue
      /\ UNCHANGED <<httpd, loop, stop, flash, net, history, bounds>>
  BY DEF Handle
<1>2. /\ pass' = pass /\ client' = client /\ stopArgs' = stopArgs /\ stopping' = stopping
      /\ link' = link /\ conn' = conn /\ queued' = queued /\ session' = session
      /\ retained' = retained
      /\ created' = created /\ said' = said /\ refused' = refused
      /\ late' = late /\ meters' = meters /\ losses' = losses
      /\ UNCHANGED <<httpd, loop, flash, net>>
  BY <1>1 DEF loop, stop, net, history, bounds
<1>3. LoopOK /\ EventsOK /\ NetOK /\ OneInv /\ NetInv
  BY TypeParts DEF MqInv
<1>4. /\ ~ Retired(c) /\ c = created
      /\ \A d \in Clients : d # c => handler[d] = "none" /\ link[d] \in {"none", "gone"}
  BY <1>1, <1>3 DEF OneInv, Retired
<1>5. client = c \/ client = NoClient
  BY <1>4, ClientIs
<1>6. /\ handler' \in [Clients -> {"none", "connected", "due", "disconnected"}]
      /\ \A d \in Clients : d # c => handler'[d] = handler[d]
      /\ \/ handler[c] = "connected" /\ handler'[c] = "due" /\ state' = "connected"
         \/ handler[c] = "due" /\ handler'[c] = "none" /\ state' = state /\ onlineDue'
         \/ handler[c] = "disconnected" /\ handler'[c] = "none" /\ state' = "connecting"
            /\ link[c] = "connecting"
  BY <1>1, <1>3 DEF EventsOK, OneInv
<1>7. HttpdOK' /\ LoopOK' /\ CfgInv' /\ ConnInv'
  BY <1>2, LoopRests
<1>8. EventsOK'
  <2>1. onlineDue' \in BOOLEAN /\ state' \in {"off", "connecting", "connected"}
    BY <1>1, <1>3 DEF EventsOK
  <2> QED
    BY <1>2, <1>3, <1>6, <2>1 DEF EventsOK
<1>9. NetOK' /\ SaidOK' /\ OnlineHasWill' /\ OnlineStays'
  BY <1>2, MqFrames, NetFrames
<1>10. OneInv'
  BY <1>2, <1>3, <1>4, <1>6 DEF OneInv, Retired
<1>11. NetInv'
  <2>1. client # NoClient /\ link[client] = "up" /\ handler'[client] \in {"none", "due"} =>
          state' = "connected"
    BY <1>3, <1>5, <1>6 DEF NetInv
  <2> QED
    BY <1>2, <1>3, <2>1 DEF NetInv
<1>12. WillInv'
  <2>1. \A d : OtherWill(d)' = OtherWill(d)
    BY <1>2 DEF OtherWill
  <2>2. ASSUME NEW d \in Clients, link[d] = "up", state = "connected" PROVE state' = "connected"
    BY <1>4, <1>6, <2>2
  <2> QED
    BY <1>2, <2>1, <2>2 DEF MqInv, WillInv
<1>13. OnlineNotLost'
  <2> SUFFICES ASSUME client # NoClient, link[client] = "up", handler'[client] = "none",
                      conn[client].topic # NoTopic
               PROVE  onlineDue' /\ state' = "connected"
    BY <1>2 DEF OnlineNotLost
  <2>1. client = c
    BY <1>5
  <2>2. handler[c] = "due" /\ state' = state /\ onlineDue'
    BY <1>6, <2>1
  <2> QED
    BY <1>3, <2>1, <2>2 DEF NetInv
<1> QED
  BY <1>7, <1>8, <1>9, <1>10, <1>11, <1>12, <1>13, NextTypes DEF MqInv

\* A client that has a task is the one that was created last.
LEMMA TaskIs ==
  ASSUME MqInv, NEW c \in Clients, link[c] \in {"connecting", "up", "broken"}
  PROVE  /\ c = created /\ ~ Retired(c) /\ (client = c \/ (client = NoClient /\ stopArgs # {}))
         /\ \A d \in Clients : d # c =>
              link[d] \in {"none", "gone"} /\ handler[d] = "none" /\ queued[d] = 0
<1>1. ~ Retired(c)
  BY DEF MqInv, OneInv
<1>2. c = created /\ (client # NoClient \/ stopArgs # {})
  BY <1>1 DEF Retired
<1>3. client = c \/ client = NoClient
  BY <1>2, ClientIs
<1> QED
  BY <1>1, <1>2, <1>3 DEF MqInv, OneInv, Retired

LEMMA ConnectsStep ==
  ASSUME MqInv, NEW c \in Clients, Connects(c)
  PROVE  MqInv'
<1> DEFINE id == conn[c].id
           prior == session[id]
           e == IF c = client THEN "connected" ELSE "none"
<1>1. /\ link[c] = "connecting" /\ handler[c] = "none"
      /\ link' = [d \in Clients |-> IF d = c THEN "up"
                                    ELSE IF d = prior /\ link[d] = "up" THEN "broken" ELSE link[d]]
      /\ session' = [session EXCEPT ![id] = c]
      /\ retained' = [t \in Topics |->
                        IF prior # NoClient /\ conn[prior].topic = t THEN "offline" ELSE retained[t]]
      /\ IF c = client THEN said' = FALSE /\ refused' = FALSE ELSE said' = said /\ refused' = refused
      /\ handler' = [handler EXCEPT ![c] = e]
      /\ UNCHANGED <<httpd, loop, state, onlineDue, stop, flash, conn, queued, created, late, bounds>>
  BY DEF Connects, Event
<1>2. /\ pass' = pass /\ client' = client /\ stopArgs' = stopArgs /\ stopping' = stopping
      /\ state' = state /\ onlineDue' = onlineDue
      /\ conn' = conn /\ queued' = queued /\ created' = created
      /\ late' = late /\ meters' = meters /\ losses' = losses
      /\ UNCHANGED <<httpd, loop, flash>>
  BY <1>1 DEF loop, stop, bounds
<1>3. LoopOK /\ EventsOK /\ NetOK /\ SaidOK /\ OneInv /\ NetInv
  BY TypeParts DEF MqInv
<1>4. /\ c = created /\ ~ Retired(c) /\ (client = c \/ (client = NoClient /\ stopArgs # {}))
      /\ \A d \in Clients : d # c =>
           link[d] \in {"none", "gone"} /\ handler[d] = "none" /\ queued[d] = 0
  BY <1>1, TaskIs
<1>5. id \in Ids
  BY <1>3 DEF NetOK, Settings
<1> HIDE DEF id
<1>6. /\ session' \in [Ids -> Clients \cup {NoClient}] /\ session'[id] = c
      /\ \A i \in Ids : i # id => session'[i] = session[i]
      /\ prior \in Clients \cup {NoClient}
      /\ \A i \in Ids : session[i] \in Clients \cup {NoClient}
  BY <1>1, <1>3, <1>5 DEF NetOK
<1> HIDE DEF prior
<1>7. /\ link'[c] = "up" /\ link' \in [Clients -> {"none", "connecting", "up", "broken", "gone"}]
      /\ \A d \in Clients : d # c => link'[d] = link[d]
  BY <1>1, <1>3, <1>4 DEF NetOK
<1>8. /\ handler' \in [Clients -> {"none", "connected", "due", "disconnected"}]
      /\ handler'[c] = e /\ \A d \in Clients : d # c => handler'[d] = handler[d]
  BY <1>1, <1>3 DEF EventsOK
<1>9. /\ retained' \in [Topics -> {"none", "online", "offline"}]
      /\ \A t \in Topics : retained'[t] = "online" =>
           retained[t] = "online" /\ ~ (prior # NoClient /\ conn[prior].topic = t)
  BY <1>1, <1>3 DEF NetOK
<1>10. HttpdOK' /\ LoopOK' /\ CfgInv' /\ ConnInv'
  BY <1>2, LoopRests
<1>11. EventsOK' /\ NetOK'
  BY <1>2, <1>3, <1>6, <1>7, <1>8, <1>9 DEF EventsOK, NetOK
<1>12. SaidOK'
  <2>1. said' \in BOOLEAN /\ refused' \in BOOLEAN
    BY <1>1, <1>3 DEF SaidOK
  <2> QED
    BY <1>2, <1>3, <2>1 DEF SaidOK
<1>13. OneInv'
  BY <1>2, <1>3, <1>4, <1>7, <1>8 DEF OneInv, Retired
<1>14. ASSUME NEW t \in Topics \ late, retained'[t] = "online"
       PROVE  \E i \in Ids : /\ i # id /\ session[i] \notin {NoClient, c} /\ session'[i] = session[i]
                             /\ conn[session[i]].topic = t
  <2>1. retained[t] = "online" /\ ~ (prior # NoClient /\ conn[prior].topic = t)
    BY <1>9, <1>14
  <2>2. PICK i \in Ids : session[i] # NoClient /\ conn[session[i]].topic = t
    BY <2>1 DEF MqInv, OnlineHasWill
  <2>3. i # id
    BY <2>1, <2>2 DEF prior
  <2>4. session[i] # c
    BY <1>3, <2>2, <2>3 DEF NetInv, id
  <2> QED
    BY <1>6, <2>2, <2>3, <2>4
<1>15. OnlineHasWill'
  <2>1. \A t \in Topics \ late : retained'[t] = "online" =>
          \E i \in Ids : session'[i] # NoClient /\ conn[session'[i]].topic = t
    BY <1>14
  <2> QED
    BY <1>2, <2>1 DEF OnlineHasWill
<1>16. WillInv'
  <2>1. \A d \in Clients : link'[d] = "up" => d = c
    BY <1>4, <1>7
  <2>2. OtherWill(c)'
    <3>1. \A t \in Topics \ late : retained'[t] = "online" =>
            \E i \in Ids : session'[i] \notin {NoClient, c} /\ conn[session'[i]].topic = t
      BY <1>14
    <3> QED
      BY <1>2, <3>1 DEF OtherWill
  <2> QED
    BY <2>1, <2>2 DEF WillInv
<1>17. NetInv'
  <2>1. \A i \in Ids : session'[i] # NoClient => session'[i] <= created /\ conn[session'[i]].id = i
    <3>1. c <= created /\ conn[c].id = id
      BY <1>4, ClientIs DEF id
    <3> QED
      BY <1>3, <1>6, <3>1 DEF NetInv
  <2>2. \A d \in Clients : link'[d] = "up" => session'[conn[d].id] = d
    BY <1>4, <1>6, <1>7 DEF id
  <2>3. losses = 0 => \A i \in Ids : session'[i] # NoClient => link'[session'[i]] = "up"
    <3> SUFFICES ASSUME losses = 0, NEW i \in Ids, i # id, session[i] # NoClient
                 PROVE  FALSE
      BY <1>6, <1>7
    <3>1. session[i] \in Clients /\ link[session[i]] = "up"
      BY <1>3, <1>6 DEF NetInv
    <3> QED
      BY <1>1, <1>4, <3>1
  <2>4. client # NoClient /\ said' => conn[client].topic \in Topics
    BY <1>1, <1>3, <1>4 DEF NetInv
  <2>5. client # NoClient => handler'[client] = "connected"
    BY <1>4, <1>8
  <2> QED
    BY <1>2, <1>3, <2>1, <2>2, <2>3, <2>4, <2>5 DEF NetInv
<1>18. OnlineStays'
  <2>1. client # NoClient => ~ said'
    BY <1>1, <1>4
  <2> QED
    BY <1>2, <2>1 DEF OnlineStays
<1>19. OnlineNotLost'
  <2>1. client # NoClient => handler'[client] = "connected"
    BY <1>4, <1>8
  <2> QED
    BY <1>2, <2>1 DEF OnlineNotLost
<1> QED
  BY <1>10, <1>11, <1>12, <1>13, <1>15, <1>16, <1>17, <1>18, <1>19, NextTypes DEF MqInv

\* While no client is connected nothing hangs on the will.
LEMMA NoneConnected ==
  ASSUME MqInv, client' = client, \A d \in Clients : link'[d] # "up"
  PROVE  WillInv' /\ OnlineStays' /\ OnlineNotLost'
<1>1. client # NoClient => client \in Clients
  BY ClientIs
<1> QED
  BY <1>1 DEF WillInv, OnlineStays, OnlineNotLost

LEMMA BreaksStep ==
  ASSUME MqInv, NEW c \in Clients, Breaks(c)
  PROVE  MqInv'
<1>1. /\ losses' = losses + 1 /\ link[c] = "up" /\ link' = [link EXCEPT ![c] = "broken"]
      /\ UNCHANGED <<httpd, loop, events, stop, flash, conn, queued, session, retained, history,
                     posts, meters>>
  BY DEF Breaks
<1>2. /\ pass' = pass /\ client' = client /\ stopArgs' = stopArgs /\ stopping' = stopping
      /\ state' = state /\ onlineDue' = onlineDue /\ handler' = handler
      /\ conn' = conn /\ queued' = queued /\ session' = session /\ retained' = retained
      /\ created' = created /\ said' = said /\ refused' = refused
      /\ late' = late /\ meters' = meters
      /\ UNCHANGED <<httpd, loop, flash>>
  BY <1>1 DEF loop, events, stop, history
<1>3. LoopOK /\ EventsOK /\ NetOK /\ OneInv /\ NetInv
  BY TypeParts DEF MqInv
<1>4. /\ c = created /\ ~ Retired(c)
      /\ \A d \in Clients : d # c => link[d] \in {"none", "gone"}
  BY <1>1, TaskIs
<1>5. /\ link'[c] = "broken" /\ link' \in [Clients -> {"none", "connecting", "up", "broken", "gone"}]
      /\ \A d \in Clients : d # c => link'[d] = link[d]
  BY <1>1, <1>3 DEF NetOK
<1>6. \A d \in Clients : link'[d] # "up"
  BY <1>4, <1>5
<1>7. HttpdOK' /\ LoopOK' /\ CfgInv' /\ ConnInv' /\ EventsOK' /\ SaidOK' /\ OnlineHasWill'
  BY <1>2, LoopRests, MqFrames, NetFrames
<1>8. NetOK'
  BY <1>2, <1>3, <1>5 DEF NetOK
<1>9. OneInv'
  BY <1>1, <1>2, <1>3, <1>4, <1>5 DEF OneInv, Retired
<1>10. NetInv'
  <2>1. losses' \in Nat /\ losses' # 0
    BY <1>1, <1>3 DEF NetInv
  <2>2. client # NoClient => link'[client] # "up"
    BY <1>6, ClientIs
  <2> QED
    BY <1>2, <1>3, <1>6, <2>1, <2>2 DEF NetInv
<1>11. WillInv' /\ OnlineStays' /\ OnlineNotLost'
  BY <1>2, <1>6, NoneConnected
<1> QED
  BY <1>7, <1>8, <1>9, <1>10, <1>11, NextTypes DEF MqInv

LEMMA ClientNoticesStep ==
  ASSUME MqInv, NEW c \in Clients, ClientNotices(c)
  PROVE  MqInv'
<1> DEFINE e == IF c = client THEN "disconnected" ELSE "none"
<1>1. /\ link[c] = "broken" /\ handler[c] = "none" /\ link' = [link EXCEPT ![c] = "connecting"]
      /\ handler' = [handler EXCEPT ![c] = e]
      /\ UNCHANGED <<httpd, loop, state, onlineDue, stop, flash, conn, queued, session, retained,
                     history, bounds>>
  BY DEF ClientNotices, Event
<1>2. /\ pass' = pass /\ client' = client /\ stopArgs' = stopArgs /\ stopping' = stopping
      /\ state' = state /\ onlineDue' = onlineDue
      /\ conn' = conn /\ queued' = queued /\ session' = session /\ retained' = retained
      /\ created' = created /\ said' = said /\ refused' = refused
      /\ late' = late /\ meters' = meters /\ losses' = losses
      /\ UNCHANGED <<httpd, loop, flash>>
  BY <1>1 DEF loop, stop, history, bounds
<1>3. LoopOK /\ EventsOK /\ NetOK /\ OneInv /\ NetInv
  BY TypeParts DEF MqInv
<1>4. /\ c = created /\ ~ Retired(c)
      /\ \A d \in Clients : d # c => link[d] \in {"none", "gone"} /\ handler[d] = "none"
  BY <1>1, TaskIs
<1>5. /\ link'[c] = "connecting"
      /\ link' \in [Clients -> {"none", "connecting", "up", "broken", "gone"}]
      /\ \A d \in Clients : d # c => link'[d] = link[d]
  BY <1>1, <1>3 DEF NetOK
<1>6. /\ handler' \in [Clients -> {"none", "connected", "due", "disconnected"}]
      /\ \A d \in Clients : d # c => handler'[d] = handler[d]
  BY <1>1, <1>3 DEF EventsOK
<1>7. \A d \in Clients : link'[d] # "up"
  BY <1>4, <1>5
<1>8. HttpdOK' /\ LoopOK' /\ CfgInv' /\ ConnInv' /\ SaidOK' /\ OnlineHasWill'
  BY <1>2, LoopRests, MqFrames, NetFrames
<1>9. EventsOK' /\ NetOK'
  BY <1>2, <1>3, <1>5, <1>6 DEF EventsOK, NetOK
<1>10. OneInv'
  BY <1>1, <1>2, <1>3, <1>4, <1>5, <1>6 DEF OneInv, Retired
<1>11. NetInv'
  <2>1. losses = 0 => \A i \in Ids : session[i] = NoClient
    <3> SUFFICES ASSUME losses = 0, NEW i \in Ids, session[i] # NoClient
                 PROVE  FALSE
      OBVIOUS
    <3>1. session[i] \in Clients /\ link[session[i]] = "up"
      BY <1>3 DEF NetInv, NetOK
    <3> QED
      BY <1>1, <1>4, <3>1
  <2>2. client # NoClient => link'[client] # "up"
    BY <1>7, ClientIs
  <2> QED
    BY <1>2, <1>3, <1>7, <2>1, <2>2 DEF NetInv
<1>12. WillInv' /\ OnlineStays' /\ OnlineNotLost'
  BY <1>2, <1>7, NoneConnected
<1> QED
  BY <1>8, <1>9, <1>10, <1>11, <1>12, NextTypes DEF MqInv

LEMMA SendQueuedStep ==
  ASSUME MqInv, NEW c \in Clients, SendQueued(c)
  PROVE  MqInv'
<1> DEFINE t == conn[c].topic
<1>1. /\ queued[c] > 0 /\ link[c] = "up" /\ handler[c] = "none"
      /\ queued' = [queued EXCEPT ![c] = queued[c] - 1]
      /\ retained' = [retained EXCEPT ![t] = "online"]
      /\ c = client => said' = TRUE /\ late' = late \ {t}
      /\ c # client => said' = said /\ late' = late \cup {t}
      /\ UNCHANGED <<httpd, loop, events, stop, flash, link, conn, session, created, refused, bounds>>
  BY DEF SendQueued
<1>2. /\ pass' = pass /\ client' = client /\ stopArgs' = stopArgs /\ stopping' = stopping
      /\ state' = state /\ onlineDue' = onlineDue /\ handler' = handler
      /\ link' = link /\ conn' = conn /\ session' = session
      /\ created' = created /\ refused' = refused /\ meters' = meters /\ losses' = losses
      /\ UNCHANGED <<httpd, loop, flash>>
  BY <1>1 DEF loop, events, stop, bounds
<1>3. LoopOK /\ EventsOK /\ NetOK /\ SaidOK /\ OneInv /\ NetInv
  BY TypeParts DEF MqInv
<1>4. /\ c = created /\ ~ Retired(c) /\ (client = c \/ (client = NoClient /\ stopArgs # {}))
      /\ \A d \in Clients : d # c => link[d] \in {"none", "gone"} /\ queued[d] = 0
  BY <1>1, TaskIs
<1>5. t \in Topics
  BY <1>1, <1>3 DEF NetInv
<1> HIDE DEF t
<1>6. /\ queued' \in [Clients -> Nat] /\ \A d \in Clients : d # c => queued'[d] = queued[d]
  BY <1>1, <1>3 DEF NetOK
<1>7. /\ retained' \in [Topics -> {"none", "online", "offline"}] /\ retained'[t] = "online"
      /\ \A u \in Topics : u # t => retained'[u] = retained[u]
  BY <1>1, <1>3, <1>5 DEF NetOK
<1>8. /\ late' \subseteq Topics
      /\ \A u \in Topics : u # t => (u \in late' <=> u \in late)
      /\ c # client => t \in late'
  BY <1>1, <1>3, <1>5 DEF SaidOK
<1>9. HttpdOK' /\ LoopOK' /\ CfgInv' /\ ConnInv' /\ EventsOK'
  BY <1>2, LoopRests, MqFrames
<1>10. NetOK'
  BY <1>2, <1>3, <1>6, <1>7 DEF NetOK
<1>11. SaidOK'
  <2>1. said' \in BOOLEAN
    BY <1>1, <1>3 DEF SaidOK
  <2> QED
    BY <1>2, <1>3, <1>8, <2>1 DEF SaidOK
<1>12. OneInv'
  BY <1>2, <1>3, <1>4, <1>6 DEF OneInv, Retired
<1>13. NetInv'
  <2>1. \A d \in Clients : queued'[d] > 0 => conn[d].topic \in Topics
    BY <1>3, <1>5, <1>6 DEF NetInv, t
  <2>2. client # NoClient /\ said' => conn[client].topic \in Topics
    BY <1>4, <1>5 DEF t
  <2> QED
    BY <1>2, <1>3, <2>1, <2>2 DEF NetInv
<1>14. OnlineHasWill'
  <2> SUFFICES ASSUME NEW u \in Topics \ late', retained'[u] = "online"
               PROVE  \E i \in Ids : session[i] # NoClient /\ conn[session[i]].topic = u
    BY <1>2 DEF OnlineHasWill
  <2>1. CASE u = t
    <3>1. conn[c].id \in Ids /\ session[conn[c].id] = c /\ c # NoClient
      BY <1>1, <1>3, MqBounds DEF NetInv, NetOK, Settings, Clients, NoClient
    <3> QED
      BY <2>1, <3>1 DEF t
  <2>2. CASE u # t
    BY <1>7, <1>8, <2>2 DEF MqInv, OnlineHasWill
  <2> QED
    BY <2>1, <2>2
<1>15. WillInv'
  <2>1. \A d \in Clients : link'[d] = "up" => d = c
    BY <1>2, <1>4
  <2>2. CASE client = c
    <3>1. client # NoClient
      BY <2>2, MqBounds DEF Clients, NoClient
    <3>2. state = "connected" /\ stopArgs = {} /\ pass # "stop"
      BY <1>1, <1>3, <2>2, <3>1 DEF NetInv, OneInv
    <3> QED
      BY <1>2, <2>1, <3>2 DEF WillInv
  <2>3. CASE client # c
    <3>1. OtherWill(c)'
      BY <1>2, <1>8, <2>3 DEF OtherWill, t
    <3> QED
      BY <2>1, <3>1 DEF WillInv
  <2> QED
    BY <2>2, <2>3
<1>16. OnlineStays'
  <2>1. client = c => retained'[conn[client].topic] = "online"
    BY <1>7 DEF t
  <2> QED
    BY <1>2, <1>4, <2>1 DEF OnlineStays
<1>17. OnlineNotLost'
  <2>1. client = c => said'
    BY <1>1, Zenon
  <2> QED
    BY <1>2, <1>4, <2>1 DEF OnlineNotLost
<1> QED
  BY <1>9, <1>10, <1>11, <1>12, <1>13, <1>14, <1>15, <1>16, <1>17, NextTypes DEF MqInv

\* With one identifier, all clients connect with it.
LEMMA SameId ==
  ASSUME MqInv, OneId, NEW a \in 1 .. created, NEW b \in 1 .. created
  PROVE  conn[a].id = conn[b].id
<1> DEFINE S == 1 .. created
           T == {conn[d].id : d \in S}
           f == [d \in S |-> conn[d].id]
           U == {conn[b].id}
<1>1. IsFiniteSet(S)
  BY FS_Interval DEF MqInv, MqTypeOK
<1>2. f \in Surjection(S, T)
  BY DEF Surjection
<1>3. conn[a].id \in T /\ conn[b].id \in T /\ Cardinality(T) <= 1
  BY DEF OneId
<1> HIDE DEF S, T, f
<1>4. IsFiniteSet(T)
  BY <1>1, <1>2, FS_Surjection
<1>5. U \in SUBSET T
  BY <1>3
<1>6. Cardinality(U) = 1
  BY FS_Singleton
<1> HIDE DEF U
<1>7. Cardinality(T) \in Nat /\ Cardinality(U) <= Cardinality(T)
      /\ (Cardinality(T) = Cardinality(U) => T = U)
  BY <1>4, <1>5, FS_Subset, FS_CardinalityType
<1>8. Cardinality(T) = Cardinality(U)
  BY <1>3, <1>6, <1>7
<1>9. T = U
  BY <1>7, <1>8
<1> QED
  BY <1>3, <1>9 DEF U

LEMMA BrokerNoticesStep ==
  ASSUME MqInv, NEW i \in Ids, BrokerNotices(i)
  PROVE  MqInv'
<1> DEFINE p == session[i]
<1>1. /\ p # NoClient /\ link[p] # "up" /\ session' = [session EXCEPT ![i] = NoClient]
      /\ retained' = [t \in Topics |-> IF conn[p].topic = t THEN "offline" ELSE retained[t]]
      /\ UNCHANGED <<httpd, loop, events, stop, flash, link, conn, queued, history, bounds>>
  BY DEF BrokerNotices
<1>2. /\ pass' = pass /\ client' = client /\ stopArgs' = stopArgs /\ stopping' = stopping
      /\ state' = state /\ onlineDue' = onlineDue /\ handler' = handler
      /\ link' = link /\ conn' = conn /\ queued' = queued
      /\ created' = created /\ said' = said /\ refused' = refused
      /\ late' = late /\ meters' = meters /\ losses' = losses
      /\ UNCHANGED <<httpd, loop, flash>>
  BY <1>1 DEF loop, events, stop, history, bounds
<1>3. LoopOK /\ EventsOK /\ NetOK /\ SaidOK /\ OneInv /\ NetInv
  BY TypeParts DEF MqInv
<1>4. /\ p \in Clients /\ p <= created /\ conn[p].id = i
  BY <1>1, <1>3 DEF NetInv, NetOK
<1>5. /\ session' \in [Ids -> Clients \cup {NoClient}] /\ session'[i] = NoClient
      /\ \A j \in Ids : j # i => session'[j] = session[j]
  BY <1>1, <1>3 DEF NetOK
<1>6. losses # 0
  BY <1>1, <1>3 DEF NetInv
<1>7. /\ retained' \in [Topics -> {"none", "online", "offline"}]
      /\ \A t \in Topics : retained'[t] = "online" => retained[t] = "online" /\ conn[p].topic # t
      /\ \A t \in Topics : conn[p].topic # t => retained'[t] = retained[t]
  BY <1>1, <1>3 DEF NetOK
<1>8. HttpdOK' /\ LoopOK' /\ CfgInv' /\ ConnInv' /\ EventsOK' /\ SaidOK' /\ OneInv' /\ OnlineNotLost'
  BY <1>2, LoopRests, MqFrames, NetFrames
<1>9. NetOK'
  BY <1>2, <1>3, <1>5, <1>7 DEF NetOK
<1>10. ASSUME NEW c \in Clients, link[c] = "up"
       PROVE  conn[c].id \in Ids \ {i} /\ session'[conn[c].id] = c
  <2>1. conn[c].id \in Ids /\ session[conn[c].id] = c
    BY <1>3, <1>10 DEF NetOK, Settings, NetInv
  <2> QED
    BY <1>1, <1>5, <1>10, <2>1
<1>11. NetInv'
  <2>1. \A j \in Ids : session'[j] # NoClient => session'[j] = session[j]
    BY <1>5
  <2>2. \A c \in Clients : link[c] = "up" => session'[conn[c].id] = c
    BY <1>10
  <2> QED
    BY <1>2, <1>3, <1>6, <2>1, <2>2 DEF NetInv
<1>12. OnlineHasWill'
  <2> SUFFICES ASSUME NEW t \in Topics \ late, retained'[t] = "online"
               PROVE  \E j \in Ids : session'[j] # NoClient /\ conn[session'[j]].topic = t
    BY <1>2 DEF OnlineHasWill
  <2>1. retained[t] = "online" /\ conn[p].topic # t
    BY <1>7
  <2>2. PICK j \in Ids : session[j] # NoClient /\ conn[session[j]].topic = t
    BY <2>1 DEF MqInv, OnlineHasWill
  <2> QED
    BY <1>5, <2>1, <2>2
<1>13. WillInv'
  <2>1. ASSUME NEW c \in Clients, OtherWill(c) PROVE OtherWill(c)'
    <3> SUFFICES ASSUME NEW t \in Topics \ late, conn[c].topic = t, retained'[t] = "online"
                 PROVE  \E j \in Ids : session'[j] \notin {NoClient, c} /\ conn[session'[j]].topic = t
      BY <1>2 DEF OtherWill
    <3>1. retained[t] = "online" /\ conn[p].topic # t
      BY <1>7
    <3>2. PICK j \in Ids : session[j] \notin {NoClient, c} /\ conn[session[j]].topic = t
      BY <2>1, <3>1 DEF OtherWill
    <3> QED
      BY <1>5, <3>1, <3>2
  <2> QED
    BY <1>2, <2>1 DEF MqInv, WillInv
<1>14. OnlineStays'
  <2> SUFFICES ASSUME client # NoClient, link[client] = "up", said, OneId
               PROVE  retained'[conn[client].topic] = "online"
    BY <1>2, <1>6, NetFrames DEF OnlineStays
  <2>1. client = created /\ client \in Clients /\ client \in 1 .. created /\ p \in 1 .. created
    BY <1>3, <1>4, ClientIs DEF OneInv, Clients
  <2>2. conn[client].id = i
    BY <1>4, <2>1, SameId
  <2>3. FALSE
    BY <1>10, <2>1, <2>2
  <2> QED
    BY <2>3
<1> QED
  BY <1>8, <1>9, <1>11, <1>12, <1>13, <1>14, NextTypes DEF MqInv

LEMMA RestartStep ==
  ASSUME MqInv, Restart
  PROVE  MqInv'
<1>1. /\ losses' = losses + 1 /\ cfg' = nvs /\ unsaved' = <<>>
      /\ run' = IF nvs.enabled THEN Compiled(nvs) ELSE NoRun
      /\ pendingSet' = FALSE /\ pendingRun' = NoRun /\ pendingReconnect' = FALSE
      /\ pass' = "idle" /\ reconnect' = FALSE /\ client' = NoClient
      /\ shot' = [tpl |-> 0, values |-> 0]
      /\ state' = "off" /\ onlineDue' = FALSE /\ handler' = [c \in Clients |-> "none"]
      /\ stopArgs' = {} /\ stopping' = 0
      /\ link' = [c \in Clients |-> IF link[c] = "none" THEN "none" ELSE "gone"]
      /\ queued' = [c \in Clients |-> 0]
      /\ said' = FALSE /\ refused' = FALSE
  BY DEF Restart
<1>2. /\ profile' = profile /\ gen' = gen /\ nvs' = nvs /\ conn' = conn /\ session' = session
      /\ retained' = retained /\ created' = created /\ late' = late /\ meters' = meters
  BY DEF Restart
<1>3. HttpdOK /\ LoopOK /\ EventsOK /\ NetOK /\ SaidOK /\ OneInv /\ NetInv /\ CfgInv
  BY TypeParts DEF MqInv
<1>4. /\ Compiled(nvs) \in Runs /\ Compiled(nvs) # NoRun /\ Compiled(nvs).cfg = nvs
      /\ (Compiled(nvs).ok <=> Fits(nvs.tpl, profile))
  BY <1>3, CompiledIs DEF HttpdOK
<1>5. tplErr' = (nvs.enabled /\ ~ Fits(nvs.tpl, profile))
  BY DEF Restart
<1>6. tplErr' \in BOOLEAN /\ (tplErr' <=> run' # NoRun /\ ~ run'.ok)
  <2>1. tplErr' <=> nvs.enabled /\ ~ Fits(nvs.tpl, profile)
    BY <1>5, Zenon
  <2>2. tplErr' \in BOOLEAN
    BY <1>5, Zenon
  <2>3. CASE nvs.enabled
    BY <1>1, <1>4, <2>1, <2>2, <2>3
  <2>4. CASE ~ nvs.enabled
    BY <1>1, <2>1, <2>2, <2>4
  <2> QED
    BY <2>3, <2>4
<1>7. run' \in Runs /\ NoRun \in Runs
  BY <1>1, <1>4 DEF Runs
<1>8. HttpdOK' /\ LoopOK'
  <2>1. unsaved' \in Seq(Settings)
    BY <1>1, EmptySeq
  <2> QED
    BY <1>1, <1>2, <1>3, <1>6, <1>7, <2>1 DEF HttpdOK, LoopOK, Runs
<1>9. /\ link' \in [Clients -> {"none", "connecting", "up", "broken", "gone"}]
      /\ \A c \in Clients : link'[c] \in {"none", "gone"} /\ handler'[c] = "none" /\ queued'[c] = 0
  BY <1>1
<1>10. EventsOK' /\ NetOK' /\ SaidOK'
  BY <1>1, <1>2, <1>3, <1>9 DEF EventsOK, NetOK, SaidOK
<1>11. CfgInv'
  <2>1. IF nvs.enabled THEN run' # NoRun /\ run'.cfg = nvs ELSE run' = NoRun
    BY <1>1, <1>4
  <2>2. InForce(run)'
    BY <1>1, <2>1 DEF InForce
  <2> QED
    BY <1>1, <1>2, <1>3, <1>6, <2>1, <2>2, ConnEqual DEF CfgInv
<1>12. ConnInv' /\ OneInv'
  BY <1>1, <1>9 DEF ConnInv, OneInv
<1>13. NetInv'
  <2>1. losses' \in Nat /\ losses' # 0
    BY <1>1, <1>3 DEF NetInv
  <2> QED
    BY <1>1, <1>2, <1>3, <1>9, <2>1 DEF NetInv
<1>14. WillInv' /\ OnlineStays' /\ OnlineNotLost'
  BY <1>1, <1>9 DEF WillInv, OnlineStays, OnlineNotLost
<1>15. OnlineHasWill'
  BY <1>2, NetFrames
<1> QED
  BY <1>8, <1>10, <1>11, <1>12, <1>13, <1>14, <1>15, NextTypes DEF MqInv

LEMMA MqStep ==
  ASSUME MqInv, [MqNext]_mqVars
  PROVE  MqInv'
<1>1. CASE UNCHANGED mqVars
  <2>1. UNCHANGED <<httpd, loop, events, stop, flash, net, history, bounds>>
    BY <1>1 DEF mqVars
  <2>2. /\ UNCHANGED <<client, net, stop, history, state, handler, losses, onlineDue>>
        /\ pass' = pass /\ meters' = meters /\ conn' = conn
    BY <2>1 DEF loop, events, bounds, net
  <2>3. HttpdOK' /\ LoopOK' /\ CfgInv' /\ ConnInv'
    BY <2>1, <2>2, LoopRests
  <2>4. /\ NetOK' /\ SaidOK' /\ OneInv' /\ NetInv' /\ WillInv' /\ OnlineHasWill' /\ OnlineStays'
        /\ EventsOK' /\ OnlineNotLost'
    BY <2>2, NetRests
  <2> QED
    BY <2>3, <2>4, NextTypes DEF MqInv
<1>2. CASE HttpdNext
  BY <1>2, PostSettingsStep, PostMeterStep DEF HttpdNext
<1>3. CASE LoopNext
  <2>1. \/ Save \/ TakePending \/ StopClient \/ (\E a \in stopArgs : HandOver(a))
        \/ PassWithoutClient \/ KeepClient \/ Publish \/ SkipPublish
        \/ StartClient \/ StartFails \/ CompileTemplates \/ Announce
    BY <1>3 DEF LoopNext
  <2> QED
    BY <2>1, SaveStep, TakePendingStep, StopClientStep, HandOverStep, MoveOnStep, StartClientStep,
       StartFailsStep, CompileStep, AnnounceStep
<1>4. CASE StopNext
  BY <1>4, SayOfflineStep, DestroyStep DEF StopNext
<1>5. CASE NetNext
  BY <1>5, HandleStep, ConnectsStep, BreaksStep, ClientNoticesStep, SendQueuedStep,
     BrokerNoticesStep DEF NetNext
<1>6. CASE Restart
  BY <1>6, RestartStep
<1> QED
  BY <1>1, <1>2, <1>3, <1>4, <1>5, <1>6 DEF MqNext

\* The network, the tear-down and the settings, together: no part is inductive without
\* the others (an old client's "offline" comes before the new client's "online" only
\* because mqtt_stopping_ keeps the loop from starting one).
THEOREM MqInvariant == MqSpec => []MqInv
BY MqInitial, MqStep, PTL DEF MqSpec

-----------------------------------------------------------------------------
(* What follows from it.                                                   *)

LEMMA LatestHolds ==
  ASSUME MqInv
  PROVE  MqTypeOK /\ LatestSettings
<1> SUFFICES ASSUME pass = "idle", ~ pendingSet
             PROVE  /\ IF cfg.enabled THEN run # NoRun /\ run.cfg = cfg ELSE run = NoRun
                    /\ client # NoClient => cfg.enabled /\ ~ ConnDiffers(conn[client], cfg)
                    /\ tplErr <=> run # NoRun /\ ~ run.ok
  BY DEF LatestSettings, MqInv
<1>1. IF cfg.enabled THEN run # NoRun /\ run.cfg = cfg ELSE run = NoRun
  BY DEF MqInv, CfgInv, InForce
<1>2. tplErr <=> run # NoRun /\ ~ run.ok
  BY DEF MqInv, CfgInv
<1>3. ~ pendingReconnect
  BY DEF MqInv, CfgInv
<1>4. client # NoClient => conn[client].enabled /\ ~ ConnDiffers(conn[client], cfg)
  BY <1>3 DEF MqInv, ConnInv
<1> QED
  BY <1>1, <1>2, <1>4, ConnEqual

LEMMA ShotStep ==
  ASSUME ProfileMatches, [MqNext]_mqVars
  PROVE  ProfileMatches'
<1>1. CASE Publish
  <2>1. shot' = [tpl |-> run.gen, values |-> gen] /\ gen = run.gen
    BY <1>1 DEF Publish, StillCompiled
  <2> QED
    BY <2>1 DEF ProfileMatches
<1>2. CASE Restart
  <2>1. shot' = [tpl |-> 0, values |-> 0]
    BY <1>2 DEF Restart
  <2> QED
    BY <2>1 DEF ProfileMatches
<1>3. ASSUME ~ Publish, ~ Restart
      PROVE  shot' = shot
  <2>1. CASE UNCHANGED mqVars
    BY <2>1 DEF mqVars, loop
  <2>2. CASE HttpdNext
    BY <2>2 DEF HttpdNext, PostSettings, PostMeter, loop
  <2>3. CASE LoopNext
    BY <1>3, <2>3 DEF LoopNext, Save, TakePending, StopClient, HandOver, PassWithoutClient,
       StartClient, StartFails, KeepClient, CompileTemplates, Announce, SkipPublish, loop
  <2>4. CASE StopNext
    BY <2>4 DEF StopNext, SayOffline, Destroy, loop
  <2>5. CASE NetNext
    BY <2>5 DEF NetNext, Handle, Connects, Breaks, ClientNotices, SendQueued, BrokerNotices, loop
  <2> QED
    BY <1>3, <2>1, <2>2, <2>3, <2>4, <2>5 DEF MqNext
<1> QED
  BY <1>1, <1>2, <1>3 DEF ProfileMatches

\* What runs is what was accepted last, made with the connection it asks for, and the
\* values of a message are read with the profile its templates were compiled for.
THEOREM SettingsAreInForce == MqSpec => []SettingsInForce
<1>1. MqInit => ProfileMatches
  BY DEF MqInit, ProfileMatches
<1>2. MqSpec => []ProfileMatches
  BY <1>1, ShotStep, PTL DEF MqSpec
<1>3. MqInv /\ ProfileMatches => SettingsInForce
  BY LatestHolds DEF SettingsInForce
<1> QED
  BY <1>2, <1>3, MqInvariant, PTL

\* The availability on the broker is that of the device: announced on every connect, not
\* taken back by the client before, and a retained "online" has a will behind it.
THEOREM AvailabilityIsTrue == MqSpec => []AvailabilityTrue
<1>1. MqInv => AvailabilityTrue
  BY DEF MqInv, AvailabilityTrue
<1> QED
  BY <1>1, MqInvariant, PTL

-----------------------------------------------------------------------------
(* MqttTemplate: sums, maxima and concatenations.                          *)

\* What Total computes.
LEMMA TotalFold ==
  ASSUME NEW s0 \in Seq(Nat)
  PROVE  \E pre \in [0 .. Len(s0) -> Nat] :
           /\ pre[0] = 0
           /\ \A i \in 1 .. Len(s0) : pre[i] = pre[i - 1] + s0[i]
           /\ Total(s0) = pre[Len(s0)]
<1> DEFINE n == Len(s0)
           st == [p \in Nat \X Nat |-> p[1] + p[2]]
           Step(f) == [t \in SUBSET DOMAIN s0 |->
                         IF t = {} THEN 0
                         ELSE f[t \ {Max(t)}] + s0[Max(t)]]
           it == CHOOSE f : f = Step(f)
<1>0. s0 \in Seq(Nat) /\ n \in Nat /\ DOMAIN s0 = 1 .. n /\ \A i \in 1 .. n : s0[i] \in Nat
  OBVIOUS
<1>1. Total(s0) = it[DOMAIN s0]
  BY Zenon DEF Total, FoldLeft, MapThenFoldSet
<1>2. st \in [Nat \X Nat -> Nat] /\ 0 \in Nat
  <2>1. ASSUME NEW a \in Nat, NEW x \in Nat PROVE a + x \in Nat
    OBVIOUS
  <2>2. 0 \in Nat
    OBVIOUS
  <2> QED
    BY <2>1, <2>2
<1>3. \A a \in Nat, x \in Nat : st[<<a, x>>] = a + x
  OBVIOUS
<1>4. it = Step(it)
  <2> HIDE DEF st
  <2>2. PICK f \in [SUBSET DOMAIN s0 -> Nat] : Folds(f, st, 0, s0, n)
    BY <1>0, <1>2, FoldExists
  <2>3. ASSUME NEW t \in SUBSET DOMAIN s0 PROVE f[t] = Step(f)[t]
    <3>1. CASE t = {}
      BY <1>0, <2>2, <3>1 DEF Folds
    <3>2. CASE t # {}
      <4>1. Max(t) \in DOMAIN s0 /\ t \ {Max(t)} \in SUBSET DOMAIN s0
        BY <1>0, <3>2, HasMax
      <4>2. s0[Max(t)] \in Nat /\ f[t \ {Max(t)}] \in Nat
        BY <1>0, <2>2, <4>1
      <4>3. f[t] = st[<<f[t \ {Max(t)}], s0[Max(t)]>>]
        BY <1>0, <2>2, <3>2 DEF Folds
      <4>4. st[<<f[t \ {Max(t)}], s0[Max(t)]>>] = f[t \ {Max(t)}] + s0[Max(t)]
        BY <1>3, <4>2
      <4> QED
        BY <3>2, <4>3, <4>4
    <3> QED
      BY <3>1, <3>2
  <2>4. f = Step(f)
    BY <2>2, <2>3
  <2> QED
    BY <2>4
<1> DEFINE P == {i \in 0 .. n : it[1 .. i] \in Nat}
<1>5. it[1 .. 0] = 0 /\ 0 \in P
  <2>1. 1 .. 0 = {} /\ {} \in SUBSET DOMAIN s0
    OBVIOUS
  <2> HIDE DEF it, st
  <2>2. it[1 .. 0] = 0
    BY <1>4, <2>1
  <2>3. it[1 .. 0] \in Nat /\ 0 \in 0 .. n
    BY <1>0, <1>2, <2>2
  <2> QED
    BY <2>2, <2>3
<1>6. ASSUME NEW i \in 1 .. n
      PROVE  it[1 .. i] = it[1 .. (i - 1)] + s0[i]
  <2> DEFINE t == 1 .. i
  <2>1. t \in SUBSET DOMAIN s0 /\ t # {} /\ Max(t) = i /\ t \ {i} = 1 .. (i - 1)
    BY <1>0, Prefix
  <2> HIDE DEF it, t, st
  <2>2. it[t] = it[1 .. (i - 1)] + s0[i]
    BY <1>4, <2>1
  <2> QED
    BY <2>2 DEF t
<1>7. ASSUME NEW i \in 1 .. n, i - 1 \in P PROVE i \in P
  <2> HIDE DEF it, st
  <2>1. it[1 .. (i - 1)] \in Nat /\ s0[i] \in Nat
    BY <1>0, <1>7
  <2>2. it[1 .. i] = st[<<it[1 .. (i - 1)], s0[i]>>]
    BY <1>3, <1>6, <2>1
  <2>3. it[1 .. i] \in Nat
    BY <1>2, <2>1, <2>2
  <2> QED
    BY <1>0, <2>3
<1> HIDE DEF P, n, it, st
<1>8. 0 .. n \subseteq P
  BY <1>0, <1>5, <1>7, UpTo
<1> DEFINE pre == [i \in 0 .. n |-> it[1 .. i]]
<1>9. pre \in [0 .. n -> Nat]
  BY <1>8 DEF P
<1>10. \A i \in 1 .. n : pre[i] = it[1 .. i] /\ pre[i - 1] = it[1 .. (i - 1)]
  BY <1>0
<1>11. pre[0] = it[1 .. 0] /\ pre[n] = it[1 .. n]
  BY <1>0
<1> HIDE DEF pre
<1>12. \A i \in 1 .. n : pre[i] = pre[i - 1] + s0[i]
  BY <1>6, <1>10
<1> QED
  BY <1>0, <1>1, <1>5, <1>9, <1>11, <1>12 DEF n

\* The larger of two.
Larger(a, n) == IF n > a THEN n ELSE a

\* What Largest computes.
LEMMA LargestFold ==
  ASSUME NEW s0 \in Seq(Nat)
  PROVE  \E pre \in [0 .. Len(s0) -> Nat] :
           /\ pre[0] = 0
           /\ \A i \in 1 .. Len(s0) : pre[i] = Larger(pre[i - 1], s0[i])
           /\ Largest(s0) = pre[Len(s0)]
<1> DEFINE n == Len(s0)
           st == [p \in Nat \X Nat |-> Larger(p[1], p[2])]
           Step(f) == [t \in SUBSET DOMAIN s0 |->
                         IF t = {} THEN 0
                         ELSE Larger(f[t \ {Max(t)}], s0[Max(t)])]
           it == CHOOSE f : f = Step(f)
<1>0. s0 \in Seq(Nat) /\ n \in Nat /\ DOMAIN s0 = 1 .. n /\ \A i \in 1 .. n : s0[i] \in Nat
  OBVIOUS
<1>1. Largest(s0) = it[DOMAIN s0]
  BY Zenon DEF Largest, Larger, FoldLeft, MapThenFoldSet
<1>2. st \in [Nat \X Nat -> Nat] /\ 0 \in Nat
  <2>1. ASSUME NEW a \in Nat, NEW x \in Nat PROVE Larger(a, x) \in Nat
    BY DEF Larger
  <2>2. 0 \in Nat
    OBVIOUS
  <2> QED
    BY <2>1, <2>2
<1>3. \A a \in Nat, x \in Nat : st[<<a, x>>] = Larger(a, x)
  OBVIOUS
<1>4. it = Step(it)
  <2> HIDE DEF st
  <2>2. PICK f \in [SUBSET DOMAIN s0 -> Nat] : Folds(f, st, 0, s0, n)
    BY <1>0, <1>2, FoldExists
  <2>3. ASSUME NEW t \in SUBSET DOMAIN s0 PROVE f[t] = Step(f)[t]
    <3>1. CASE t = {}
      BY <1>0, <2>2, <3>1 DEF Folds
    <3>2. CASE t # {}
      <4>1. Max(t) \in DOMAIN s0 /\ t \ {Max(t)} \in SUBSET DOMAIN s0
        BY <1>0, <3>2, HasMax
      <4>2. s0[Max(t)] \in Nat /\ f[t \ {Max(t)}] \in Nat
        BY <1>0, <2>2, <4>1
      <4>3. f[t] = st[<<f[t \ {Max(t)}], s0[Max(t)]>>]
        BY <1>0, <2>2, <3>2 DEF Folds
      <4>4. st[<<f[t \ {Max(t)}], s0[Max(t)]>>] = Larger(f[t \ {Max(t)}], s0[Max(t)])
        BY <1>3, <4>2
      <4> QED
        BY <3>2, <4>3, <4>4
    <3> QED
      BY <3>1, <3>2
  <2>4. f = Step(f)
    BY <2>2, <2>3
  <2> QED
    BY <2>4
<1> DEFINE P == {i \in 0 .. n : it[1 .. i] \in Nat}
<1>5. it[1 .. 0] = 0 /\ 0 \in P
  <2>1. 1 .. 0 = {} /\ {} \in SUBSET DOMAIN s0
    OBVIOUS
  <2> HIDE DEF it, st
  <2>2. it[1 .. 0] = 0
    BY <1>4, <2>1
  <2>3. it[1 .. 0] \in Nat /\ 0 \in 0 .. n
    BY <1>0, <1>2, <2>2
  <2> QED
    BY <2>2, <2>3
<1>6. ASSUME NEW i \in 1 .. n
      PROVE  it[1 .. i] = Larger(it[1 .. (i - 1)], s0[i])
  <2> DEFINE t == 1 .. i
  <2>1. t \in SUBSET DOMAIN s0 /\ t # {} /\ Max(t) = i /\ t \ {i} = 1 .. (i - 1)
    BY <1>0, Prefix
  <2> HIDE DEF it, t, st
  <2>2. it[t] = Larger(it[1 .. (i - 1)], s0[i])
    BY <1>4, <2>1
  <2> QED
    BY <2>2 DEF t
<1>7. ASSUME NEW i \in 1 .. n, i - 1 \in P PROVE i \in P
  <2> HIDE DEF it, st
  <2>1. it[1 .. (i - 1)] \in Nat /\ s0[i] \in Nat
    BY <1>0, <1>7
  <2>2. it[1 .. i] = st[<<it[1 .. (i - 1)], s0[i]>>]
    BY <1>3, <1>6, <2>1
  <2>3. it[1 .. i] \in Nat
    BY <1>2, <2>1, <2>2
  <2> QED
    BY <1>0, <2>3
<1> HIDE DEF P, n, it, st
<1>8. 0 .. n \subseteq P
  BY <1>0, <1>5, <1>7, UpTo
<1> DEFINE pre == [i \in 0 .. n |-> it[1 .. i]]
<1>9. pre \in [0 .. n -> Nat]
  BY <1>8 DEF P
<1>10. \A i \in 1 .. n : pre[i] = it[1 .. i] /\ pre[i - 1] = it[1 .. (i - 1)]
  BY <1>0
<1>11. pre[0] = it[1 .. 0] /\ pre[n] = it[1 .. n]
  BY <1>0
<1> HIDE DEF pre
<1>12. \A i \in 1 .. n : pre[i] = Larger(pre[i - 1], s0[i])
  BY <1>6, <1>10
<1> QED
  BY <1>0, <1>1, <1>5, <1>9, <1>11, <1>12 DEF n

\* What Joined computes.
LEMMA JoinedFold ==
  ASSUME NEW C, NEW s0 \in Seq(Seq(C))
  PROVE  \E pre \in [0 .. Len(s0) -> Seq(C)] :
           /\ pre[0] = <<>>
           /\ \A i \in 1 .. Len(s0) : pre[i] = pre[i - 1] \o s0[i]
           /\ Joined(s0) = pre[Len(s0)]
<1> DEFINE n == Len(s0)
           st == [p \in Seq(C) \X Seq(C) |-> p[1] \o p[2]]
           Step(f) == [t \in SUBSET DOMAIN s0 |->
                         IF t = {} THEN <<>>
                         ELSE f[t \ {Max(t)}] \o s0[Max(t)]]
           it == CHOOSE f : f = Step(f)
<1>0. s0 \in Seq(Seq(C)) /\ n \in Nat /\ DOMAIN s0 = 1 .. n /\ \A i \in 1 .. n : s0[i] \in Seq(C)
  OBVIOUS
<1>1. Joined(s0) = it[DOMAIN s0]
  BY Zenon DEF Joined, FoldLeft, MapThenFoldSet
<1>2. st \in [Seq(C) \X Seq(C) -> Seq(C)] /\ <<>> \in Seq(C)
  <2>1. ASSUME NEW a \in Seq(C), NEW x \in Seq(C) PROVE a \o x \in Seq(C)
    OBVIOUS
  <2>2. <<>> \in Seq(C)
    OBVIOUS
  <2> QED
    BY <2>1, <2>2
<1>3. \A a \in Seq(C), x \in Seq(C) : st[<<a, x>>] = a \o x
  OBVIOUS
<1>4. it = Step(it)
  <2> HIDE DEF st
  <2>2. PICK f \in [SUBSET DOMAIN s0 -> Seq(C)] : Folds(f, st, <<>>, s0, n)
    BY <1>0, <1>2, FoldExists
  <2>3. ASSUME NEW t \in SUBSET DOMAIN s0 PROVE f[t] = Step(f)[t]
    <3>1. CASE t = {}
      BY <1>0, <2>2, <3>1 DEF Folds
    <3>2. CASE t # {}
      <4>1. Max(t) \in DOMAIN s0 /\ t \ {Max(t)} \in SUBSET DOMAIN s0
        BY <1>0, <3>2, HasMax
      <4>2. s0[Max(t)] \in Seq(C) /\ f[t \ {Max(t)}] \in Seq(C)
        BY <1>0, <2>2, <4>1
      <4>3. f[t] = st[<<f[t \ {Max(t)}], s0[Max(t)]>>]
        BY <1>0, <2>2, <3>2 DEF Folds
      <4>4. st[<<f[t \ {Max(t)}], s0[Max(t)]>>] = f[t \ {Max(t)}] \o s0[Max(t)]
        BY <1>3, <4>2
      <4> QED
        BY <3>2, <4>3, <4>4
    <3> QED
      BY <3>1, <3>2
  <2>4. f = Step(f)
    BY <2>2, <2>3
  <2> QED
    BY <2>4
<1> DEFINE P == {i \in 0 .. n : it[1 .. i] \in Seq(C)}
<1>5. it[1 .. 0] = <<>> /\ 0 \in P
  <2>1. 1 .. 0 = {} /\ {} \in SUBSET DOMAIN s0
    OBVIOUS
  <2> HIDE DEF it, st
  <2>2. it[1 .. 0] = <<>>
    BY <1>4, <2>1
  <2>3. it[1 .. 0] \in Seq(C) /\ 0 \in 0 .. n
    BY <1>0, <1>2, <2>2
  <2> QED
    BY <2>2, <2>3
<1>6. ASSUME NEW i \in 1 .. n
      PROVE  it[1 .. i] = it[1 .. (i - 1)] \o s0[i]
  <2> DEFINE t == 1 .. i
  <2>1. t \in SUBSET DOMAIN s0 /\ t # {} /\ Max(t) = i /\ t \ {i} = 1 .. (i - 1)
    BY <1>0, Prefix
  <2> HIDE DEF it, t, st
  <2>2. it[t] = it[1 .. (i - 1)] \o s0[i]
    BY <1>4, <2>1
  <2> QED
    BY <2>2 DEF t
<1>7. ASSUME NEW i \in 1 .. n, i - 1 \in P PROVE i \in P
  <2> HIDE DEF it, st
  <2>1. it[1 .. (i - 1)] \in Seq(C) /\ s0[i] \in Seq(C)
    BY <1>0, <1>7
  <2>2. it[1 .. i] = st[<<it[1 .. (i - 1)], s0[i]>>]
    BY <1>3, <1>6, <2>1
  <2>3. it[1 .. i] \in Seq(C)
    BY <1>2, <2>1, <2>2
  <2> QED
    BY <1>0, <2>3
<1> HIDE DEF P, n, it, st
<1>8. 0 .. n \subseteq P
  BY <1>0, <1>5, <1>7, UpTo
<1> DEFINE pre == [i \in 0 .. n |-> it[1 .. i]]
<1>9. pre \in [0 .. n -> Seq(C)]
  BY <1>8 DEF P
<1>10. \A i \in 1 .. n : pre[i] = it[1 .. i] /\ pre[i - 1] = it[1 .. (i - 1)]
  BY <1>0
<1>11. pre[0] = it[1 .. 0] /\ pre[n] = it[1 .. n]
  BY <1>0
<1> HIDE DEF pre
<1>12. \A i \in 1 .. n : pre[i] = pre[i - 1] \o s0[i]
  BY <1>6, <1>10
<1> QED
  BY <1>0, <1>1, <1>5, <1>9, <1>11, <1>12 DEF n


\* Of each type.
LEMMA TotalType == ASSUME NEW s0 \in Seq(Nat) PROVE Total(s0) \in Nat
<1>1. PICK pre \in [0 .. Len(s0) -> Nat] : Total(s0) = pre[Len(s0)]
  BY TotalFold
<1>2. Len(s0) \in 0 .. Len(s0)
  OBVIOUS
<1> QED
  BY <1>1, <1>2

LEMMA JoinedType == ASSUME NEW C, NEW s0 \in Seq(Seq(C)) PROVE Joined(s0) \in Seq(C)
<1>1. PICK pre \in [0 .. Len(s0) -> Seq(C)] : Joined(s0) = pre[Len(s0)]
  BY JoinedFold
<1>2. Len(s0) \in 0 .. Len(s0)
  OBVIOUS
<1> QED
  BY <1>1, <1>2

\* Sums of smaller numbers are smaller.
LEMMA SumsLe == \A a, b, c, d \in Nat : a <= c /\ b <= d => a + b <= c + d
  OBVIOUS

\* A concatenation is no longer than bounds of its parts add up to.
LEMMA JoinedLen ==
  ASSUME NEW C, NEW s0 \in Seq(Seq(C)), NEW m \in Seq(Nat), Len(m) = Len(s0),
         \A i \in 1 .. Len(s0) : Len(s0[i]) <= m[i]
  PROVE  Len(Joined(s0)) <= Total(m)
<1> DEFINE n == Len(s0)
<1>1. PICK j \in [0 .. n -> Seq(C)] :
           /\ j[0] = <<>> /\ \A i \in 1 .. n : j[i] = j[i - 1] \o s0[i]
           /\ Joined(s0) = j[n]
  BY JoinedFold
<1>2. PICK t \in [0 .. n -> Nat] :
           /\ t[0] = 0 /\ \A i \in 1 .. n : t[i] = t[i - 1] + m[i]
           /\ Total(m) = t[n]
  BY TotalFold
<1> DEFINE P == {i \in 0 .. n : Len(j[i]) <= t[i]}
<1>3. n \in Nat
  OBVIOUS
<1>4. 0 \in P
  BY <1>1, <1>2
<1>5. ASSUME NEW i \in 1 .. n, i - 1 \in P PROVE i \in P
  <2>0. i - 1 \in 0 .. n /\ i \in 1 .. Len(m) /\ i \in 1 .. Len(s0)
    OBVIOUS
  <2>a. j[i - 1] \in Seq(C)
    BY <2>0
  <2>b. s0[i] \in Seq(C)
    BY <2>0
  <2>c. t[i - 1] \in Nat
    BY <2>0
  <2>d. m[i] \in Nat
    BY <2>0
  <2>1. j[i - 1] \in Seq(C) /\ s0[i] \in Seq(C) /\ t[i - 1] \in Nat /\ m[i] \in Nat /\ i - 1 \in 0 .. n
    BY <2>0, <2>a, <2>b, <2>c, <2>d
  <2>2. Len(j[i - 1]) <= t[i - 1]
    BY <1>5
  <2>3. j[i] = j[i - 1] \o s0[i] /\ t[i] = t[i - 1] + m[i]
    BY <1>1, <1>2
  <2>4. Len(j[i - 1] \o s0[i]) = Len(j[i - 1]) + Len(s0[i])
    BY <2>1
  <2>5. Len(s0[i]) <= m[i] /\ Len(s0[i]) \in Nat /\ Len(j[i - 1]) \in Nat
    BY <2>1
  <2>6. Len(j[i - 1]) + Len(s0[i]) <= t[i - 1] + m[i]
    BY <2>1, <2>2, <2>5, SumsLe
  <2>7. Len(j[i]) <= t[i]
    BY ONLY <2>3, <2>4, <2>6
  <2> QED
    BY <2>7
<1> HIDE DEF P
<1>6. n \in P
  <2>1. 0 .. n \subseteq P
    BY <1>3, <1>4, <1>5, UpTo
  <2> QED
    BY <1>3, <2>1
<1> QED
  BY <1>1, <1>2, <1>6 DEF P

\* A sum of n numbers of at most b is at most b * n.
LEMMA TotalAtMost ==
  ASSUME NEW m \in Seq(Nat), NEW b \in Nat, \A i \in 1 .. Len(m) : m[i] <= b
  PROVE  Total(m) <= b * Len(m)
<1> DEFINE n == Len(m)
<1>1. PICK t \in [0 .. n -> Nat] :
           /\ t[0] = 0 /\ \A i \in 1 .. n : t[i] = t[i - 1] + m[i]
           /\ Total(m) = t[n]
  BY TotalFold
<1> DEFINE P == {i \in 0 .. n : t[i] <= b * i}
<1>2. n \in Nat
  OBVIOUS
<1>3. 0 \in P
  BY <1>1
<1>4. ASSUME NEW i \in 1 .. n, i - 1 \in P PROVE i \in P
  <2>0. i - 1 \in 0 .. n /\ i \in 1 .. Len(m)
    OBVIOUS
  <2>a. t[i] = t[i - 1] + m[i]
    BY <1>1
  <2>b. t[i - 1] \in Nat
    BY <2>0
  <2>c. m[i] \in Nat /\ m[i] <= b
    BY <2>0
  <2>1. t[i] = t[i - 1] + m[i] /\ t[i - 1] \in Nat /\ m[i] \in Nat /\ m[i] <= b
    BY <2>a, <2>b, <2>c
  <2>2. t[i - 1] <= b * (i - 1)
    BY <1>4
  <2>3. b * (i - 1) = b * i - b /\ b * i \in Nat
    OBVIOUS
  <2>4. t[i] <= b * i
    BY <2>1, <2>2, <2>3
  <2> QED
    BY <2>4
<1> HIDE DEF P
<1>5. n \in P
  <2>1. 0 .. n \subseteq P
    BY <1>2, <1>3, <1>4, UpTo
  <2> QED
    BY <1>2, <2>1
<1> QED
  BY <1>1, <1>5 DEF P

\* The largest of some numbers is as large as each.
LEMMA LargestIs ==
  ASSUME NEW s0 \in Seq(Nat)
  PROVE  Largest(s0) \in Nat /\ \A k \in 1 .. Len(s0) : s0[k] <= Largest(s0)
<1> DEFINE n == Len(s0)
<1>1. PICK t \in [0 .. n -> Nat] :
           /\ t[0] = 0 /\ \A i \in 1 .. n : t[i] = Larger(t[i - 1], s0[i])
           /\ Largest(s0) = t[n]
  BY LargestFold
<1> DEFINE P == {i \in 0 .. n : \A k \in 1 .. i : s0[k] <= t[i]}
<1>2. n \in Nat
  OBVIOUS
<1>3. 0 \in P
  BY <1>1
<1>4. ASSUME NEW i \in 1 .. n, i - 1 \in P PROVE i \in P
  <2>0. i - 1 \in 0 .. n /\ i \in 1 .. Len(s0)
    OBVIOUS
  <2>a. t[i] = Larger(t[i - 1], s0[i])
    BY <1>1
  <2>b. t[i - 1] \in Nat
    BY <2>0
  <2>c. s0[i] \in Nat
    BY <2>0
  <2>1. t[i] = Larger(t[i - 1], s0[i]) /\ t[i - 1] \in Nat /\ s0[i] \in Nat
    BY <2>a, <2>b, <2>c
  <2>2. t[i] >= s0[i] /\ t[i] >= t[i - 1] /\ t[i] \in Nat
    BY <2>1 DEF Larger
  <2>3. ASSUME NEW k \in 1 .. i PROVE s0[k] <= t[i]
    <3>1. CASE k = i
      BY <2>2, <3>1
    <3>2. CASE k # i
      <4>1. k \in 1 .. i - 1 /\ k \in 1 .. n
        BY <3>2
      <4>2. s0[k] <= t[i - 1] /\ s0[k] \in Nat
        BY <1>4, <4>1
      <4> QED
        BY <2>1, <2>2, <4>2
    <3> QED
      BY <3>1, <3>2
  <2> QED
    BY <2>3
<1> HIDE DEF P
<1>5. n \in P
  <2>1. 0 .. n \subseteq P
    BY <1>2, <1>3, <1>4, UpTo
  <2> QED
    BY <1>2, <2>1
<1>6. \A k \in 1 .. n : s0[k] <= t[n]
  BY <1>5 DEF P
<1>7. t[n] \in Nat
  BY <1>1, <1>2
<1> QED
  BY <1>1, <1>6, <1>7

-----------------------------------------------------------------------------
(* MqttTemplate: texts and what they are escaped to.                       *)

\* Texts without a wildcard.
Clean == Chars \ {"wild"}

Escapes == {"json", "lp", "topic"}

\* What escStr makes of a character.
EscChar(c, e) == IF c \notin Special[e] THEN <<c>>
                 ELSE IF e = "topic" THEN <<"under">> ELSE <<"back", c>>
EscParts(text, e) == [i \in DOMAIN text |-> EscChar(text[i], e)]

\* What escLen counts for each.
EscCounts(text, e) == [i \in DOMAIN text |-> IF e # "topic" /\ text[i] \in Special[e] THEN 2 ELSE 1]

\* A character becomes one, or two outside a topic.
LEMMA EscCharIs ==
  ASSUME NEW c \in Chars, NEW e \in Escapes
  PROVE  /\ EscChar(c, e) \in Seq(Chars)
         /\ e = "topic" => EscChar(c, e) \in Seq(Clean)
         /\ Len(EscChar(c, e)) = IF e # "topic" /\ c \in Special[e] THEN 2 ELSE 1
<1>1. "under" \in Clean /\ "under" \in Chars /\ "back" \in Chars
  BY DEF Clean, Chars
<1>2. CASE c \notin Special[e]
  <2>1. e = "topic" => c \in Clean
    BY <1>2 DEF Special, Clean
  <2> QED
    BY <1>2, <2>1 DEF EscChar
<1>3. CASE c \in Special[e] /\ e = "topic"
  BY <1>1, <1>3 DEF EscChar
<1>4. CASE c \in Special[e] /\ e # "topic"
  BY <1>1, <1>4 DEF EscChar
<1> QED
  BY <1>2, <1>3, <1>4

\* mqtt-template.js, escStr: what a text is escaped to is no longer than escLen counts, and
\* holds no wildcard in a topic.
LEMMA EscIs ==
  ASSUME NEW text \in Seq(Chars), NEW e \in Escapes
  PROVE  /\ escStr(text, e) \in Seq(Chars)
         /\ e = "topic" => escStr(text, e) \in Seq(Clean)
         /\ Len(escStr(text, e)) <= escLen(text, e)
         /\ escLen(text, e) \in Nat
         /\ escLen(text, e) <= 2 * Len(text)
         /\ e = "topic" => escLen(text, e) <= Len(text)
<1>1. escStr(text, e) = Joined(EscParts(text, e)) /\ escLen(text, e) = Total(EscCounts(text, e))
  BY DEF escStr, escLen, EscParts, EscCounts, EscChar
<1>2. Len(text) \in Nat /\ DOMAIN text = 1 .. Len(text) /\ \A i \in 1 .. Len(text) : text[i] \in Chars
  OBVIOUS
<1>3. ASSUME NEW i \in 1 .. Len(text)
      PROVE  /\ EscParts(text, e)[i] \in Seq(Chars)
             /\ e = "topic" => EscParts(text, e)[i] \in Seq(Clean)
             /\ EscCounts(text, e)[i] \in Nat /\ EscCounts(text, e)[i] <= 2
             /\ e = "topic" => EscCounts(text, e)[i] <= 1
             /\ Len(EscParts(text, e)[i]) <= EscCounts(text, e)[i]
  <2>1. text[i] \in Chars /\ i \in DOMAIN text
    BY <1>2
  <2>2. EscParts(text, e)[i] = EscChar(text[i], e)
    BY <2>1 DEF EscParts
  <2>3. EscCounts(text, e)[i] = IF e # "topic" /\ text[i] \in Special[e] THEN 2 ELSE 1
    BY <2>1 DEF EscCounts
  <2>4. /\ EscChar(text[i], e) \in Seq(Chars)
        /\ e = "topic" => EscChar(text[i], e) \in Seq(Clean)
        /\ Len(EscChar(text[i], e)) = IF e # "topic" /\ text[i] \in Special[e] THEN 2 ELSE 1
    BY <2>1, EscCharIs
  <2>5. /\ EscCounts(text, e)[i] \in {1, 2} /\ (e = "topic" => EscCounts(text, e)[i] = 1)
        /\ EscCounts(text, e)[i] = Len(EscChar(text[i], e))
    BY <2>3, <2>4
  <2> QED
    BY <2>2, <2>4, <2>5
<1>4. DOMAIN EscParts(text, e) = 1 .. Len(text) /\ DOMAIN EscCounts(text, e) = 1 .. Len(text)
  BY <1>2 DEF EscParts, EscCounts
<1>5. EscParts(text, e) \in Seq(Seq(Chars)) /\ Len(EscParts(text, e)) = Len(text)
  <2>1. EscParts(text, e) = [i \in 1 .. Len(text) |-> EscChar(text[i], e)]
    BY <1>2 DEF EscParts
  <2>2. \A i \in 1 .. Len(text) : EscChar(text[i], e) \in Seq(Chars)
    BY <1>2, EscCharIs
  <2> QED
    BY <1>2, <2>1, <2>2
<1>6. e = "topic" => EscParts(text, e) \in Seq(Seq(Clean))
  <2>1. EscParts(text, e) = [i \in 1 .. Len(text) |-> EscChar(text[i], e)]
    BY <1>2 DEF EscParts
  <2>2. e = "topic" => \A i \in 1 .. Len(text) : EscChar(text[i], e) \in Seq(Clean)
    BY <1>2, EscCharIs
  <2> QED
    BY <1>2, <2>1, <2>2
<1>7. EscCounts(text, e) \in Seq(Nat) /\ Len(EscCounts(text, e)) = Len(text)
  <2>1. EscCounts(text, e) = [i \in 1 .. Len(text) |-> IF e # "topic" /\ text[i] \in Special[e] THEN 2 ELSE 1]
    BY <1>2 DEF EscCounts
  <2> QED
    BY <1>2, <2>1
<1>8. Len(Joined(EscParts(text, e))) <= Total(EscCounts(text, e))
  BY <1>3, <1>5, <1>7, JoinedLen
<1>9. Total(EscCounts(text, e)) \in Nat
  BY <1>7, TotalType
<1>10. Joined(EscParts(text, e)) \in Seq(Chars)
  BY <1>5, JoinedType
<1>11. e = "topic" => Joined(EscParts(text, e)) \in Seq(Clean)
  BY <1>6, JoinedType
<1>12. Total(EscCounts(text, e)) <= 2 * Len(text)
  <2>1. \A i \in 1 .. Len(EscCounts(text, e)) : EscCounts(text, e)[i] <= 2
    BY <1>3, <1>7
  <2>2. Total(EscCounts(text, e)) <= 2 * Len(EscCounts(text, e))
    BY <1>7, <2>1, TotalAtMost
  <2> QED
    BY <1>7, <2>2
<1>13. e = "topic" => Total(EscCounts(text, e)) <= Len(text)
  <2>1. e = "topic" => \A i \in 1 .. Len(EscCounts(text, e)) : EscCounts(text, e)[i] <= 1
    BY <1>3, <1>7
  <2>2. e = "topic" => Total(EscCounts(text, e)) <= 1 * Len(EscCounts(text, e))
    BY <1>7, <2>1, TotalAtMost
  <2> QED
    BY <1>2, <1>7, <2>2
<1> QED
  BY <1>1, <1>8, <1>9, <1>10, <1>11, <1>12, <1>13

-----------------------------------------------------------------------------
(* MqttTemplate: pieces.                                                   *)

\* What a piece may be rendered with.
Snaps == {s \in [have : SUBSET ToSet(Reg), wide : BOOLEAN, smid : Seq(Chars)] : Len(s.smid) <= SMID_MAX}
Uses  == [topic : BOOLEAN, each : BOOLEAN]

\* The constants, one by one.
LEMMA Texts ==
  /\ TS_LEN \in Nat \ {0} /\ SMID_MAX \in Nat \ {0} /\ BUF \in Nat \ {0} /\ NUM_MAX \in Nat \ {0}
  /\ Reg \in Seq(ToSet(Reg)) /\ Reg # <<>> /\ Len(Reg) \in Nat /\ DOMAIN Reg = 1 .. Len(Reg)
  /\ \A k \in 1 .. Len(Reg) : Reg[k] \in ToSet(Reg)
  /\ \A r \in ToSet(Reg) : Name[r] \in Seq(Chars) /\ Unit[r] \in Seq(Chars)
  /\ \A r \in ToSet(Reg) : \E k \in 1 .. Len(Reg) : Reg[k] = r
  /\ Device \in Seq(Chars)
<1>1. Reg \in Seq(ToSet(Reg)) /\ Reg # <<>>
  BY MqttTemplateAssumption
<1>2. Len(Reg) \in Nat /\ DOMAIN Reg = 1 .. Len(Reg) /\ \A k \in 1 .. Len(Reg) : Reg[k] \in ToSet(Reg)
  BY <1>1
<1>3. \A r \in ToSet(Reg) : \E k \in 1 .. Len(Reg) : Reg[k] = r
  BY <1>2 DEF ToSet
<1>4. Name \in [ToSet(Reg) -> Seq(Chars)] /\ Unit \in [ToSet(Reg) -> Seq(Chars)]
  BY MqttTemplateAssumption
<1>5. TS_LEN \in Nat \ {0} /\ SMID_MAX \in Nat \ {0} /\ BUF \in Nat \ {0} /\ NUM_MAX \in Nat \ {0}
  BY MqttTemplateAssumption
<1>6. Device \in Seq(Chars)
  BY MqttTemplateAssumption
<1> QED
  BY <1>1, <1>2, <1>3, <1>4, <1>5, <1>6

\* A number takes up to NUM_MAX characters, none of them special.
LEMMA NumIs ==
  ASSUME NEW r, NEW s
  PROVE  num(r, s) \in Seq(Clean) /\ num(r, s) \in Seq(Chars) /\ Len(num(r, s)) <= NUM_MAX
<1>1. "x" \in Clean /\ "x" \in Chars /\ NUM_MAX \in Nat /\ NUM_MAX >= 1
  BY Texts DEF Clean, Chars
<1>2. CASE s.wide
  <2>1. num(r, s) = [i \in 1 .. NUM_MAX |-> "x"]
    BY <1>2 DEF num
  <2> QED
    BY <1>1, <2>1
<1>3. CASE ~ s.wide
  <2>1. num(r, s) = <<"x">>
    BY <1>3 DEF num
  <2> QED
    BY <1>1, <2>1
<1> QED
  BY <1>2, <1>3

\* A register of a list, with its name and value.
Most(r, e) == 1 + escLen(Name[r], e) + (IF e = "json" THEN 3 ELSE 1) + NUM_MAX
Mosts(e) == [k \in DOMAIN Reg |-> IF Reg[k] \in Numeric THEN Most(Reg[k], e) ELSE 0]

LEMMA PairIs ==
  ASSUME NEW r \in ToSet(Reg), NEW s, NEW e \in {"json", "lp"}
  PROVE  Pair(r, s, e) \in Seq(Chars) /\ Len(Pair(r, s, e)) + 1 <= Most(r, e) /\ Most(r, e) \in Nat
<1> DEFINE text == escStr(Name[r], e)
           most == escLen(Name[r], e)
           n == num(r, s)
<1>1. Name[r] \in Seq(Chars) /\ e \in Escapes
  BY Texts DEF Escapes
<1>2. text \in Seq(Chars) /\ Len(text) <= most /\ most \in Nat
  BY <1>1, EscIs
<1>3. n \in Seq(Chars) /\ Len(n) <= NUM_MAX /\ NUM_MAX \in Nat
  BY NumIs, Texts
<1>4. "quote" \in Chars /\ "x" \in Chars
  BY DEF Chars
<1>5. Pair(r, s, e) = (IF e = "json" THEN <<"quote">> \o text \o <<"quote", "x">> ELSE text \o <<"x">>) \o n
  BY DEF Pair
<1>6. Most(r, e) = 1 + most + (IF e = "json" THEN 3 ELSE 1) + NUM_MAX
  BY DEF Most
<1> HIDE DEF text, most, n
<1>j. e = "json" => Most(r, e) = most + 4 + NUM_MAX /\ Most(r, e) \in Nat
  BY <1>2, <1>3, <1>6
<1>p. e = "lp" => Most(r, e) = most + 2 + NUM_MAX /\ Most(r, e) \in Nat
  BY <1>2, <1>3, <1>6
<1>7. CASE e = "json"
  <2> DEFINE a == <<"quote">> \o text
             b == a \o <<"quote", "x">>
  <2>1. a \in Seq(Chars) /\ Len(a) = Len(text) + 1
    BY <1>2, <1>4
  <2> HIDE DEF a
  <2>2. b \in Seq(Chars) /\ Len(b) = Len(a) + 2
    BY <1>4, <2>1
  <2> HIDE DEF b
  <2>3. b \o n \in Seq(Chars) /\ Len(b \o n) = Len(b) + Len(n)
    BY <1>3, <2>2
  <2>4. Pair(r, s, e) = b \o n
    BY <1>5, <1>7 DEF a, b
  <2>5. Len(n) \in Nat /\ Len(text) \in Nat
    BY <1>2, <1>3
  <2>6. Len(b \o n) = Len(text) + 3 + Len(n) /\ Len(b \o n) + 1 <= most + 4 + NUM_MAX
    BY <1>2, <1>3, <2>1, <2>2, <2>3, <2>5
  <2> QED
    BY <1>2, <1>3, <1>j, <1>7, <2>1, <2>2, <2>3, <2>4, <2>6
<1>8. CASE e = "lp"
  <2> DEFINE b == text \o <<"x">>
  <2>2. b \in Seq(Chars) /\ Len(b) = Len(text) + 1
    BY <1>2, <1>4
  <2> HIDE DEF b
  <2>3. b \o n \in Seq(Chars) /\ Len(b \o n) = Len(b) + Len(n)
    BY <1>3, <2>2
  <2>4. Pair(r, s, e) = b \o n
    BY <1>5, <1>8 DEF b
  <2>5. Len(n) \in Nat /\ Len(text) \in Nat
    BY <1>2, <1>3
  <2>6. Len(b \o n) = Len(text) + 1 + Len(n) /\ Len(b \o n) + 1 <= most + 2 + NUM_MAX
    BY <1>2, <1>3, <2>2, <2>3, <2>5
  <2> QED
    BY <1>2, <1>3, <1>p, <1>8, <2>2, <2>3, <2>4, <2>6
<1> QED
  BY <1>7, <1>8

\* What a register adds to a list.
Comma(k, s) == IF \E j \in 1 .. k - 1 : itemOk(Reg[j], s) THEN <<"comma">> ELSE <<>>
Listed(k, s, e) == IF itemOk(Reg[k], s) THEN Comma(k, s) \o Pair(Reg[k], s, e) ELSE <<>>

LEMMA PairsIs ==
  ASSUME NEW s, NEW e \in {"json", "lp"}
  PROVE  pairs(s, e) \in Seq(Chars) /\ Len(pairs(s, e)) <= listMax(e) /\ listMax(e) \in Nat
<1> DEFINE N == Len(Reg)
           ps == [k \in DOMAIN Reg |-> Listed(k, s, e)]
<1>1. pairs(s, e) = Joined(ps)
  BY DEF pairs, Listed, Comma
<1>2. listMax(e) = Total(Mosts(e))
  BY DEF listMax, Mosts, Most
<1>3. DOMAIN Reg = 1 .. N /\ N \in Nat
  BY Texts
<1>4. ASSUME NEW k \in 1 .. N
      PROVE  /\ Listed(k, s, e) \in Seq(Chars) /\ Mosts(e)[k] \in Nat
             /\ Len(Listed(k, s, e)) <= Mosts(e)[k]
  <2>1. Reg[k] \in ToSet(Reg)
    BY Texts
  <2>2. /\ Pair(Reg[k], s, e) \in Seq(Chars) /\ Len(Pair(Reg[k], s, e)) + 1 <= Most(Reg[k], e)
        /\ Most(Reg[k], e) \in Nat
    BY <2>1, PairIs
  <2>3. Mosts(e)[k] = IF Reg[k] \in Numeric THEN Most(Reg[k], e) ELSE 0
    BY <1>3 DEF Mosts
  <2>4. Comma(k, s) \in Seq(Chars) /\ Len(Comma(k, s)) \in 0 .. 1
    <3>1. "comma" \in Chars
      BY DEF Chars
    <3>2. <<"comma">> \in Seq(Chars) /\ Len(<<"comma">>) = 1 /\ <<>> \in Seq(Chars) /\ Len(<<>>) = 0
      BY <3>1
    <3>3. Comma(k, s) = <<"comma">> \/ Comma(k, s) = <<>>
      BY DEF Comma
    <3>4. CASE Comma(k, s) = <<"comma">>
      BY <3>2, <3>4
    <3>5. CASE Comma(k, s) = <<>>
      BY <3>2, <3>5
    <3> QED
      BY <3>3, <3>4, <3>5
  <2> HIDE DEF N
  <2>5. CASE itemOk(Reg[k], s)
    <3>1. Reg[k] \in Numeric /\ Listed(k, s, e) = Comma(k, s) \o Pair(Reg[k], s, e)
      BY <2>5 DEF itemOk, Listed
    <3>2. /\ Comma(k, s) \o Pair(Reg[k], s, e) \in Seq(Chars)
          /\ Len(Comma(k, s) \o Pair(Reg[k], s, e)) = Len(Comma(k, s)) + Len(Pair(Reg[k], s, e))
      BY <2>2, <2>4
    <3>3. Len(Pair(Reg[k], s, e)) \in Nat
      BY <2>2
    <3>4. Mosts(e)[k] = Most(Reg[k], e)
      BY <2>3, <3>1
    <3> QED
      BY <2>2, <2>4, <3>1, <3>2, <3>3, <3>4
  <2>6. CASE ~ itemOk(Reg[k], s)
    <3>1. Listed(k, s, e) = <<>> /\ Mosts(e)[k] \in Nat
      BY <2>2, <2>3, <2>6 DEF Listed
    <3>2. <<>> \in Seq(Chars) /\ Len(<<>>) = 0
      OBVIOUS
    <3> QED
      BY <3>1, <3>2
  <2> QED
    BY <2>5, <2>6
<1>5. ps \in Seq(Seq(Chars)) /\ Len(ps) = N /\ \A k \in 1 .. N : ps[k] = Listed(k, s, e)
  <2>1. ps = [k \in 1 .. N |-> Listed(k, s, e)]
    BY <1>3
  <2>2. \A k \in 1 .. N : Listed(k, s, e) \in Seq(Chars)
    BY <1>4
  <2> HIDE DEF N
  <2> QED
    BY <1>3, <2>1, <2>2
<1>6. Mosts(e) \in Seq(Nat) /\ Len(Mosts(e)) = N
  <2>1. Mosts(e) = [k \in 1 .. N |-> Mosts(e)[k]]
    BY <1>3 DEF Mosts
  <2>2. \A k \in 1 .. N : Mosts(e)[k] \in Nat
    BY <1>4
  <2> HIDE DEF N
  <2> QED
    BY <1>3, <2>1, <2>2
<1> HIDE DEF ps, N
<1>7. Len(Joined(ps)) <= Total(Mosts(e))
  <2>1. \A k \in 1 .. Len(ps) : Len(ps[k]) <= Mosts(e)[k]
    BY <1>4, <1>5
  <2> QED
    BY <1>5, <1>6, <2>1, JoinedLen
<1>8. Joined(ps) \in Seq(Chars) /\ Total(Mosts(e)) \in Nat
  BY <1>5, <1>6, JoinedType, TotalType
<1> QED
  BY <1>1, <1>2, <1>7, <1>8

\* The longest text of the registers with a number.
LEMMA TextMaxIs ==
  ASSUME NEW texts \in [ToSet(Reg) -> Seq(Chars)], NEW e \in Escapes
  PROVE  textMax(texts, e) \in Nat /\ \A r \in Numeric : escLen(texts[r], e) <= textMax(texts, e)
<1> DEFINE N == Len(Reg)
           most == [k \in DOMAIN Reg |-> IF Reg[k] \in Numeric THEN escLen(texts[Reg[k]], e) ELSE 0]
<1>1. textMax(texts, e) = Largest(most)
  BY DEF textMax
<1>2. DOMAIN Reg = 1 .. N /\ N \in Nat
  BY Texts
<1>3. \A k \in 1 .. N : escLen(texts[Reg[k]], e) \in Nat
  BY Texts, EscIs
<1>4. most \in Seq(Nat) /\ Len(most) = N
      /\ \A k \in 1 .. N : Reg[k] \in Numeric => most[k] = escLen(texts[Reg[k]], e)
  <2>1. most = [k \in 1 .. N |-> IF Reg[k] \in Numeric THEN escLen(texts[Reg[k]], e) ELSE 0]
    BY <1>2
  <2> HIDE DEF N
  <2> QED
    BY <1>2, <1>3, <2>1
<1> HIDE DEF most, N
<1>5. Largest(most) \in Nat /\ \A k \in 1 .. N : most[k] <= Largest(most)
  BY <1>4, LargestIs
<1>6. ASSUME NEW r \in Numeric PROVE escLen(texts[r], e) <= Largest(most)
  <2>1. PICK k \in 1 .. N : Reg[k] = r
    BY Texts DEF Numeric, N
  <2> QED
    BY <1>4, <1>5, <2>1
<1> QED
  BY <1>1, <1>5, <1>6

\* A piece that nothing is wrong with.
LEMMA FaultNone ==
  ASSUME NEW p \in Pieces, NEW u \in Uses, fault(p, u) = "none"
  PROVE  /\ p.key = "lit" /\ u.topic => p.arg # "wild"
         /\ p.key \in Lists => ~ u.each /\ ~ u.topic
         /\ p.key \in Item => u.each
         /\ p.key \in Reading => p.arg \in ToSet(Reg)
<1>1. p.key = "lit" /\ u.topic => p.arg # "wild"
  BY DEF fault
<1>2. p.key \in Lists => ~ u.each /\ ~ u.topic
  BY DEF fault, Lists
<1>3. p.key \in Item => u.each
  BY DEF fault, Lists, Item
<1>4. p.key \in Reading => p.arg \in ToSet(Reg)
  BY DEF fault, Lists, Item, Reading
<1> QED
  BY <1>1, <1>2, <1>3, <1>4

\* Rendered into the characters allowed, within its bound.
Within(t, n, u) ==
  /\ t \in Seq(Chars) /\ n \in Nat /\ Len(t) <= n
  /\ u.topic => t \in Seq(Clean)

LEMMA EscWithin ==
  ASSUME NEW text \in Seq(Chars), NEW u \in Uses
  PROVE  Within(escStr(text, esc(u)), escLen(text, esc(u)), u) /\ esc(u) \in Escapes
<1>1. esc(u) \in Escapes /\ (u.topic => esc(u) = "topic")
  BY DEF esc, Escapes
<1> QED
  BY <1>1, EscIs DEF Within

\* A shorter bound does as well.
LEMMA WithinMore ==
  ASSUME NEW t, NEW n, NEW k \in Nat, NEW u, Within(t, n, u), n <= k
  PROVE  Within(t, k, u)
<1>1. Len(t) \in Nat /\ Len(t) <= n /\ n \in Nat
  BY DEF Within
<1>2. Len(t) <= k
  BY <1>1
<1> QED
  BY <1>2 DEF Within

LEMMA NumWithin == ASSUME NEW r, NEW s, NEW u PROVE Within(num(r, s), NUM_MAX, u)
BY NumIs, Texts DEF Within

\* mqtt-template.js, compile and render: a piece that nothing is wrong with is rendered within
\* its bound, and without a wildcard in a topic.
LEMMA BoundHolds ==
  ASSUME NEW p \in Pieces, NEW u \in Uses, NEW s \in Snaps, fault(p, u) = "none",
         NEW item \in ToSet(Reg), u.each => item \in Numeric
  PROVE  Within(rendered(p, u, s, item), bound(p, u), u)
<1> DEFINE t == rendered(p, u, s, item)
           n == bound(p, u)
<1>x. "x" \in Clean /\ "x" \in Chars /\ Len(<<"x">>) = 1 /\ <<"x">> \in Seq(Clean) /\ <<"x">> \in Seq(Chars)
  <2>1. "x" \in Clean /\ "x" \in Chars
    BY DEF Clean, Chars
  <2> QED
    BY <2>1
<1>1. CASE p.key = "lit"
  <2>1. t = <<p.arg>> /\ n = 1
    BY <1>1 DEF rendered, bound
  <2>2. p.arg \in Chars /\ (u.topic => p.arg \in Clean)
    BY <1>1, FaultNone, MqttTemplateAssumption DEF Clean
  <2>3. <<p.arg>> \in Seq(Chars) /\ Len(<<p.arg>>) = 1 /\ (u.topic => <<p.arg>> \in Seq(Clean))
    BY <2>2
  <2> QED
    BY <2>1, <2>3 DEF Within
<1>2. CASE p.key = "device"
  <2>1. t = escStr(Device, esc(u)) /\ n = escLen(Device, esc(u))
    BY <1>2 DEF rendered, bound
  <2> QED
    BY <2>1, Texts, EscWithin
<1>3. CASE p.key = "meter"
  <2>1. t = escStr(s.smid, esc(u)) /\ n = IF u.topic THEN SMID_MAX ELSE 2 * SMID_MAX
    BY <1>3 DEF rendered, bound
  <2>2. s.smid \in Seq(Chars) /\ Len(s.smid) <= SMID_MAX
    BY DEF Snaps
  <2> DEFINE m == escLen(s.smid, esc(u))
  <2>3. Within(t, m, u) /\ esc(u) \in Escapes
    BY <2>1, <2>2, EscWithin
  <2>4. m \in Nat /\ m <= 2 * Len(s.smid) /\ (esc(u) = "topic" => m <= Len(s.smid))
    BY <2>2, <2>3, EscIs
  <2>5. (u.topic => esc(u) = "topic") /\ u.topic \in BOOLEAN
    BY DEF esc, Uses
  <2>6. SMID_MAX \in Nat /\ Len(s.smid) \in Nat
    BY <2>2, Texts
  <2> HIDE DEF m, t, n
  <2>7. CASE u.topic
    <3>1. n = SMID_MAX /\ m <= n /\ n \in Nat
      BY <2>1, <2>2, <2>4, <2>5, <2>6, <2>7
    <3> QED
      BY <2>3, <3>1, WithinMore DEF t, n
  <2>8. CASE ~ u.topic
    <3>1. n = 2 * SMID_MAX /\ m <= n /\ n \in Nat
      BY <2>1, <2>2, <2>4, <2>5, <2>6, <2>8
    <3> QED
      BY <2>3, <3>1, WithinMore DEF t, n
  <2> QED
    BY <2>7, <2>8
<1>4. CASE p.key = "ts"
  <2>1. t = [i \in 1 .. TS_LEN |-> "x"] /\ n = TS_LEN
    BY <1>4 DEF rendered, bound
  <2>2. TS_LEN \in Nat
    BY Texts
  <2> QED
    BY <1>x, <2>1, <2>2 DEF Within
<1>5. CASE p.key = "values"
  <2> DEFINE q == pairs(s, "json")
  <2>1. t = <<"x">> \o q \o <<"x">> /\ n = 2 + listMax("json")
    BY <1>5 DEF rendered, bound
  <2>2. q \in Seq(Chars) /\ Len(q) <= listMax("json") /\ listMax("json") \in Nat
    BY PairsIs
  <2>3. ~ u.topic
    BY <1>5, FaultNone DEF Lists
  <2> HIDE DEF q, t, n
  <2>4. <<"x">> \o q \in Seq(Chars) /\ Len(<<"x">> \o q) = 1 + Len(q)
    BY <1>x, <2>2
  <2>5. t \in Seq(Chars) /\ Len(t) = 2 + Len(q) /\ Len(q) \in Nat
    BY <1>x, <2>1, <2>2, <2>4
  <2>6. n \in Nat /\ Len(t) <= n
    BY <2>1, <2>2, <2>5
  <2> QED
    BY <2>3, <2>5, <2>6 DEF Within, t, n
<1>6. CASE p.key = "values_lp"
  <2>1. t = pairs(s, "lp") /\ n = listMax("lp")
    BY <1>6 DEF rendered, bound
  <2>2. ~ u.topic
    BY <1>6, FaultNone DEF Lists
  <2> QED
    BY <2>1, <2>2, PairsIs DEF Within
<1>7. ASSUME NEW texts \in {Name, Unit}, p.key \in Item,
             t = escStr(texts[item], esc(u)), n = textMax(texts, esc(u))
      PROVE  Within(t, n, u)
  <2>1. texts[item] \in Seq(Chars) /\ texts \in [ToSet(Reg) -> Seq(Chars)] /\ item \in Numeric
    BY <1>7, Texts, FaultNone, MqttTemplateAssumption
  <2>2. Within(t, escLen(texts[item], esc(u)), u) /\ esc(u) \in Escapes
    BY <1>7, <2>1, EscWithin
  <2>3. textMax(texts, esc(u)) \in Nat /\ escLen(texts[item], esc(u)) <= textMax(texts, esc(u))
    BY <2>1, <2>2, TextMaxIs
  <2> HIDE DEF t, n
  <2> QED
    BY <1>7, <2>2, <2>3, WithinMore
<1>8. CASE p.key = "i_name"
  <2>1. t = escStr(Name[item], esc(u)) /\ n = textMax(Name, esc(u)) /\ p.key \in Item
    BY <1>8 DEF rendered, bound, Item
  <2> QED
    BY <1>7, <2>1
<1>9. CASE p.key = "i_unit"
  <2>1. t = escStr(Unit[item], esc(u)) /\ n = textMax(Unit, esc(u)) /\ p.key \in Item
    BY <1>9 DEF rendered, bound, Item
  <2> QED
    BY <1>7, <2>1
<1>10. CASE p.key = "i_value"
  <2>1. t = num(item, s) /\ n = NUM_MAX
    BY <1>10 DEF rendered, bound
  <2> QED
    BY <2>1, NumWithin
<1>11. CASE p.key = "val"
  <2>1. t = (IF p.arg \in s.have THEN num(p.arg, s) ELSE <<"x">>) /\ n = NUM_MAX
    BY <1>11 DEF rendered, bound
  <2>2. CASE p.arg \in s.have
    BY <2>1, <2>2, NumWithin
  <2>3. CASE p.arg \notin s.have
    <3>1. NUM_MAX \in Nat /\ 1 <= NUM_MAX
      BY Texts
    <3> QED
      BY <1>x, <2>1, <2>3, <3>1 DEF Within
  <2> QED
    BY <2>2, <2>3
<1>12. CASE p.key = "unit"
  <2>1. t = escStr(Unit[p.arg], esc(u)) /\ n = escLen(Unit[p.arg], esc(u))
    BY <1>12 DEF rendered, bound
  <2>2. Unit[p.arg] \in Seq(Chars)
    BY <1>12, FaultNone, Texts DEF Reading
  <2> QED
    BY <2>1, <2>2, EscWithin
<1>13. p.key \in {"lit"} \cup Fixed \cup Lists \cup Item \cup Reading
  BY MqttTemplateAssumption
<1>14. \/ p.key = "lit" \/ p.key = "device" \/ p.key = "meter" \/ p.key = "ts"
       \/ p.key = "values" \/ p.key = "values_lp"
       \/ p.key = "i_name" \/ p.key = "i_unit" \/ p.key = "i_value" \/ p.key = "val" \/ p.key = "unit"
  BY <1>13 DEF Fixed, Lists, Item, Reading
<1> QED
  BY <1>1, <1>2, <1>3, <1>4, <1>5, <1>6, <1>8, <1>9, <1>10, <1>11, <1>12, <1>14

-----------------------------------------------------------------------------
(* MqttTemplate: templates.                                                *)

\* What an accepted template is.
LEMMA AcceptedIs ==
  ASSUME NEW ps, NEW u, compile(ps, u).code = "ok"
  PROVE  (\A i \in DOMAIN ps : fault(ps[i], u) = "none") /\ ~ (worst(ps, u) + 1 > BUF)
<1> DEFINE bad == {i \in DOMAIN ps : \/ fault(ps[i], u) # "none"
                                     \/ Tokens(SubSeq(ps, 1, i)) > MAX_TOKENS}
           i0 == CHOOSE k \in bad : \A m \in bad : k <= m
<1>1. \A p : fault(p, u) # "ok"
  BY DEF fault
<1>2. \A c, q : Verdict(c, q).code = c
  BY DEF Verdict
<1> DEFINE nameless == u.topic /\ u.each /\ "i_name" \notin {ps[k].key : k \in DOMAIN ps}
<1>3. compile(ps, u) = IF Len(ps) > TPL_MAX THEN Verdict("tpl_too_long", Len(ps))
                       ELSE IF ps = <<>> THEN Verdict("tpl_empty", 0)
                       ELSE IF bad # {} THEN IF fault(ps[i0], u) # "none" THEN Verdict(fault(ps[i0], u), i0)
                                             ELSE Verdict("tpl_too_long", i0)
                       ELSE IF nameless THEN Verdict("tpl_topic", 0)
                       ELSE IF worst(ps, u) + 1 > BUF THEN Verdict("tpl_overflow", 0)
                       ELSE Verdict("ok", 0)
  BY DEF compile
<1> HIDE DEF bad, i0, nameless
<1>4. bad = {} /\ ~ (worst(ps, u) + 1 > BUF)
  BY <1>1, <1>2, <1>3
<1> QED
  BY <1>4 DEF bad

\* An accepted template, rendered.
LEMMA RenderIs ==
  ASSUME NEW ps \in Seq(Pieces), NEW u \in Uses, NEW s \in Snaps, compile(ps, u).code = "ok",
         NEW item \in ToSet(Reg), u.each => item \in Numeric
  PROVE  /\ Len(render(ps, u, s, item)) < BUF
         /\ u.topic => render(ps, u, s, item) \in Seq(Clean)
<1> DEFINE n == Len(ps)
           ts == [i \in DOMAIN ps |-> rendered(ps[i], u, s, item)]
           bs == [i \in DOMAIN ps |-> bound(ps[i], u)]
<1>1. n \in Nat /\ DOMAIN ps = 1 .. n /\ \A i \in 1 .. n : ps[i] \in Pieces
  OBVIOUS
<1>2. \A i \in 1 .. n : Within(rendered(ps[i], u, s, item), bound(ps[i], u), u)
  BY <1>1, AcceptedIs, BoundHolds
<1>3. ts = [i \in 1 .. n |-> rendered(ps[i], u, s, item)] /\ bs = [i \in 1 .. n |-> bound(ps[i], u)]
  BY <1>1
<1>4. render(ps, u, s, item) = Joined(ts) /\ worst(ps, u) = Total(bs)
  BY DEF render, worst
<1> HIDE DEF ts, bs, n
<1>5. \A i \in 1 .. n : /\ ts[i] \in Seq(Chars) /\ bs[i] \in Nat /\ Len(ts[i]) <= bs[i]
                        /\ u.topic => ts[i] \in Seq(Clean)
  BY <1>2, <1>3 DEF Within
<1>6. /\ ts \in Seq(Seq(Chars)) /\ Len(ts) = n /\ bs \in Seq(Nat) /\ Len(bs) = n
      /\ u.topic => ts \in Seq(Seq(Clean))
  <2>1. \A i \in 1 .. n : rendered(ps[i], u, s, item) \in Seq(Chars) /\ bound(ps[i], u) \in Nat
    BY <1>2 DEF Within
  <2>2. u.topic => \A i \in 1 .. n : rendered(ps[i], u, s, item) \in Seq(Clean)
    BY <1>2 DEF Within
  <2>3. ts \in Seq(Seq(Chars)) /\ Len(ts) = n
    BY <1>1, <1>3, <2>1
  <2>4. bs \in Seq(Nat) /\ Len(bs) = n
    BY <1>1, <1>3, <2>1
  <2>5. u.topic => ts \in Seq(Seq(Clean))
    BY <1>1, <1>3, <2>2
  <2> QED
    BY <2>3, <2>4, <2>5
<1>7. Len(Joined(ts)) <= Total(bs)
  BY <1>5, <1>6, JoinedLen
<1>8. Total(bs) \in Nat /\ Joined(ts) \in Seq(Chars)
  BY <1>6, TotalType, JoinedType
<1>9. Len(Joined(ts)) < BUF
  <2>1. ~ (Total(bs) + 1 > BUF) /\ BUF \in Nat
    BY <1>4, AcceptedIs, Texts
  <2>2. Len(Joined(ts)) \in Nat
    BY <1>8
  <2> QED
    BY <1>7, <1>8, <2>1, <2>2
<1>10. u.topic => Joined(ts) \in Seq(Clean)
  BY <1>6, JoinedType
<1> QED
  BY <1>4, <1>9, <1>10

\* What is typed and what the meter sends.
MtTypeOK == use \in Uses /\ tpl \in Seq(Pieces) /\ snap \in Snaps

LEMMA MtInitial == MtInit => MtTypeOK
<1> SUFFICES ASSUME MtInit PROVE MtTypeOK
  OBVIOUS
<1>1. use \in Uses /\ tpl \in Seq(Pieces)
  BY DEF MtInit, Uses
<1>2. <<>> \in Seq(Chars) /\ Len(<<>>) <= SMID_MAX
  BY Texts
<1>3. snap \in Snaps
  BY <1>2 DEF MtInit, Snaps
<1> QED
  BY <1>1, <1>3 DEF MtTypeOK

LEMMA MtInductive == MtTypeOK /\ [MtNext]_mtVars => MtTypeOK'
<1> SUFFICES ASSUME MtTypeOK, [MtNext]_mtVars PROVE MtTypeOK'
  OBVIOUS
<1>1. CASE Typed
  BY <1>1 DEF Typed, MtTypeOK
<1>2. CASE Telegram
  <2>1. snap' \in [have : SUBSET ToSet(Reg), wide : BOOLEAN, smid : Meters] /\ use' = use /\ tpl' = tpl
    BY <1>2 DEF Telegram
  <2>2. \A m \in Meters : m \in Seq(Chars) /\ Len(m) <= SMID_MAX
    BY MqttTemplateAssumption
  <2>3. snap' \in Snaps
    BY <2>1, <2>2 DEF Snaps
  <2> QED
    BY <2>1, <2>3 DEF MtTypeOK
<1>3. CASE UNCHANGED mtVars
  BY <1>3 DEF mtVars, MtTypeOK
<1> QED
  BY <1>1, <1>2, <1>3 DEF MtNext

LEMMA ItemsAre ==
  ASSUME MtTypeOK, NEW r \in Items
  PROVE  r \in ToSet(Reg) /\ (use.each => r \in Numeric)
<1>1. Reg[1] \in ToSet(Reg)
  BY Texts
<1> QED
  BY <1>1 DEF Items, itemOk

\* An accepted topic of status or availability has the text and the device only.
LEMMA FixedIs ==
  ASSUME NEW ps, compileFixed(ps).code = "ok"
  PROVE  \A i \in DOMAIN ps : ps[i].key \in {"lit", "device"}
<1> DEFINE c == compile(ps, [topic |-> TRUE, each |-> FALSE])
           bad == {i \in DOMAIN ps : ps[i].key \notin {"lit", "device"}}
           v == Verdict("tpl_context", CHOOSE k \in bad : \A m \in bad : k <= m)
<1>1. compileFixed(ps) = IF c.code # "ok" THEN c ELSE IF bad # {} THEN v ELSE c
  BY DEF compileFixed
<1>2. v.code = "tpl_context"
  BY DEF Verdict
<1> HIDE DEF c, bad, v
<1>3. bad = {}
  BY <1>1, <1>2
<1> QED
  BY <1>3 DEF bad

\* mqtt-template.js: an accepted template renders into its buffer, whatever the meter sends; no
\* topic it makes holds a wildcard, and those of status and availability do not depend on the
\* meter.
LEMMA TemplatesAreSafe == MtTypeOK => FitsBuffer /\ TopicClean /\ FixedTopic
<1> SUFFICES ASSUME MtTypeOK PROVE FitsBuffer /\ TopicClean /\ FixedTopic
  OBVIOUS
<1>1. ASSUME Compiles, NEW r \in Items
      PROVE  /\ Len(render(tpl, use, snap, r)) < BUF
             /\ use.topic => render(tpl, use, snap, r) \in Seq(Clean)
  <2>1. r \in ToSet(Reg) /\ (use.each => r \in Numeric)
    BY ItemsAre
  <2>2. compile(tpl, use).code = "ok"
    BY <1>1 DEF Compiles
  <2>3. use \in Uses /\ tpl \in Seq(Pieces) /\ snap \in Snaps
    BY DEF MtTypeOK
  <2> QED
    BY <2>1, <2>2, <2>3, RenderIs
<1>2. FitsBuffer
  BY <1>1 DEF FitsBuffer
<1>3. TopicClean
  <2>1. \A t \in Seq(Clean) : "wild" \notin ToSet(t)
    BY DEF Clean, ToSet
  <2> QED
    BY <1>1, <2>1 DEF TopicClean
<1>4. FixedTopic
  <2> DEFINE u == [topic |-> TRUE, each |-> FALSE]
             any == [have |-> {}, wide |-> FALSE, smid |-> <<>>]
  <2>1. ASSUME compileFixed(tpl).code = "ok"
        PROVE  render(tpl, u, snap, Reg[1]) = render(tpl, u, any, Reg[1])
    <3>1. ASSUME NEW i \in DOMAIN tpl
          PROVE  rendered(tpl[i], u, snap, Reg[1]) = rendered(tpl[i], u, any, Reg[1])
      <4>1. tpl[i].key = "lit" \/ tpl[i].key = "device"
        BY <2>1, FixedIs
      <4>2. CASE tpl[i].key = "lit"
        BY <4>2 DEF rendered
      <4>3. CASE tpl[i].key = "device"
        BY <4>3 DEF rendered
      <4> QED
        BY <4>1, <4>2, <4>3
    <3> HIDE DEF u, any
    <3>2. [i \in DOMAIN tpl |-> rendered(tpl[i], u, snap, Reg[1])]
            = [i \in DOMAIN tpl |-> rendered(tpl[i], u, any, Reg[1])]
      BY <3>1
    <3> QED
      BY <3>2 DEF render
  <2> QED
    BY <2>1 DEF FixedTopic
<1> QED
  BY <1>2, <1>3, <1>4

\* mqtt-template.js: an accepted template renders into its buffer, whatever the meter sends; no
\* topic it makes holds a wildcard, and those of status and availability do not depend on the
\* meter.
THEOREM TemplatesStaySafe == MtSpec => [](FitsBuffer /\ TopicClean /\ FixedTopic)
BY MtInitial, MtInductive, TemplatesAreSafe, PTL DEF MtSpec

-----------------------------------------------------------------------------
(* Both.                                                                   *)

\* A behaviour of the instance is one of each: the one in focus takes its own steps, the other
\* takes none.
LEMMA PublishIsItself == PublishSpec => MqSpec /\ MtSpec
<1>1. PublishInit => MqInit /\ MtInit
  BY DEF PublishInit
<1>2. ASSUME [PublishNext]_<<focus, mqVars, mtVars>>
      PROVE  [MqNext]_mqVars /\ [MtNext]_mtVars
  <2>1. CASE MqNext /\ UNCHANGED mtVars
    BY <2>1
  <2>2. CASE MtNext /\ UNCHANGED mqVars
    BY <2>2
  <2>3. CASE UNCHANGED <<focus, mqVars, mtVars>>
    BY <2>3
  <2> QED
    BY <1>2, <2>1, <2>2, <2>3 DEF PublishNext
<1> QED
  BY <1>1, <1>2, PTL DEF PublishSpec, MqSpec, MtSpec

\* mqtt-template.js: whatever is published, templates are safe.
THEOREM PublishedSafely == PublishSpec => []TemplateSafe
<1>1. FitsBuffer /\ TopicClean /\ FixedTopic => TemplateSafe
  BY DEF TemplateSafe
<1> QED
  BY <1>1, PublishIsItself, TemplatesStaySafe, PTL
=============================================================================

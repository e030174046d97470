---------------------------- MODULE MqttTemplate ----------------------------
(***************************************************************************)
(* The templates of MQTT topics and messages (spa/src/live/                *)
(* mqtt-template.js, which follows firmware mqtt_template.h step by step): *)
(* compile checks a template against the profile's registers and bounds    *)
(* what it can render to, so that the device renders into fixed buffers.   *)
(*                                                                         *)
(* A text is a sequence of characters of a few classes, a template a       *)
(* sequence of pieces: a character, or a key such as {value} with the      *)
(* register it names.  The buffer sizes are constants.                     *)
(***************************************************************************)
EXTENDS Integers, SequencesExt

CONSTANTS
  Reg,          \* the profile's registers, in its order
  Name, Unit,   \* of each register, its text
  IsText,       \* the registers whose value is a text, a set
  Device,       \* the device's name
  Meters,       \* the texts the meter may give for itself
  Pieces,       \* the pieces of the templates tried
  MaxPieces,    \* bound: pieces of a template
  TPL_MAX,      \* characters of a template, TOPIC_TPL_MAX or PAYLOAD_TPL_MAX
  MAX_TOKENS, NUM_MAX, TS_LEN, SMID_MAX, BUF

\* Characters: "x" stands for itself everywhere; a quote or backslash, a comma or blank, and
\* a wildcard (+ or #) are special to JSON, to the line protocol and to a topic.
Special == [json |-> {"quote", "back"}, lp |-> {"comma"}, topic |-> {"wild"}]
Chars   == {"x", "quote", "comma", "wild", "back", "under"}

Fixed   == {"device", "meter", "ts"}
Lists   == {"values", "values_lp"}
Item    == {"i_name", "i_value", "i_unit"}
Reading == {"val", "unit"}

ASSUME MqttTemplateAssumption ==
  /\ {MaxPieces, TPL_MAX, MAX_TOKENS, NUM_MAX, TS_LEN, SMID_MAX, BUF} \subseteq Nat \ {0}
  /\ Reg \in Seq(ToSet(Reg)) \ {<<>>} /\ IsText \subseteq ToSet(Reg)
  /\ {Name, Unit} \subseteq [ToSet(Reg) -> Seq(Chars)]
  /\ {Device} \cup Meters \subseteq Seq(Chars) /\ \A m \in Meters : Len(m) <= SMID_MAX
  /\ \A p \in Pieces : /\ p.key \in {"lit"} \cup Fixed \cup Lists \cup Item \cup Reading
                       /\ p.key = "lit" => p.arg \in Chars

VARIABLES
  use,      \* what the template is for: [topic, each]
  tpl,      \* the pieces typed so far
  snap      \* the values it is rendered with: [have, wide, smid]

mtVars == <<use, tpl, snap>>

Numeric == ToSet(Reg) \ IsText

MtInit ==
  /\ use \in [topic : BOOLEAN, each : BOOLEAN]
  /\ tpl = <<>>
  /\ snap = [have |-> {}, wide |-> FALSE, smid |-> <<>>]

\* The user types.
Typed == /\ Len(tpl) < MaxPieces
         /\ \E p \in Pieces : tpl' = Append(tpl, p)
         /\ UNCHANGED <<use, snap>>

\* The meter sends other values.
Telegram == /\ snap' \in [have : SUBSET ToSet(Reg), wide : BOOLEAN, smid : Meters]
            /\ snap' # snap
            /\ UNCHANGED <<use, tpl>>

MtNext == Typed \/ Telegram
MtSpec == MtInit /\ [][MtNext]_mtVars

-----------------------------------------------------------------------------
(* compile *)

Total(s)   == FoldLeft(LAMBDA a, n : a + n, 0, s)
Largest(s) == FoldLeft(LAMBDA a, n : IF n > a THEN n ELSE a, 0, s)
Joined(ss) == FoldLeft(LAMBDA a, s : a \o s, <<>>, ss)

\* Mutant: escaping is not counted.
escLen_Plain(text, e) == Len(text)

\* escLen: an escaped character takes two, except in a topic where it is replaced.
escLen(text, e) ==
  Total([i \in DOMAIN text |-> IF e # "topic" /\ text[i] \in Special[e] THEN 2 ELSE 1])

esc(u) == IF u.topic THEN "topic" ELSE "json"

\* Over all registers with a number: their names and values in a list, the longest text.
listMax(e) ==
  LET most(r) == 1 + escLen(Name[r], e) + (IF e = "json" THEN 3 ELSE 1) + NUM_MAX
  IN Total([k \in DOMAIN Reg |-> IF Reg[k] \in Numeric THEN most(Reg[k]) ELSE 0])
textMax(texts, e) ==
  Largest([k \in DOMAIN Reg |-> IF Reg[k] \in Numeric THEN escLen(texts[Reg[k]], e) ELSE 0])

\* The most a piece can render to.
bound(p, u) ==
  CASE p.key = "lit"       -> 1
    [] p.key = "device"    -> escLen(Device, esc(u))
    [] p.key = "meter"     -> IF u.topic THEN SMID_MAX ELSE 2 * SMID_MAX
    [] p.key = "ts"        -> TS_LEN
    [] p.key = "values"    -> 2 + listMax("json")
    [] p.key = "values_lp" -> listMax("lp")
    [] p.key = "i_name"    -> textMax(Name, esc(u))
    [] p.key = "i_unit"    -> textMax(Unit, esc(u))
    [] p.key \in {"i_value", "val"} -> NUM_MAX
    [] p.key = "unit"      -> escLen(Unit[p.arg], esc(u))

\* What is wrong with a piece where it stands, if anything.
fault(p, u) ==
  CASE p.key = "lit" /\ u.topic /\ p.arg = "wild"          -> "tpl_topic"
    [] p.key \in Lists /\ (u.each \/ u.topic)              -> "tpl_context"
    [] p.key \in Item /\ ~u.each                           -> "tpl_context"
    [] p.key \in Reading /\ p.arg \notin ToSet(Reg)        -> "tpl_unknown"
    [] p.key = "val" /\ p.arg \in IsText            -> "tpl_unknown"
    [] OTHER                                               -> "none"

\* Neighbouring characters share a token.
Tokens(ps) == Cardinality({i \in DOMAIN ps : ps[i].key # "lit" \/ i = 1 \/ ps[i - 1].key # "lit"})

worst(ps, u) == Total([i \in DOMAIN ps |-> bound(ps[i], u)])

Verdict(code, pos) == [code |-> code, pos |-> pos]

compile(ps, u) ==
  LET bad == {i \in DOMAIN ps : \/ fault(ps[i], u) # "none"
                                \/ Tokens(SubSeq(ps, 1, i)) > MAX_TOKENS}
      i   == CHOOSE k \in bad : \A m \in bad : k <= m
  IN IF Len(ps) > TPL_MAX THEN Verdict("tpl_too_long", Len(ps))
     ELSE IF ps = <<>> THEN Verdict("tpl_empty", 0)
     ELSE IF bad # {} THEN IF fault(ps[i], u) # "none" THEN Verdict(fault(ps[i], u), i)
                           ELSE Verdict("tpl_too_long", i)
     ELSE IF u.topic /\ u.each /\ "i_name" \notin {ps[k].key : k \in DOMAIN ps}
          THEN Verdict("tpl_topic", 0)
     ELSE IF worst(ps, u) + 1 > BUF THEN Verdict("tpl_overflow", 0)
     ELSE Verdict("ok", 0)

\* compileFixed: the status and availability topics.
compileFixed(ps) ==
  LET c   == compile(ps, [topic |-> TRUE, each |-> FALSE])
      bad == {i \in DOMAIN ps : ps[i].key \notin {"lit", "device"}}
  IN IF c.code # "ok" THEN c
     ELSE IF bad # {} THEN Verdict("tpl_context", CHOOSE k \in bad : \A m \in bad : k <= m)
     ELSE c

-----------------------------------------------------------------------------
(* render *)

\* escStr: special characters are replaced in a topic and preceded by a backslash elsewhere.
escStr(text, e) ==
  Joined([i \in DOMAIN text |->
    IF text[i] \notin Special[e] THEN <<text[i]>>
    ELSE IF e = "topic" THEN <<"under">> ELSE <<"back", text[i]>>])

\* A number takes up to NUM_MAX characters, or is null.
num(r, s) == IF s.wide THEN [i \in 1..NUM_MAX |-> "x"] ELSE <<"x">>

itemOk(r, s) == r \in s.have /\ r \in Numeric

Pair(r, s, e) == (IF e = "json" THEN <<"quote">> \o escStr(Name[r], e) \o <<"quote", "x">>
                  ELSE escStr(Name[r], e) \o <<"x">>) \o num(r, s)

pairs(s, e) ==
  LET comma(k) == IF \E j \in 1..k - 1 : itemOk(Reg[j], s) THEN <<"comma">> ELSE <<>>
  IN Joined([k \in DOMAIN Reg |-> IF itemOk(Reg[k], s) THEN comma(k) \o Pair(Reg[k], s, e) ELSE <<>>])

rendered(p, u, s, item) ==
  CASE p.key = "lit"       -> <<p.arg>>
    [] p.key = "device"    -> escStr(Device, esc(u))
    [] p.key = "meter"     -> escStr(s.smid, esc(u))
    [] p.key = "ts"        -> [i \in 1..TS_LEN |-> "x"]
    [] p.key = "values"    -> <<"x">> \o pairs(s, "json") \o <<"x">>
    [] p.key = "values_lp" -> pairs(s, "lp")
    [] p.key = "i_name"    -> escStr(Name[item], esc(u))
    [] p.key = "i_unit"    -> escStr(Unit[item], esc(u))
    [] p.key = "i_value"   -> num(item, s)
    [] p.key = "val"       -> IF p.arg \in s.have THEN num(p.arg, s) ELSE <<"x">>
    [] p.key = "unit"      -> escStr(Unit[p.arg], esc(u))

render(ps, u, s, item) == Joined([i \in DOMAIN ps |-> rendered(ps[i], u, s, item)])

-----------------------------------------------------------------------------
(* Properties *)

\* The registers a message is rendered for; without a register of its own, any will do.
Items == IF use.each THEN {r \in ToSet(Reg) : itemOk(r, snap)} ELSE {Reg[1]}
Compiles == compile(tpl, use).code = "ok"

\* mqtt-template.js:67 and :124: whatever the meter sends, an accepted template renders
\* into its buffer with the end of the text.
FitsBuffer ==
  Compiles => \A r \in Items : Len(render(tpl, use, snap, r)) < BUF

\* A topic never holds a wildcard, be it from the template, the device or the meter.
TopicClean ==
  Compiles /\ use.topic => \A r \in Items : "wild" \notin ToSet(render(tpl, use, snap, r))

\* mqtt-template.js:128: the topic of status and availability is the same whatever the
\* meter sends; a will given to the broker for it stays the right one.
FixedTopic ==
  compileFixed(tpl).code = "ok" =>
    LET u == [topic |-> TRUE, each |-> FALSE]
        any == [have |-> {}, wide |-> FALSE, smid |-> <<>>]
    IN render(tpl, u, snap, Reg[1]) = render(tpl, u, any, Reg[1])
=============================================================================

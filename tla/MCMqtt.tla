------------------------------- MODULE MCMqtt -------------------------------
(***************************************************************************)
(* Model-checking instances of MqttClient, which publishes, and            *)
(* MqttTemplate, which makes the messages.  They do not interact in one    *)
(* state: focus says which one a behaviour is about; the other stays in an *)
(* initial state.                                                          *)
(***************************************************************************)
EXTENDS MqttClient, MqttTemplate

CONSTANTS topic, first, second

VARIABLE focus

\* MqttClient: one availability topic or none, two client identifiers.
On == [enabled |-> TRUE, topic |-> topic, id |-> first, tpl |-> "any"]
MCOffered == {On, [On EXCEPT !.id = second, !.tpl = "named"],
              [On EXCEPT !.topic = NoTopic], [On EXCEPT !.enabled = FALSE]}

\* MqttTemplate: a register whose name has to be escaped in every context and one that
\* is a text, a device and a meter with a wildcard in their names, pieces of each kind.
MCReg    == <<"Pi", "Id">>
MCText   == {"Id"}
MCName   == [Pi |-> <<"comma", "quote", "quote">>, Id |-> <<"x", "x", "x">>]
MCUnit   == [Pi |-> <<"quote">>, Id |-> <<>>]
MCDevice == <<"x", "wild">>
MCMeters == {<<>>, <<"wild", "quote">>}
Piece(k, a) == [key |-> k, arg |-> a]
MCPieces == {Piece("lit", "x"), Piece("lit", "wild"), Piece("val", "Pi"), Piece("val", "Id"),
             Piece("unit", "Pi"), Piece("unit", "no")}
            \cup {Piece(k, "") : k \in Fixed \cup Lists \cup Item}

-----------------------------------------------------------------------------
PublishInit ==
  /\ focus \in {"client", "template"}
  /\ MqInit /\ (focus # "client" => nvs = On)
  /\ MtInit /\ (focus # "template" => use = [topic |-> FALSE, each |-> FALSE])

PublishNext ==
  /\ \/ focus = "client" /\ MqNext /\ UNCHANGED mtVars
     \/ focus = "template" /\ MtNext /\ UNCHANGED mqVars
  /\ UNCHANGED focus

PublishSpec == PublishInit /\ [][PublishNext]_<<focus, mqVars, mtVars>>

-----------------------------------------------------------------------------
(* Properties: those of the modules, grouped by the question they answer.  *)

\* mqtt-template.js: an accepted template renders into its buffer, whatever the meter
\* sends; no topic it makes holds a wildcard, and those of status and availability do not
\* depend on the meter.
TemplateSafe == focus = "template" => FitsBuffer /\ TopicClean /\ FixedTopic
=============================================================================

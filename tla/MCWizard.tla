------------------------------ MODULE MCWizard ------------------------------
(* Wizard for model checking: a line that may be ciphered, its profile and one *)
(* for the plain line, and one of another variant.                             *)
EXTENDS Wizard

Profile(i, v, p, e) == [id |-> i, variant |-> v, protocol |-> p, enc |-> e]
MCPreset == {Profile(1, "M", "dlms", TRUE), Profile(2, "M", "dlms", FALSE),
             Profile(3, "P", "dsmr", FALSE)}
MCLines  == {[protocol |-> "dlms", enc |-> "ciphered"], [protocol |-> "dlms", enc |-> "plain"]}
=============================================================================

---------------------------- MODULE MCReactorLife ----------------------------
(* Two engines, the second of which needs the first, and a plugin that      *)
(* needs the second.                                                        *)
EXTENDS ReactorLife
CONSTANTS e1, e2, p1
MCOrder == <<e1, e2>>
MCNeeds == [k \in Task |-> CASE k = e1 -> {} [] k = e2 -> {e1} [] OTHER -> {e2}]
=============================================================================

---------------------------- MODULE MCSupervision ----------------------------
(* Supervision over four configurations of the product's resource graph.   *)
EXTENDS Supervision

C == INSTANCE Composition

(* The native product; the null backends with every source optional; one   *)
(* whose voice source has lost its worker; the smallest legal one.         *)
Product ==
    [real |-> TRUE, listen |-> "required", read |-> "optional", look |-> "off",
     speak |-> "required", button |-> "required", message |-> "optional", wake |-> "off"]
Loose ==
    [real |-> FALSE, listen |-> "optional", read |-> "optional", look |-> "optional",
     speak |-> "optional", button |-> "optional", message |-> "optional", wake |-> "optional"]
Deaf == [Loose EXCEPT !.real = TRUE, !.read = "off", !.look = "off", !.message = "optional"]
Least == [Product EXCEPT !.read = "off", !.speak = "off", !.message = "off"]
Configs == {Product, Loose, Deaf, Least}

ASSUME WellFormed == \A config \in Configs : C!Preflight(C!Graph(config))

MCPlans == {C!Plan(config) : config \in Configs}
===============================================================================

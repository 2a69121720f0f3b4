-------------------------- MODULE MCOrderWorkflow --------------------------
(* Instances of OrderWorkflow for TLC. *)
EXTENDS OrderWorkflow, TLC

CONSTANTS c1, c2, k1, k2, cfo, clerk

OneEach == k1 :> c1 @@ k2 :> c2
BothOfOne == k1 :> c1 @@ k2 :> c1

(* Gate: two customers, with and without an SN and a rationale. *)
GateHeaders == [customer : {c1, c2}, type : {"NEW_ORDER"}, reason : BOOLEAN, sn : BOOLEAN]

Sound == [arr |-> TRUE, mrr |-> 5, margin |-> 2, explained |-> FALSE, coded |-> TRUE]
Loss == [arr |-> FALSE, mrr |-> 0, margin |-> -3, explained |-> TRUE, coded |-> TRUE]
Uncoded == [arr |-> FALSE, mrr |-> 0, margin |-> 1, explained |-> FALSE, coded |-> FALSE]

GateContents == {Sound, Loss, Uncoded}

(* ARR: one customer, every kind of order, two amounts and a free line. *)
ArrHeaders == [customer : {c1}, type : {"NEW_ORDER", "CHURN", "RENEWAL", "LAST_ORDER"},
               reason : {FALSE}, sn : {TRUE}]

ArrContent(m) == [arr |-> TRUE, mrr |-> m, margin |-> 1, explained |-> FALSE, coded |-> TRUE]
OneOff == [arr |-> FALSE, mrr |-> 0, margin |-> 1, explained |-> FALSE, coded |-> TRUE]

ArrContents == {ArrContent(0), ArrContent(5), OneOff}

(* A bound of the ARR run: the gate is the other run's subject, so here no *)
(* check is raised and nothing outside the order blocks it.                *)
GateOpen == \A o \in Order : Exists(o) => backing[o] /\ checks[o]["margin_approval"] = None

=============================================================================

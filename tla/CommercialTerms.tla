-------------------------- MODULE CommercialTerms --------------------------
(***************************************************************************)
(* What the order workflow promises about commercial content, with nothing *)
(* said about statuses, gates or triggers: terms are drafted, become       *)
(* binding as they stand, and can only be changed again after they have    *)
(* been released.  OrderWorkflow is shown to implement this specification. *)
(***************************************************************************)

CONSTANTS
    Order,   \* the orders that may be opened
    Terms,   \* the commercial terms an order may have
    NoTerms  \* the terms of an order not yet opened

VARIABLES
    phase,   \* "none", "draft", "binding" or "void"
    terms

vars == <<phase, terms>>

Init ==
    /\ phase = [o \in Order |-> "none"]
    /\ terms = [o \in Order |-> NoTerms]

Open(o, t) ==
    /\ phase[o] = "none"
    /\ phase' = [phase EXCEPT ![o] = "draft"]
    /\ terms' = [terms EXCEPT ![o] = t]

Amend(o, t) ==
    /\ phase[o] = "draft"
    /\ terms' = [terms EXCEPT ![o] = t]
    /\ UNCHANGED phase

Bind(o) ==
    /\ phase[o] = "draft"
    /\ phase' = [phase EXCEPT ![o] = "binding"]
    /\ UNCHANGED terms

(* Binding terms go back to a draft before anything in them changes. *)
Release(o) ==
    /\ phase[o] = "binding"
    /\ phase' = [phase EXCEPT ![o] = "draft"]
    /\ UNCHANGED terms

(* Nothing ever changes again. *)
Void(o) ==
    /\ phase[o] \in {"draft", "binding"}
    /\ phase' = [phase EXCEPT ![o] = "void"]
    /\ UNCHANGED terms

Next ==
    \E o \in Order :
        \/ \E t \in Terms : Open(o, t) \/ Amend(o, t)
        \/ Bind(o)
        \/ Release(o)
        \/ Void(o)

Spec == Init /\ [][Next]_vars

=============================================================================

----------------------------- MODULE Submission -----------------------------
(***************************************************************************)
(* An order submission: when the models accept it (models.py), which       *)
(* master data it refers to, which documents and quotes it brings along    *)
(* and which checks it raises (checks.py).  Operators only; the state is   *)
(* in module Intake.                                                       *)
(*                                                                         *)
(* A submission is a record; documents, quotes and lines are sequences of  *)
(* documents (sha256), of [supplier, reference, document] and of           *)
(*   [sku, supplier, quote, frequency, periods, quantity, cost, sell,      *)
(*    currency, fx, arr]                                                   *)
(* where what is not given is None.  Amounts are whole and in the currency *)
(* of the order; rounding is left out.                                     *)
(***************************************************************************)
EXTENDS Integers, Sequences, SequencesExt

CONSTANTS
    CspSkus,          \* SKUs that start with CFQ7
    CannotOrder,      \* suppliers without an account that can order
    DirectDebitDays,  \* <<customer, day>> on which the terms in force say direct debit
    None              \* Python None

-----------------------------------------------------------------------------
(* Validation, before anything touches the database. *)

(* OrderLineIn *)
ValidLine(l) ==
    /\ l.quantity > 0 /\ l.periods > 0
    /\ l.cost >= 0 /\ l.sell >= 0
    /\ l.frequency = "one_off" => l.periods = 1

(* OrderSubmissionIn *)
ValidSubmission(sub) ==
    /\ sub.sequence > 0
    /\ sub.lines # <<>>
    /\ \A l \in Range(sub.lines) :
        /\ ValidLine(l)
        /\ l.quote # None =>
              \E q \in Range(sub.quotes) : q.supplier = l.supplier /\ q.reference = l.quote
        /\ l.currency = sub.currency <=> l.fx = None

-----------------------------------------------------------------------------
(* Master data is never created from an order: what a submission names     *)
(* must be there (_customer_id, _employee_id, _supplier_id, ...).          *)

If(kind, key) == IF key = None THEN {} ELSE {<<kind, key>>}

(* What is looked up before anything but the email is written: a tenant    *)
(* only counts when it is this customer's.                                 *)
HeaderReferences(sub) ==
    {<<"customer", sub.customer>>, <<"employee", sub.submitter>>}
    \union If("employee", sub.manager)
    \union If("employee", sub.covering)
    \union If("price list", sub.priceList)
    \union (IF sub.tenant = None THEN {} ELSE {<<"tenant", <<sub.customer, sub.tenant>>>>})

(* _insert_line: an SKU without a product is no error.                     *)
LineReferences(sub) ==
    UNION {{<<"supplier", l.supplier>>}
           \union (IF l.fx = None THEN {} ELSE {<<"fx rate", <<l.currency, sub.currency, l.fx>>>>})
           \union If("arr ref", l.arr) : l \in Range(sub.lines)}

(* What several submissions may bring along, under the key that is unique. *)
DocumentKey(d) == <<"document", d>>
QuoteKey(q) == <<"quote", <<q.supplier, q.reference>>>>

(* Inserted one after the other, documents first.  A quote needs its       *)
(* supplier and the document it names to be there already.                 *)
Attachments(sub) ==
    [i \in DOMAIN sub.documents |-> [key |-> DocumentKey(sub.documents[i]), needs |-> {}]]
    \o [i \in DOMAIN sub.quotes |->
          LET q == sub.quotes[i] IN
          [key |-> QuoteKey(q),
           needs |-> {<<"supplier", q.supplier>>} \union If("document", q.document)]]

-----------------------------------------------------------------------------
(* Amounts, as the generated columns of the line have them. *)

Total(numbers) == FoldLeft(LAMBDA sum, n : sum + n, 0, numbers)

NetSell(sub) == Total([i \in DOMAIN sub.lines |->
    sub.lines[i].quantity * sub.lines[i].periods * sub.lines[i].sell])

LineMargin(l) == l.quantity * l.periods * (l.sell - l.cost)

OrderMargin(sub) == Total([i \in DOMAIN sub.lines |-> LineMargin(sub.lines[i])])

-----------------------------------------------------------------------------
(* required_checks: the seven rules, each with the checks it asks for, and *)
(* what the submitter asks for.                                            *)

SignedOrder == {"signed_order_verified"}

CreditTerms == {"credit_terms_confirmed"}

CustomerPo(sub) == IF sub.po = None THEN {} ELSE {"customer_po_received"}

Gdap(sub) ==
    IF sub.tenant # None \/ \E l \in Range(sub.lines) : l.sku \in CspSkus
    THEN {"gdap_relationship"} ELSE {}

DirectDebit(sub) ==
    IF /\ <<sub.customer, sub.received>> \in DirectDebitDays
       /\ \E l \in Range(sub.lines) : l.frequency # "one_off"
    THEN {"direct_debit_mandate"} ELSE {}

SupplierAccount(sub) ==
    IF \E l \in Range(sub.lines) : l.supplier \in CannotOrder
    THEN {"supplier_account_set_up"} ELSE {}

Loss(sub) ==
    IF OrderMargin(sub) < 0 \/ \E l \in Range(sub.lines) : LineMargin(l) < 0
    THEN {"margin_approval"} ELSE {}

RequiredChecks(sub) ==
    SignedOrder \union CreditTerms \union CustomerPo(sub) \union Gdap(sub)
    \union DirectDebit(sub) \union SupplierAccount(sub) \union Loss(sub) \union sub.asked

=============================================================================

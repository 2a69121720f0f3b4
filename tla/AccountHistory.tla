--------------------------- MODULE AccountHistory ---------------------------
(***************************************************************************)
(* The history of ownership built from the Register                        *)
(* (build_account_history), beside the routines of module Ownership.  For  *)
(* every customer without a period, the build reads the Register rows of   *)
(* the customer, oldest first, and lets the account pass whenever another  *)
(* salesperson is named; then every leaver's last day is applied, to all   *)
(* accounts.                                                               *)
(*                                                                         *)
(* customer.existed_before, which the build also sets, is read by the      *)
(* warnings about NN/E only and left out with them.                        *)
(***************************************************************************)
EXTENDS Ownership, FiniteSetsExt, SequencesExt

CONSTANTS
    Registers,  \* what the Register may hold of a customer: rows by date and SN
    Unmapped    \* a salesperson's label that stands for no owner

(* The owner a row's label stands for, None for a row without salesperson. *)
RegisterRow == [label : Owner \union {Unmapped, None}, day : Day]

ASSUME HistoryAssumption ==
    /\ IsFiniteSet(Employee)
    /\ Unmapped \notin Owner \union {None}
    /\ \A rows \in Registers :
        /\ rows \in Seq(RegisterRow)
        /\ \A i, j \in DOMAIN rows : i < j => rows[i].day <= rows[j].day

-----------------------------------------------------------------------------
(* The rows of one customer. *)

(* register_rows_for_customer: a row after a salesperson's last day counts *)
(* as House's.                                                             *)
OwnerIn(row) ==
    IF row.label \in Employee /\ ~Active(row.label) /\ row.day > left[row.label]
    THEN House ELSE row.label

IsNamed(row) == OwnerIn(row) \in Employee

Buildable(rows) == \A i \in DOMAIN rows : rows[i].label # Unmapped

(* What the loop has so far: the owners and first days of the periods, the *)
(* day of the last row with a salesperson's name, and the days to review.  *)
Start == [starts |-> <<>>, named |-> None, clashes |-> {}]

(* Mutant: every other owner takes over, central renewals included. *)
AnyoneTakesOver(h, row) == OwnerIn(row) # Last(h.starts).owner

TakesOver(h, row) == IsNamed(row) /\ OwnerIn(row) # Last(h.starts).owner

(* An account that passes twice on a day does not have a period in between.*)
NextStarts(h, row) ==
    LET start == [owner |-> OwnerIn(row), from |-> row.day] IN
    IF h.starts = <<>> THEN <<start>>
    ELSE IF ~TakesOver(h, row) THEN h.starts
    ELSE IF Last(h.starts).from = row.day THEN Append(Front(h.starts), start)
    ELSE Append(h.starts, start)

(* The loop skips rows without salesperson. *)
ReadRow(h, row) ==
    IF row.label = None THEN h
    ELSE [starts |-> NextStarts(h, row),
          named |-> IF IsNamed(row) THEN row.day ELSE h.named,
          clashes |-> IF h.starts # <<>> /\ TakesOver(h, row) /\ h.named = row.day
                      THEN h.clashes \union {row.day} ELSE h.clashes]

History(rows) == FoldLeft(ReadRow, Start, rows)

PeriodsFrom(c, starts) ==
    {[customer |-> c, owner |-> starts[i].owner, from |-> starts[i].from,
      to |-> IF i < Len(starts) THEN starts[i + 1].from - 1 ELSE Forever] : i \in DOMAIN starts}

-----------------------------------------------------------------------------
(* build_account_history. *)

Unfilled == {c \in Customer : \A p \in periods : p.customer # c}

Built(rows) ==
    LET built == {c \in Unfilled : Buildable(rows[c])} IN
    [periods |-> periods \union UNION {PeriodsFrom(c, History(rows[c]).starts) : c \in built},
     review |-> review \union UNION {{c} \X History(rows[c]).clashes : c \in built}]

ApplyLeaver(db, e) ==
    [periods |-> Vacated(db.periods, e, left[e]),
     review |-> db.review \union Lost(db.periods, e, left[e])]

(* The leavers come in no particular order. *)
Outcomes(rows) ==
    {FoldLeft(ApplyLeaver, Built(rows), leavers) :
        leavers \in SetToSeqs({e \in Employee : ~Active(e)})}

BuildAccountHistory(rows) ==
    /\ \E db \in Outcomes(rows) : periods' = db.periods /\ review' = db.review
    /\ UNCHANGED <<left, absences>>

HistoryNext ==
    \/ Next
    \/ \E rows \in [Unfilled -> Registers] : BuildAccountHistory(rows)

HistorySpec == Init /\ [][HistoryNext]_vars

-----------------------------------------------------------------------------
(* Properties. *)

(* The owner on day d as the Register has it: the salesperson named last   *)
(* by then, while still here; House after that; and before anybody was     *)
(* named, the label of the first row.                                      *)
RegisterOwner(rows, d) ==
    LET byThen == {i \in DOMAIN rows : rows[i].label # None /\ rows[i].day <= d}
        named == {i \in byThen : IsNamed(rows[i])}
        owner == IF named = {} THEN OwnerIn(rows[Min(byThen)]) ELSE rows[Max(named)].label
    IN IF byThen = {} THEN None ELSE OwnerIn([label |-> owner, day |-> d])

(* ADR 0003: ownership changes only when a different named salesperson     *)
(* appears on an order; House-labelled orders never end a salesperson's    *)
(* ownership, and no leaver owns a day after the last.  So whenever the    *)
(* history is built, and in whatever order the leavers are applied, an     *)
(* account that had none has on each day the owner the Register names; an  *)
(* account with a label that stands for nobody gets none.                  *)
HistoryFollowsRegister ==
    \A rows \in [Unfilled -> Registers] : \A db \in Outcomes(rows) :
        \A c \in Unfilled, d \in Day :
            {p.owner : p \in {q \in db.periods : q.customer = c /\ Covers(q, d)}} =
                IF Buildable(rows[c]) THEN {RegisterOwner(rows[c], d)} \ {None} ELSE {}

=============================================================================

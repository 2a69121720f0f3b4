---------------------------- MODULE MCOwnership ----------------------------
(* Instances of Ownership and AccountHistory for TLC. *)
EXTENDS AccountHistory

CONSTANTS a1, e1, e2, Legacy

(* A file may hold any period; e1 may be on holiday on the second day.     *)
AnyPeriod == Period
Holiday == {[employee |-> e1, from |-> 2, to |-> 2]}

(* Up to three rows, each of a salesperson or House; one row without a     *)
(* salesperson before others, and a label nobody has mapped yet.           *)
Sorted(rows) == \A i, j \in DOMAIN rows : i < j => rows[i].day <= rows[j].day

AnyRegister ==
    {rows \in BoundedSeq([label : {e1, e2, House}, day : Day], 3) : Sorted(rows)}
    \union {<<[label |-> None, day |-> 1], [label |-> e1, day |-> 2]>>,
            <<[label |-> e1, day |-> 1], [label |-> Unmapped, day |-> 2]>>}

NoRegister == {}

=============================================================================

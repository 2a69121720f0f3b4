----------------------------- MODULE Ownership -----------------------------
(***************************************************************************)
(* Who owns a customer's account on which day: the allocation periods, and *)
(* the routines that write them (an approved order, the allocation         *)
(* routine, a change seen in Xero, a leaver, the master-data file).  Each  *)
(* action is one transaction.  The wording and the kind of the rows of     *)
(* account_history_review are left out, not the fact that one is written.  *)
(*                                                                         *)
(* The table's EXCLUDE constraint is a guard of the loader only.  That no  *)
(* routine runs into it, and that none fails an approval because of it, is *)
(* the invariant OneOwnerAtATime.                                          *)
(***************************************************************************)
EXTENDS Integers

CONSTANTS
    Customer,
    Employee,
    HouseAccount,  \* rows of house_account_type
    House,         \* the house account leavers' accounts go to
    MaxDay,        \* bound: the calendar is 1..MaxDay
    Filed,         \* the periods a master-data file may hold
    Absence,       \* the absences that may be recorded
    None           \* SQL NULL

Day == 1 .. MaxDay

(* allocated_to IS NULL: the end of a period later than every day. *)
Forever == MaxDay + 1

Owner == Employee \union HouseAccount
Period == {p \in [customer : Customer, owner : Owner, from : Day, to : 1 .. Forever] :
              p.from <= p.to}

ASSUME OwnerAssumption ==
    /\ House \in HouseAccount
    /\ Employee \intersect HouseAccount = {}
    /\ None \notin Owner \union (0 .. MaxDay)
    /\ MaxDay \in Nat
    /\ Filed \subseteq Period
    /\ Absence \subseteq [employee : Employee, from : Day, to : Day]

VARIABLES
    periods,   \* customer_account_allocation
    left,      \* employee.left_on; an employee is active until it is set
    absences,  \* employee_absence
    review     \* customer and day of the rows of account_history_review

vars == <<periods, left, absences, review>>

TypeOK ==
    /\ periods \subseteq Period
    /\ left \in [Employee -> Day \union {None}]
    /\ absences \subseteq Absence
    /\ review \subseteq Customer \X Day

Init ==
    /\ periods = {}
    /\ left = [e \in Employee |-> None]
    /\ absences = {}
    /\ review = {}

-----------------------------------------------------------------------------
(* Reading the periods. *)

Active(e) == left[e] = None

Covers(p, d) == p.from <= d /\ d <= p.to

(* account_allocation_on: the period in force, as a set of at most one.    *)
AllocationOn(c, d) == {p \in periods : p.customer = c /\ Covers(p, d)}

ChangesAfter(c, d) == \E p \in periods : p.customer = c /\ p.from > d

Absent(e, d) == \E a \in absences : a.employee = e /\ Covers(a, d)

(* order_cover_for: the order names whom it covers for, or the owner is    *)
(* away and somebody else led it.                                          *)
IsCover(c, e, d, cover) ==
    \/ cover # None
    \/ \E p \in AllocationOn(c, d) : p.owner \in Employee \ {e} /\ Absent(p.owner, d)

-----------------------------------------------------------------------------
(* The account passes to w from day d on: the period in force is closed    *)
(* the day before, or changes hands when it starts on the very day.        *)

(* Mutant: the account passes the day after. *)
PassedToNextDay(c, w, d) ==
    LET old == AllocationOn(c, d) IN
    (periods \ old) \union {[p EXCEPT !.to = d] : p \in old}
    \union {[customer |-> c, owner |-> w, from |-> d + 1, to |-> Forever]}

PassedTo(c, w, d) ==
    LET old == AllocationOn(c, d) IN
    IF \E p \in old : p.from = d
    THEN (periods \ old) \union {[p EXCEPT !.owner = w] : p \in old}
    ELSE (periods \ old) \union {[p EXCEPT !.to = d - 1] : p \in old}
         \union {[customer |-> c, owner |-> w, from |-> d, to |-> Forever]}

(* Mutant: nothing is logged. *)
Unlogged(c, d) == UNCHANGED review

Log(c, d) == review' = review \union {<<c, d>>}

(* Both routines that pass an account refuse to rewrite a later change and *)
(* log that they did; they log a same-day replacement, too.                *)
PassAccount(c, w, d) ==
    \/ /\ ChangesAfter(c, d)
       /\ Log(c, d)
       /\ UNCHANGED periods
    \/ /\ ~ChangesAfter(c, d)
       /\ \E p \in AllocationOn(c, d) : p.owner = w
       /\ UNCHANGED <<periods, review>>
    \/ /\ ~ChangesAfter(c, d)
       /\ \A p \in AllocationOn(c, d) : p.owner # w
       /\ periods' = PassedTo(c, w, d)
       /\ IF \E p \in AllocationOn(c, d) : p.from = d THEN Log(c, d) ELSE UNCHANGED review

(* take_account_for_order, when an order of c dated d and led by e is      *)
(* approved; cover is the employee it names as covered for, if any.        *)
TakeAccountForOrder(c, e, d, cover) ==
    /\ UNCHANGED <<left, absences>>
    /\ \/ IsCover(c, e, d, cover) /\ UNCHANGED <<periods, review>>
       \/ ~IsCover(c, e, d, cover) /\ ~Active(e) /\ Log(c, d) /\ UNCHANGED periods
       \/ ~IsCover(c, e, d, cover) /\ Active(e) /\ PassAccount(c, e, d)

(* set_account_owner, which apply_xero_owners calls for each change. *)
SetAccountOwner(c, w, d) ==
    /\ w \in Employee => Active(w)
    /\ PassAccount(c, w, d)
    /\ UNCHANGED <<left, absences>>

(* allocate_account *)
AllocateAccount(c, e, d) ==
    /\ Active(e)
    /\ \A p \in periods : p.customer = c => p.from < d
    /\ periods' = PassedTo(c, e, d)
    /\ UNCHANGED <<left, absences, review>>

-----------------------------------------------------------------------------
(* employee_leaves and apply_leaver, which rewrites a set of periods.      *)

(* The periods that start after the last day, and those that run past it.  *)
Late(ps, e, last) == {p \in ps : p.owner = e /\ p.from > last}

(* Mutant: a period that ends on the last day is taken to run past it. *)
EndingOn(ps, e, last) == {p \in ps : p.owner = e /\ p.from <= last /\ p.to >= last}

Running(ps, e, last) == {p \in ps : p.owner = e /\ p.from <= last /\ p.to > last}

(* A late period goes to the person before it; the periods are visited in  *)
(* order, so through late periods that follow each other it is the person  *)
(* before the first of them.                                               *)
PersonBefore(ps, e, last, p) ==
    {q.owner : q \in {r \in ps :
        /\ r.customer = p.customer
        /\ r.owner \in Employee \ {e}
        /\ r.to < p.from
        /\ \A d \in r.to + 1 .. p.from - 1 :
              \E l \in Late(ps, e, last) : l.customer = p.customer /\ Covers(l, d)}}

Heir(ps, e, last, p) ==
    IF PersonBefore(ps, e, last, p) = {} THEN House
    ELSE CHOOSE w \in PersonBefore(ps, e, last, p) : TRUE

(* Mutant: 0008's House period, which has no end. *)
HouseForever(ps, e, last) ==
    (ps \ (Late(ps, e, last) \union Running(ps, e, last)))
    \union {[p EXCEPT !.owner = Heir(ps, e, last, p)] : p \in Late(ps, e, last)}
    \union {[p EXCEPT !.to = last] : p \in Running(ps, e, last)}
    \union {[p EXCEPT !.owner = House, !.from = last + 1, !.to = Forever] : p \in Running(ps, e, last)}

(* Mutant: periods that start after the last day are not looked at. *)
RunningOnly(ps, e, last) ==
    (ps \ Running(ps, e, last))
    \union {[p EXCEPT !.to = last] : p \in Running(ps, e, last)}
    \union {[p EXCEPT !.owner = House, !.from = last + 1] : p \in Running(ps, e, last)}

Vacated(ps, e, last) ==
    (ps \ (Late(ps, e, last) \union Running(ps, e, last)))
    \union {[p EXCEPT !.owner = Heir(ps, e, last, p)] : p \in Late(ps, e, last)}
    \union {[p EXCEPT !.to = last] : p \in Running(ps, e, last)}
    \union {[p EXCEPT !.owner = House, !.from = last + 1] : p \in Running(ps, e, last)}

(* The starts that are logged because their periods change hands. *)
Lost(ps, e, last) == {<<p.customer, p.from>> : p \in Late(ps, e, last)}

(* last < MaxDay, so that the day after it is on the calendar. *)
EmployeeLeaves(e, last) ==
    /\ last < MaxDay
    /\ left[e] \in {None, last}
    /\ left' = [left EXCEPT ![e] = last]
    /\ periods' = Vacated(periods, e, last)
    /\ review' = review \union Lost(periods, e, last)
    /\ UNCHANGED absences

-----------------------------------------------------------------------------
(* _load_account_allocation: a customer's start day that is there already  *)
(* is skipped; nobody asks whether the owner is still here.                *)
LoadAccountAllocation(p) ==
    /\ \A q \in periods : q.customer = p.customer => q.to < p.from \/ p.to < q.from
    /\ periods' = periods \union {p}
    /\ UNCHANGED <<left, absences, review>>

(* record_absence *)
RecordAbsence(a) ==
    /\ \A b \in absences : b.employee = a.employee => b.to < a.from \/ a.to < b.from
    /\ absences' = absences \union {a}
    /\ UNCHANGED <<periods, left, review>>

Next ==
    \/ \E c \in Customer, e \in Employee, d \in Day :
          \/ \E cover \in (Employee \ {e}) \union {None} : TakeAccountForOrder(c, e, d, cover)
          \/ AllocateAccount(c, e, d)
    \/ \E c \in Customer, w \in Owner, d \in Day : SetAccountOwner(c, w, d)
    \/ \E e \in Employee, d \in Day : EmployeeLeaves(e, d)
    \/ \E p \in Filed : LoadAccountAllocation(p)
    \/ \E a \in Absence : RecordAbsence(a)

Spec == Init /\ [][Next]_vars

-----------------------------------------------------------------------------
(* Properties. *)

(* An account has one owner at a time, whatever the order in which orders  *)
(* are approved, accounts handed over and leavers recorded: no routine     *)
(* ever runs into the EXCLUDE constraint of the table.                     *)
OneOwnerAtATime ==
    \A p, q \in periods : p.customer = q.customer /\ p # q => p.to < q.from \/ q.to < p.from

(* ADR 0003: on approval the account passes to the order's salesperson,    *)
(* except for cover; a back-dated order and a leaver's order are "logged   *)
(* to account_history_review instead".                                     *)
AccountPassesOrIsLogged ==
    [][\A c \in Customer, e \in Employee, d \in Day :
          TakeAccountForOrder(c, e, d, None) =>
              \/ \E p \in AllocationOn(c, d)' : p.owner = e
              \/ \E p \in AllocationOn(c, d) : p.owner \in Employee /\ Absent(p.owner, d)
              \/ <<c, d>> \in review']_vars

(* NN/E is judged by the day a salesperson first took the account, and "a  *)
(* returning salesperson keeps their original start" (ADR 0003).  No       *)
(* routine makes anybody's ownership start later, or forgets it, unless    *)
(* that is logged.                                                         *)
StartsKept ==
    [][\A p \in periods :
          \/ \E q \in periods' : /\ q.customer = p.customer /\ q.owner = p.owner
                                 /\ q.from <= p.from
          \/ <<p.customer, p.from>> \in review']_vars

(* 0013: accounts cannot pass to an employee after the last working day.   *)
(* It does not hold of the code: apply_leaver gives a period back to the   *)
(* owner before it without asking whether that one has left.               *)
NoAccountAfterLeaving ==
    \A p \in periods : p.owner \in Employee /\ left[p.owner] # None => p.to <= left[p.owner]

-----------------------------------------------------------------------------
(* Refinement: the routines implement a timeline of owners. *)

OwnerOn(c, d) ==
    IF AllocationOn(c, d) = {} THEN None
    ELSE (CHOOSE p \in AllocationOn(c, d) : TRUE).owner

Timeline == INSTANCE AccountTimeline WITH
    Account <- Customer, Person <- Employee, Nobody <- None,
    owner <- [c \in Customer |-> [d \in Day |-> OwnerOn(c, d)]],
    last <- left

(* No routine leaves a day without owner that had one.  An order, a        *)
(* hand-over and a Xero sync change no day before the one they are about,  *)
(* go behind no later change and pass the account to nobody who has left.  *)
(* A leaver loses the days after the last one, and nobody else loses any;  *)
(* a file fills days that nobody had.  To whom a leaver's days pass, and   *)
(* whom a file names, is left open: both may be somebody who has left, as  *)
(* NoAccountAfterLeaving shows of the leavers.                             *)
ImplementsTimeline == Timeline!Spec

=============================================================================

-------------------------- MODULE Ownership_proofs --------------------------
(***************************************************************************)
(* Proofs about account ownership, for every number of customers,          *)
(* employees and days, every master-data file and every set of absences.   *)
(***************************************************************************)
EXTENDS Ownership, TLAPS

-----------------------------------------------------------------------------
(* Lemmas about the operators. *)

LEMMA PeriodFacts ==
    ASSUME NEW p \in Period
    PROVE  /\ p.customer \in Customer
           /\ p.owner \in Owner
           /\ p.from \in Day
           /\ p.to \in 1 .. Forever
           /\ p.from <= p.to
           /\ p.from \in Int /\ p.to \in Int
           /\ p = [customer |-> p.customer, owner |-> p.owner, from |-> p.from, to |-> p.to]
BY OwnerAssumption DEF Period, Day, Forever

(* Changing the owner, or shortening a period at either end, leaves a      *)
(* period.                                                                 *)
LEMMA PeriodUpdates ==
    ASSUME NEW p \in Period, NEW w \in Owner, NEW x \in Day
    PROVE  /\ [p EXCEPT !.owner = w] \in Period
           /\ p.from <= x => [p EXCEPT !.to = x] \in Period
           /\ x <= p.to => [p EXCEPT !.owner = w, !.from = x] \in Period
<1>1. x \in Int /\ x \in 1 .. Forever
  BY OwnerAssumption DEF Day, Forever
<1> QED
  BY <1>1, PeriodFacts DEF Period

(* What a routine writes when an account passes are periods.               *)
LEMMA PassedToType ==
    ASSUME TypeOK, NEW c \in Customer, NEW w \in Owner, NEW d \in Day
    PROVE  PassedTo(c, w, d) \subseteq Period
<1> DEFINE old == AllocationOn(c, d)
<1>1. ASSUME NEW p \in old
      PROVE  p \in Period /\ p.from <= d
  BY DEF AllocationOn, Covers, TypeOK
<1>2. [customer |-> c, owner |-> w, from |-> d, to |-> Forever] \in Period
  BY OwnerAssumption DEF Period, Day, Forever
<1>3. ASSUME NEW p \in old, p.from # d
      PROVE  [p EXCEPT !.to = d - 1] \in Period
  <2>1. p.from \in Int /\ d \in Int /\ p.from <= d - 1 /\ d - 1 \in Day
    BY <1>1, <1>3, PeriodFacts, OwnerAssumption DEF Day
  <2> QED
    BY <1>1, <2>1, PeriodUpdates, PeriodFacts
<1>4. ASSUME NEW p \in old
      PROVE  [p EXCEPT !.owner = w] \in Period
  BY <1>1, PeriodUpdates
<1> QED
  BY <1>2, <1>3, <1>4 DEF PassedTo, TypeOK

LEMMA HeirType ==
    ASSUME NEW Q, NEW e \in Employee, NEW last, NEW p
    PROVE  Heir(Q, e, last, p) \in Owner \ {e}
<1>1. PersonBefore(Q, e, last, p) \subseteq Employee \ {e}
  BY DEF PersonBefore
<1>2. House \in Owner \ {e}
  BY OwnerAssumption DEF Owner
<1> QED
  BY <1>1, <1>2 DEF Heir, Owner

(* What a leaver's routine makes of periods are periods.                   *)
LEMMA VacatedType ==
    ASSUME NEW Q \in SUBSET Period, NEW e \in Employee, NEW last \in Day, last < MaxDay
    PROVE  Vacated(Q, e, last) \in SUBSET Period
<1>1. last + 1 \in Day
  BY OwnerAssumption DEF Day
<1>2. ASSUME NEW p \in Late(Q, e, last)
      PROVE  [p EXCEPT !.owner = Heir(Q, e, last, p)] \in Period
  BY HeirType, PeriodUpdates DEF Late, Day
<1>3. ASSUME NEW p \in Running(Q, e, last)
      PROVE  /\ [p EXCEPT !.to = last] \in Period
             /\ [p EXCEPT !.owner = House, !.from = last + 1] \in Period
  <2>1. p \in Period /\ p.from <= last /\ p.to > last /\ p.to \in Int /\ last \in Int
    BY PeriodFacts DEF Running, Day
  <2>2. House \in Owner
    BY OwnerAssumption DEF Owner
  <2>3. last + 1 <= p.to
    BY <2>1
  <2> QED
    BY <1>1, <2>1, <2>2, <2>3, PeriodUpdates
<1> QED
  BY <1>2, <1>3 DEF Vacated

-----------------------------------------------------------------------------
(* Type correctness. *)

LEMMA PassAccountType ==
    ASSUME TypeOK, NEW c \in Customer, NEW w \in Owner, NEW d \in Day, PassAccount(c, w, d)
    PROVE  periods' \subseteq Period /\ review' \subseteq Customer \X Day
<1>1. PassedTo(c, w, d) \subseteq Period
  BY PassedToType
<1> QED
  BY <1>1 DEF PassAccount, Log, TypeOK

LEMMA NextType == TypeOK /\ [Next]_vars => TypeOK'
<1> SUFFICES ASSUME TypeOK, [Next]_vars
             PROVE  TypeOK'
  OBVIOUS
<1>1. ASSUME NEW c \in Customer, NEW e \in Employee, NEW d \in Day,
             NEW cover \in (Employee \ {e}) \union {None}, TakeAccountForOrder(c, e, d, cover)
      PROVE  TypeOK'
  <2>1. e \in Owner
    BY DEF Owner
  <2> QED
    BY <1>1, <2>1, PassAccountType DEF TakeAccountForOrder, Log, TypeOK
<1>2. ASSUME NEW c \in Customer, NEW e \in Employee, NEW d \in Day, AllocateAccount(c, e, d)
      PROVE  TypeOK'
  <2>1. e \in Owner
    BY DEF Owner
  <2> QED
    BY <1>2, <2>1, PassedToType DEF AllocateAccount, TypeOK
<1>3. ASSUME NEW c \in Customer, NEW w \in Owner, NEW d \in Day, SetAccountOwner(c, w, d)
      PROVE  TypeOK'
  BY <1>3, PassAccountType DEF SetAccountOwner, TypeOK
<1>4. ASSUME NEW e \in Employee, NEW d \in Day, EmployeeLeaves(e, d)
      PROVE  TypeOK'
  <2>1. periods' \subseteq Period
    BY <1>4, VacatedType DEF EmployeeLeaves, TypeOK
  <2>2. Lost(periods, e, d) \subseteq Customer \X Day
    BY PeriodFacts DEF Lost, Late, TypeOK
  <2> QED
    BY <1>4, <2>1, <2>2 DEF EmployeeLeaves, TypeOK
<1>5. ASSUME NEW p \in Filed, LoadAccountAllocation(p)
      PROVE  TypeOK'
  BY <1>5, OwnerAssumption DEF LoadAccountAllocation, TypeOK
<1>6. ASSUME NEW a \in Absence, RecordAbsence(a)
      PROVE  TypeOK'
  BY <1>6 DEF RecordAbsence, TypeOK
<1>7. CASE UNCHANGED vars
  BY <1>7 DEF vars, TypeOK
<1> QED
  BY <1>1, <1>2, <1>3, <1>4, <1>5, <1>6, <1>7 DEF Next

(* Every reachable state is well typed: no routine makes a period that     *)
(* ends before it starts or that lies outside the calendar.                *)
THEOREM TypeCorrect == Spec => []TypeOK
<1>1. Init => TypeOK
  BY DEF Init, TypeOK
<1> QED
  BY <1>1, NextType, PTL DEF Spec

-----------------------------------------------------------------------------
(* No two owners at a time. *)

Apart(p, q) == p.to < q.from \/ q.to < p.from

(* Part of the period p. *)
Within(a, p) == a.customer = p.customer /\ p.from <= a.from /\ a.to <= p.to

NoOverlap(Q) == \A p, q \in Q : p.customer = q.customer /\ p # q => Apart(p, q)

LEMMA NoOverlapNow == OneOwnerAtATime <=> NoOverlap(periods)
BY DEF OneOwnerAtATime, NoOverlap, Apart

LEMMA NoOverlapNext == OneOwnerAtATime' <=> NoOverlap(periods')
BY DEF OneOwnerAtATime, NoOverlap, Apart

(* Parts of two periods are as far apart as the periods are.               *)
LEMMA PartsApart ==
    ASSUME NEW Q \in SUBSET Period, NoOverlap(Q),
           NEW p \in Q, NEW q \in Q, p # q,
           NEW a \in Period, NEW b \in Period,
           Within(a, p), Within(b, q), a.customer = b.customer
    PROVE  Apart(a, b)
<1>1. p \in Period /\ q \in Period
  OBVIOUS
<1>2. p.customer = q.customer
  BY DEF Within
<1>3. p.to < q.from \/ q.to < p.from
  BY <1>2 DEF NoOverlap, Apart
<1>4. /\ p.from \in Int /\ p.to \in Int /\ q.from \in Int /\ q.to \in Int
      /\ a.from \in Int /\ a.to \in Int /\ b.from \in Int /\ b.to \in Int
  BY <1>1, PeriodFacts
<1> QED
  BY <1>3, <1>4 DEF Within, Apart

(* An account that passes has one owner at a time if nobody comes after.   *)
LEMMA PassedToApart ==
    ASSUME TypeOK, OneOwnerAtATime,
           NEW c \in Customer, NEW w \in Owner, NEW d \in Day, ~ChangesAfter(c, d),
           NEW a \in PassedTo(c, w, d), NEW b \in PassedTo(c, w, d),
           a # b, a.customer = b.customer
    PROVE  Apart(a, b)
<1> DEFINE old == AllocationOn(c, d)
           new == [customer |-> c, owner |-> w, from |-> d, to |-> Forever]
<1>1. /\ a \in Period /\ b \in Period /\ d \in Int
      /\ periods \in SUBSET Period /\ NoOverlap(periods)
  BY PassedToType, NoOverlapNow DEF Day, TypeOK
<1>2. ASSUME NEW p \in periods
      PROVE  p \in Period /\ p.from \in Int /\ p.to \in Int
  BY PeriodFacts DEF TypeOK
<1>3. CASE \E p \in old : p.from = d
  <2>1. ASSUME NEW x \in PassedTo(c, w, d)
        PROVE  \E p \in periods : /\ Within(x, p)
                                  /\ x = IF p \in old THEN [p EXCEPT !.owner = w] ELSE p
    <3>1. CASE x \in periods \ old
      BY <1>2, <3>1 DEF Within
    <3>2. CASE \E p \in old : x = [p EXCEPT !.owner = w]
      <4>1. PICK p \in old : x = [p EXCEPT !.owner = w]
        BY <3>2
      <4>2. p \in periods /\ p \in Period
        BY <1>2 DEF AllocationOn
      <4>3. x.customer = p.customer /\ x.from = p.from /\ x.to = p.to
        BY <4>1, <4>2 DEF Period
      <4> QED
        BY <1>2, <4>1, <4>2, <4>3 DEF Within
    <3> QED
      BY <1>3, <3>1, <3>2 DEF PassedTo
  <2>2. PICK p \in periods : Within(a, p) /\ a = IF p \in old THEN [p EXCEPT !.owner = w] ELSE p
    BY <2>1
  <2>3. PICK q \in periods : Within(b, q) /\ b = IF q \in old THEN [q EXCEPT !.owner = w] ELSE q
    BY <2>1
  <2>4. p # q
    BY <2>2, <2>3
  <2> QED
    BY <1>1, <2>2, <2>3, <2>4, PartsApart
<1>4. CASE ~\E p \in old : p.from = d
  <2>1. ASSUME NEW x \in PassedTo(c, w, d), x # new
        PROVE  /\ \E p \in periods : /\ Within(x, p)
                                     /\ x = IF p \in old THEN [p EXCEPT !.to = d - 1] ELSE p
               /\ x.customer = c => x.to < d
    <3>1. CASE x \in periods \ old
      BY <1>1, <1>2, <3>1 DEF Within, AllocationOn, Covers, ChangesAfter
    <3>2. CASE \E p \in old : x = [p EXCEPT !.to = d - 1]
      <4>1. PICK p \in old : x = [p EXCEPT !.to = d - 1]
        BY <3>2
      <4>2. p \in periods /\ p \in Period /\ d <= p.to
        BY <1>2 DEF AllocationOn, Covers
      <4>3. x.customer = p.customer /\ x.from = p.from /\ x.to = d - 1
        BY <4>1, <4>2 DEF Period
      <4> QED
        BY <1>1, <1>2, <4>1, <4>2, <4>3 DEF Within
    <3> QED
      BY <1>4, <2>1, <3>1, <3>2 DEF PassedTo
  <2>2. CASE a = new
    BY <2>1, <2>2 DEF Apart
  <2>3. CASE b = new
    BY <2>1, <2>3 DEF Apart
  <2>4. CASE a # new /\ b # new
    <3>1. PICK p \in periods : Within(a, p) /\ a = IF p \in old THEN [p EXCEPT !.to = d - 1] ELSE p
      BY <2>1, <2>4
    <3>2. PICK q \in periods : Within(b, q) /\ b = IF q \in old THEN [q EXCEPT !.to = d - 1] ELSE q
      BY <2>1, <2>4
    <3>3. p # q
      BY <3>1, <3>2
    <3> QED
      BY <1>1, <3>1, <3>2, <3>3, PartsApart
  <2> QED
    BY <2>2, <2>3, <2>4
<1> QED
  BY <1>3, <1>4

(* What a leaver leaves behind has one owner at a time.                    *)
LEMMA VacatedApart ==
    ASSUME NEW Q \in SUBSET Period, NoOverlap(Q),
           NEW e \in Employee, NEW last \in Day, last < MaxDay
    PROVE  NoOverlap(Vacated(Q, e, last))
<1> DEFINE late == Late(Q, e, last)
           running == Running(Q, e, last)
           First(p) == [p EXCEPT !.to = last]
           Rest(p) == [p EXCEPT !.owner = House, !.from = last + 1]
           Part(x, p) == IF p \in running THEN x = First(p) \/ x = Rest(p)
                         ELSE IF p \in late THEN x = [p EXCEPT !.owner = Heir(Q, e, last, p)]
                         ELSE x = p
<1> SUFFICES ASSUME NEW a \in Vacated(Q, e, last), NEW b \in Vacated(Q, e, last),
                    a # b, a.customer = b.customer
             PROVE  Apart(a, b)
  BY DEF NoOverlap
<1>1. a \in Period /\ b \in Period /\ last \in Int
  BY VacatedType DEF Day
<1>2. ASSUME NEW p \in Q
      PROVE  p \in Period /\ p.from \in Int /\ p.to \in Int
  BY PeriodFacts
<1>3. \A p \in Q : ~(p \in running /\ p \in late)
  BY <1>1, <1>2 DEF Late, Running
<1>4. ASSUME NEW x \in Vacated(Q, e, last)
      PROVE  \E p \in Q : Within(x, p) /\ Part(x, p)
  <2>1. CASE x \in Q \ (late \union running)
    <3>1. Within(x, x)
      BY <1>2, <2>1 DEF Within
    <3>2. Part(x, x)
      BY <2>1
    <3> HIDE DEF Part
    <3> QED
      BY <2>1, <3>1, <3>2
  <2>2. CASE \E p \in late : x = [p EXCEPT !.owner = Heir(Q, e, last, p)]
    <3>1. PICK p \in late : x = [p EXCEPT !.owner = Heir(Q, e, last, p)]
      BY <2>2
    <3>2. p \in Q /\ p \in Period
      BY <1>2 DEF Late
    <3>3. x.customer = p.customer /\ x.from = p.from /\ x.to = p.to
      BY <3>1, <3>2 DEF Period
    <3>4. Part(x, p)
      BY <1>3, <3>1, <3>2
    <3>5. Within(x, p)
      BY <1>2, <3>2, <3>3 DEF Within
    <3> HIDE DEF Part
    <3> QED
      BY <3>2, <3>4, <3>5
  <2>3. CASE \E p \in running : x = First(p) \/ x = Rest(p)
    <3>1. PICK p \in running : x = First(p) \/ x = Rest(p)
      BY <2>3
    <3>2. p \in Q /\ p \in Period /\ p.from <= last /\ last < p.to
      BY <1>1, <1>2 DEF Running
    <3>3. /\ x.customer = p.customer
          /\ \/ x.from = p.from /\ x.to = last
             \/ x.from = last + 1 /\ x.to = p.to
      BY <3>1, <3>2 DEF Period
    <3>4. Within(x, p)
      BY <1>1, <1>2, <3>2, <3>3 DEF Within
    <3> QED
      BY <3>1, <3>2, <3>4
  <2> QED
    BY <2>1, <2>2, <2>3 DEF Vacated
<1>5. PICK p \in Q : Within(a, p) /\ Part(a, p)
  BY <1>4
<1>6. PICK q \in Q : Within(b, q) /\ Part(b, q)
  BY <1>4
<1>7. CASE p # q
  BY <1>1, <1>5, <1>6, <1>7, PartsApart
<1>8. CASE p = q
  <2>1. p \in running
    BY <1>5, <1>6, <1>8
  <2>2. First(p).to = last /\ Rest(p).from = last + 1
    BY <1>2 DEF Period
  <2>3. (a = First(p) /\ b = Rest(p)) \/ (a = Rest(p) /\ b = First(p))
    BY <1>5, <1>6, <1>8, <2>1
  <2>4. last < last + 1
    BY <1>1
  <2> QED
    BY <2>2, <2>3, <2>4 DEF Apart
<1> QED
  BY <1>7, <1>8

LEMMA PassAccountApart ==
    ASSUME TypeOK, OneOwnerAtATime,
           NEW c \in Customer, NEW w \in Owner, NEW d \in Day, PassAccount(c, w, d)
    PROVE  OneOwnerAtATime'
<1>1. CASE UNCHANGED periods
  BY <1>1 DEF OneOwnerAtATime
<1>2. CASE ~ChangesAfter(c, d) /\ periods' = PassedTo(c, w, d)
  BY <1>2, PassedToApart DEF OneOwnerAtATime, Apart
<1> QED
  BY <1>1, <1>2 DEF PassAccount

LEMMA NextOneOwner == TypeOK /\ OneOwnerAtATime /\ [Next]_vars => OneOwnerAtATime'
<1> SUFFICES ASSUME TypeOK, OneOwnerAtATime, [Next]_vars
             PROVE  OneOwnerAtATime'
  OBVIOUS
<1>1. ASSUME NEW c \in Customer, NEW e \in Employee, NEW d \in Day,
             NEW cover \in (Employee \ {e}) \union {None}, TakeAccountForOrder(c, e, d, cover)
      PROVE  OneOwnerAtATime'
  <2>1. CASE UNCHANGED periods
    BY <2>1 DEF OneOwnerAtATime
  <2>2. CASE PassAccount(c, e, d)
    BY <2>2, PassAccountApart DEF Owner
  <2> QED
    BY <1>1, <2>1, <2>2 DEF TakeAccountForOrder
<1>2. ASSUME NEW c \in Customer, NEW e \in Employee, NEW d \in Day, AllocateAccount(c, e, d)
      PROVE  OneOwnerAtATime'
  <2>1. ~ChangesAfter(c, d)
    <3> SUFFICES ASSUME NEW p \in periods, p.customer = c, p.from > d
                 PROVE  FALSE
      BY DEF ChangesAfter
    <3>1. p.from < d
      BY <1>2 DEF AllocateAccount
    <3> QED
      BY <3>1, PeriodFacts DEF TypeOK, Day
  <2>2. periods' = PassedTo(c, e, d) /\ e \in Owner
    BY <1>2 DEF AllocateAccount, Owner
  <2> QED
    BY <2>1, <2>2, PassedToApart DEF OneOwnerAtATime, Apart
<1>3. ASSUME NEW c \in Customer, NEW w \in Owner, NEW d \in Day, SetAccountOwner(c, w, d)
      PROVE  OneOwnerAtATime'
  BY <1>3, PassAccountApart DEF SetAccountOwner
<1>4. ASSUME NEW e \in Employee, NEW d \in Day, EmployeeLeaves(e, d)
      PROVE  OneOwnerAtATime'
  BY <1>4, VacatedApart, NoOverlapNow, NoOverlapNext DEF EmployeeLeaves, TypeOK
<1>5. ASSUME NEW p \in Filed, LoadAccountAllocation(p)
      PROVE  OneOwnerAtATime'
  BY <1>5 DEF LoadAccountAllocation, OneOwnerAtATime
<1>6. ASSUME NEW a \in Absence, RecordAbsence(a)
      PROVE  OneOwnerAtATime'
  BY <1>6 DEF RecordAbsence, OneOwnerAtATime
<1>7. CASE UNCHANGED vars
  BY <1>7 DEF vars, OneOwnerAtATime
<1> QED
  BY <1>1, <1>2, <1>3, <1>4, <1>5, <1>6, <1>7 DEF Next

(* No two periods of an account overlap: no approval, hand-over or leaver  *)
(* ever runs into the EXCLUDE constraint of customer_account_allocation.   *)
THEOREM OneOwnerAlways == Spec => []OneOwnerAtATime
<1>1. Init => OneOwnerAtATime
  BY DEF Init, OneOwnerAtATime
<1> QED
  BY <1>1, NextType, TypeCorrect, NextOneOwner, PTL DEF Spec

-----------------------------------------------------------------------------
(* What is passed is logged, and no start of an ownership is forgotten.    *)

LEMMA PassLogged ==
    ASSUME TypeOK, NEW c \in Customer, NEW e \in Employee, NEW d \in Day, PassAccount(c, e, d)
    PROVE  (\E p \in AllocationOn(c, d)' : p.owner = e) \/ <<c, d>> \in review'
<1>1. CASE Log(c, d)
  BY <1>1 DEF Log
<1>2. CASE UNCHANGED periods /\ \E p \in AllocationOn(c, d) : p.owner = e
  BY <1>2 DEF AllocationOn, Covers
<1>3. CASE periods' = PassedTo(c, e, d)
  <2> DEFINE new == [customer |-> c, owner |-> e, from |-> d, to |-> Forever]
  <2>1. CASE \E p \in AllocationOn(c, d) : p.from = d
    <3>1. PICK p \in AllocationOn(c, d) : p.from = d
      BY <2>1
    <3>2. p \in Period /\ p.customer = c /\ Covers(p, d)
      BY DEF AllocationOn, TypeOK
    <3> DEFINE n == [p EXCEPT !.owner = e]
    <3>3. n \in periods'
      BY <1>3, <2>1 DEF PassedTo
    <3>4. n.customer = c /\ n.owner = e /\ n.from = p.from /\ n.to = p.to
      BY <3>2 DEF Period
    <3>5. n \in AllocationOn(c, d)'
      BY <3>2, <3>3, <3>4 DEF AllocationOn, Covers
    <3> QED
      BY <3>4, <3>5
  <2>2. CASE ~\E p \in AllocationOn(c, d) : p.from = d
    <3>1. new \in periods'
      BY <1>3, <2>2 DEF PassedTo
    <3>2. d <= d /\ d <= Forever
      BY OwnerAssumption DEF Day, Forever
    <3>3. new \in AllocationOn(c, d)'
      BY <3>1, <3>2 DEF AllocationOn, Covers
    <3> QED
      BY <3>3
  <2> QED
    BY <2>1, <2>2
<1> QED
  BY <1>1, <1>2, <1>3 DEF PassAccount

(* Approving an order, step by step. *)
LEMMA TakenOrLogged ==
    ASSUME TypeOK, NEW c \in Customer, NEW e \in Employee, NEW d \in Day,
           TakeAccountForOrder(c, e, d, None)
    PROVE  \/ \E p \in AllocationOn(c, d)' : p.owner = e
           \/ \E p \in AllocationOn(c, d) : p.owner \in Employee /\ Absent(p.owner, d)
           \/ <<c, d>> \in review'
<1>1. CASE IsCover(c, e, d, None)
  BY <1>1 DEF IsCover
<1>2. CASE ~Active(e) /\ Log(c, d)
  BY <1>2 DEF Log
<1>3. CASE PassAccount(c, e, d)
  BY <1>3, PassLogged
<1> QED
  BY <1>1, <1>2, <1>3 DEF TakeAccountForOrder

(* On approval the account passes to the order's salesperson, but for      *)
(* cover, or the refusal is on record.                                     *)
THEOREM PassedOrLogged == Spec => AccountPassesOrIsLogged
<1>1. TypeOK /\ [Next]_vars => [\A c \in Customer, e \in Employee, d \in Day :
          TakeAccountForOrder(c, e, d, None) =>
              \/ \E p \in AllocationOn(c, d)' : p.owner = e
              \/ \E p \in AllocationOn(c, d) : p.owner \in Employee /\ Absent(p.owner, d)
              \/ <<c, d>> \in review']_vars
  BY TakenOrLogged
<1> QED
  BY <1>1, TypeCorrect, PTL DEF Spec, AccountPassesOrIsLogged

KeptOrLogged(p) ==
    \/ \E q \in periods' : q.customer = p.customer /\ q.owner = p.owner /\ q.from <= p.from
    \/ <<p.customer, p.from>> \in review'

LEMMA StaysKept ==
    ASSUME TypeOK, NEW p \in periods, p \in periods'
    PROVE  KeptOrLogged(p)
BY PeriodFacts DEF TypeOK, KeptOrLogged

(* A period that is closed, or cut, keeps its start; one that changes      *)
(* hands on its first day does not.                                        *)
LEMMA PassedToKeeps ==
    ASSUME TypeOK, NEW c \in Customer, NEW w \in Owner, NEW d \in Day,
           periods' = PassedTo(c, w, d),
           (\E p \in AllocationOn(c, d) : p.from = d) => Log(c, d),
           NEW p \in periods, OneOwnerAtATime
    PROVE  KeptOrLogged(p)
<1>1. p \in Period /\ p.from \in Int /\ p.from <= p.from
  BY PeriodFacts DEF TypeOK
<1>2. CASE p \notin AllocationOn(c, d)
  BY <1>2, StaysKept DEF PassedTo
<1>3. CASE p \in AllocationOn(c, d) /\ \E q \in AllocationOn(c, d) : q.from = d
  <2>1. PICK q \in AllocationOn(c, d) : q.from = d
    BY <1>3
  <2>2. /\ p \in periods /\ q \in periods /\ p.customer = c /\ q.customer = c
        /\ p.from <= d /\ d <= p.to /\ q.from <= d /\ d <= q.to
    BY <1>3 DEF AllocationOn, Covers
  <2>3. q \in Period /\ p.to \in Int /\ q.from \in Int /\ q.to \in Int /\ d \in Int
    BY <1>1, <2>2, PeriodFacts DEF TypeOK, Day
  <2>4. p = q
    BY <1>1, <2>2, <2>3 DEF OneOwnerAtATime
  <2> QED
    BY <1>3, <2>1, <2>2, <2>4 DEF KeptOrLogged, Log
<1>4. CASE p \in AllocationOn(c, d) /\ ~\E q \in AllocationOn(c, d) : q.from = d
  <2> DEFINE n == [p EXCEPT !.to = d - 1]
  <2>1. n \in periods'
    BY <1>4 DEF PassedTo
  <2>2. n.customer = p.customer /\ n.owner = p.owner /\ n.from = p.from
    BY <1>1 DEF Period
  <2> QED
    BY <1>1, <2>1, <2>2 DEF KeptOrLogged
<1> QED
  BY <1>2, <1>3, <1>4

LEMMA PassAccountKeeps ==
    ASSUME TypeOK, OneOwnerAtATime,
           NEW c \in Customer, NEW w \in Owner, NEW d \in Day, PassAccount(c, w, d),
           NEW p \in periods
    PROVE  KeptOrLogged(p)
<1>1. CASE UNCHANGED periods
  BY <1>1, StaysKept
<1>2. CASE /\ periods' = PassedTo(c, w, d)
           /\ (\E q \in AllocationOn(c, d) : q.from = d) => Log(c, d)
  BY <1>2, PassedToKeeps
<1> QED
  BY <1>1, <1>2 DEF PassAccount

(* A leaver's late periods are logged, the others keep their start.        *)
LEMMA VacatedKeeps ==
    ASSUME TypeOK, NEW e \in Employee, NEW last \in Day, EmployeeLeaves(e, last),
           NEW p \in periods
    PROVE  KeptOrLogged(p)
<1>1. p \in Period /\ p.from \in Int /\ p.from <= p.from
  BY PeriodFacts DEF TypeOK
<1>2. periods' = Vacated(periods, e, last)
  BY DEF EmployeeLeaves
<1>3. CASE p \in Late(periods, e, last)
  BY <1>3 DEF EmployeeLeaves, Lost, KeptOrLogged
<1>4. CASE p \in Running(periods, e, last)
  <2> DEFINE n == [p EXCEPT !.to = last]
  <2>1. n \in periods'
    BY <1>2, <1>4 DEF Vacated
  <2>2. n.customer = p.customer /\ n.owner = p.owner /\ n.from = p.from
    BY <1>1 DEF Period
  <2> QED
    BY <1>1, <2>1, <2>2 DEF KeptOrLogged
<1>5. CASE p \notin Late(periods, e, last) \union Running(periods, e, last)
  <2>1. p \in periods'
    BY <1>2, <1>5 DEF Vacated
  <2> QED
    BY <2>1, StaysKept
<1> QED
  BY <1>3, <1>4, <1>5

(* Every routine keeps the starts, or logs them. *)
LEMMA NextKeeps ==
    ASSUME TypeOK, OneOwnerAtATime, [Next]_vars, NEW p \in periods
    PROVE  KeptOrLogged(p)
<1>1. ASSUME NEW c \in Customer, NEW e \in Employee, NEW d \in Day,
             NEW cover \in (Employee \ {e}) \union {None}, TakeAccountForOrder(c, e, d, cover)
      PROVE  KeptOrLogged(p)
  <2>1. CASE UNCHANGED periods
    BY <2>1, StaysKept
  <2>2. CASE PassAccount(c, e, d)
    BY <2>2, PassAccountKeeps DEF Owner
  <2> QED
    BY <1>1, <2>1, <2>2 DEF TakeAccountForOrder
<1>2. ASSUME NEW c \in Customer, NEW e \in Employee, NEW d \in Day, AllocateAccount(c, e, d)
      PROVE  KeptOrLogged(p)
  <2>1. ~\E q \in AllocationOn(c, d) : q.from = d
    <3> SUFFICES ASSUME NEW q \in periods, q.customer = c, q.from = d
                 PROVE  FALSE
      BY DEF AllocationOn
    <3>1. q.from < d /\ d \in Int
      BY <1>2 DEF AllocateAccount, Day
    <3> QED
      BY <3>1
  <2> QED
    BY <1>2, <2>1, PassedToKeeps DEF AllocateAccount, Owner
<1>3. ASSUME NEW c \in Customer, NEW w \in Owner, NEW d \in Day, SetAccountOwner(c, w, d)
      PROVE  KeptOrLogged(p)
  BY <1>3, PassAccountKeeps DEF SetAccountOwner
<1>4. ASSUME NEW e \in Employee, NEW d \in Day, EmployeeLeaves(e, d)
      PROVE  KeptOrLogged(p)
  BY <1>4, VacatedKeeps
<1>5. ASSUME NEW q \in Filed, LoadAccountAllocation(q)
      PROVE  KeptOrLogged(p)
  BY <1>5, StaysKept DEF LoadAccountAllocation
<1>6. ASSUME NEW a \in Absence, RecordAbsence(a)
      PROVE  KeptOrLogged(p)
  BY <1>6, StaysKept DEF RecordAbsence
<1>7. CASE UNCHANGED vars
  BY <1>7, StaysKept DEF vars
<1> QED
  BY <1>1, <1>2, <1>3, <1>4, <1>5, <1>6, <1>7 DEF Next

(* No routine makes anybody's ownership of an account start later, or      *)
(* forgets it, without a line for review.                                  *)
THEOREM StartsNotForgotten == Spec => StartsKept
<1>1. TypeOK /\ OneOwnerAtATime /\ [Next]_vars => [\A p \in periods :
          \/ \E q \in periods' : /\ q.customer = p.customer /\ q.owner = p.owner
                                 /\ q.from <= p.from
          \/ <<p.customer, p.from>> \in review']_vars
  BY NextKeeps DEF KeptOrLogged
<1> QED
  BY <1>1, TypeCorrect, OneOwnerAlways, PTL DEF Spec, StartsKept

=============================================================================

--------------------------- MODULE Timeline_proofs ---------------------------
(***************************************************************************)
(* Ownership implements AccountTimeline, for every number of customers,    *)
(* employees and days: what each routine does to the periods, told day by  *)
(* day.                                                                    *)
(***************************************************************************)
EXTENDS Ownership_proofs

(* OwnerOn, of any set of periods. *)
InForce(Q, c, d) == {p \in Q : p.customer = c /\ Covers(p, d)}

Holder(Q, c, d) == IF InForce(Q, c, d) = {} THEN None ELSE (CHOOSE p \in InForce(Q, c, d) : TRUE).owner

LEMMA HolderNow == \A c, d : OwnerOn(c, d) = Holder(periods, c, d)
BY DEF OwnerOn, AllocationOn, Holder, InForce

LEMMA HolderNext == \A c, d : OwnerOn(c, d)' = Holder(periods', c, d)
BY DEF OwnerOn, AllocationOn, Holder, InForce, Covers

(* The holder is the owner of the period that covers the day, ...          *)
LEMMA HolderIs ==
    ASSUME NEW Q \in SUBSET Period, NoOverlap(Q), NEW p \in Q, NEW d \in Day, Covers(p, d)
    PROVE  InForce(Q, p.customer, d) = {p} /\ Holder(Q, p.customer, d) = p.owner
<1>1. ASSUME NEW q \in InForce(Q, p.customer, d)
      PROVE  q = p
  <2>1. q \in Period /\ p \in Period /\ q.customer = p.customer /\ Covers(q, d)
    BY <1>1 DEF InForce
  <2>2. /\ p.from \in Int /\ p.to \in Int /\ q.from \in Int /\ q.to \in Int /\ d \in Int
    BY <2>1, PeriodFacts DEF Day
  <2>3. ~Apart(p, q)
    BY <2>1, <2>2 DEF Apart, Covers
  <2> QED
    BY <1>1, <2>1, <2>3 DEF NoOverlap, InForce
<1>2. p \in InForce(Q, p.customer, d)
  BY DEF InForce
<1>3. InForce(Q, p.customer, d) = {p}
  BY <1>1, <1>2
<1>4. (CHOOSE q \in {p} : TRUE) = p
  OBVIOUS
<1> QED
  BY <1>3, <1>4 DEF Holder

(* ... and None when there is none. *)
LEMMA HolderNone ==
    ASSUME NEW Q, NEW c, NEW d, \A p \in Q : ~(p.customer = c /\ Covers(p, d))
    PROVE  InForce(Q, c, d) = {} /\ Holder(Q, c, d) = None
BY DEF Holder, InForce

(* Two sets of periods that have the same periods over a day, up to their  *)
(* ends, have the same holder that day.                                    *)
LEMMA SameHolder ==
    ASSUME NEW Q \in SUBSET Period, NEW R \in SUBSET Period, NoOverlap(Q), NoOverlap(R),
           NEW c, NEW d \in Day,
           \A p \in InForce(Q, c, d) : \E r \in InForce(R, c, d) : r.owner = p.owner,
           \A r \in InForce(R, c, d) : \E p \in InForce(Q, c, d) : TRUE
    PROVE  Holder(Q, c, d) = Holder(R, c, d)
<1>1. CASE InForce(Q, c, d) = {}
  BY <1>1 DEF Holder
<1>2. CASE InForce(Q, c, d) # {}
  <2>1. PICK p \in InForce(Q, c, d) : TRUE
    BY <1>2
  <2>2. PICK r \in InForce(R, c, d) : r.owner = p.owner
    BY <2>1
  <2>3. Holder(Q, c, d) = p.owner
    BY <2>1, HolderIs DEF InForce
  <2>4. Holder(R, c, d) = r.owner
    BY <2>2, HolderIs DEF InForce
  <2> QED
    BY <2>2, <2>3, <2>4
<1> QED
  BY <1>1, <1>2

-----------------------------------------------------------------------------
(* An account passes. *)

(* Nobody comes after the owner of a day when no period starts after it.   *)
LEMMA NobodyAfter ==
    ASSUME TypeOK, OneOwnerAtATime, NEW c \in Customer, NEW d \in Day, ~ChangesAfter(c, d),
           NEW x \in Day, x > d
    PROVE  OwnerOn(c, x) \in {OwnerOn(c, d), None}
<1>1. periods \in SUBSET Period /\ NoOverlap(periods)
  BY NoOverlapNow DEF TypeOK
<1>2. CASE \A p \in periods : ~(p.customer = c /\ Covers(p, x))
  BY <1>2, HolderNone, HolderNow
<1>3. ASSUME NEW p \in periods, p.customer = c, Covers(p, x)
      PROVE  OwnerOn(c, x) \in {OwnerOn(c, d), None}
  <2>1. Covers(p, d)
    <3>1. p.from \in Int /\ p.to \in Int /\ d \in Int /\ x \in Int
      BY <1>1, PeriodFacts DEF Day
    <3>2. ~(p.from > d)
      BY <1>3 DEF ChangesAfter
    <3> QED
      BY <1>3, <3>1, <3>2 DEF Covers
  <2>2. Holder(periods, c, x) = p.owner /\ Holder(periods, c, d) = p.owner
    BY <1>1, <1>3, <2>1, HolderIs
  <2> QED
    BY <2>2, HolderNow
<1> QED
  BY <1>2, <1>3

(* After it has passed, the account is w's from day d on, but for days     *)
(* that nobody owned and that stay so; no other day changes hands.         *)
LEMMA PassedToOwner ==
    ASSUME TypeOK, OneOwnerAtATime,
           NEW c \in Customer, NEW w \in Owner, NEW d \in Day, ~ChangesAfter(c, d),
           NEW a \in Customer, NEW x \in Day
    PROVE  LET now == Holder(PassedTo(c, w, d), a, x) IN
           /\ a # c \/ x < d => now = OwnerOn(a, x)
           /\ a = c /\ x = d => now = w
           /\ a = c /\ x > d => now = w \/ (now = None /\ OwnerOn(a, x) = None)
<1> DEFINE old == AllocationOn(c, d)
           new == [customer |-> c, owner |-> w, from |-> d, to |-> Forever]
           Q == PassedTo(c, w, d)
<1>1. periods \in SUBSET Period /\ NoOverlap(periods)
  BY NoOverlapNow DEF TypeOK
<1>2. Q \in SUBSET Period /\ NoOverlap(Q)
  BY PassedToType, PassedToApart DEF NoOverlap
<1>3. d \in Int /\ x \in Int /\ Forever \in Int /\ x < Forever
  BY OwnerAssumption DEF Day, Forever
<1>4. ASSUME NEW p \in periods
      PROVE  p \in Period /\ p.from \in Int /\ p.to \in Int
  BY <1>1, PeriodFacts
<1>5. ASSUME NEW p \in old
      PROVE  p \in periods /\ p.customer = c /\ p.from <= d /\ d <= p.to
  BY DEF AllocationOn, Covers
<1> HIDE DEF Q
<1>6. CASE \E p \in old : p.from = d
  <2>1. Q = (periods \ old) \union {[p EXCEPT !.owner = w] : p \in old}
    BY <1>6 DEF Q, PassedTo
  <2>2. PICK o \in old : o.from = d
    BY <1>6
  <2>3. old = {o}
    BY <1>1, <1>5, <2>2, HolderIs DEF old, AllocationOn, InForce, Covers
  <2>4. o \in periods /\ o \in Period /\ o.customer = c /\ o.from = d /\ d <= o.to
    BY <1>4, <1>5, <2>2
  <2> DEFINE n == [o EXCEPT !.owner = w]
  <2>5. n \in Q /\ n.customer = c /\ n.owner = w /\ n.from = d /\ n.to = o.to
    BY <2>1, <2>2, <2>4 DEF Period
  <2> HIDE DEF n, old
  <2>6. CASE a = c /\ d <= x /\ x <= o.to
    <3>1. Covers(n, x)
      BY <2>5, <2>6 DEF Covers
    <3>2. Holder(Q, c, x) = w
      BY <1>2, <2>5, <3>1, HolderIs
    <3> QED
      BY <1>3, <2>6, <3>2 DEF Q
  <2>7. CASE ~(a = c /\ d <= x /\ x <= o.to)
    <3>1. ASSUME NEW p \in InForce(periods, a, x)
          PROVE  p \in InForce(Q, a, x)
      <4>1. p # o
        BY <1>3, <1>4, <2>4, <2>7 DEF InForce, Covers
      <4> QED
        BY <2>1, <2>3, <4>1 DEF InForce
    <3>2. ASSUME NEW p \in InForce(Q, a, x)
          PROVE  p \in InForce(periods, a, x)
      <4>1. p # n
        BY <1>3, <2>5, <2>7 DEF InForce, Covers
      <4> QED
        BY <2>1, <2>3, <4>1 DEF InForce, n
    <3>3. Holder(Q, a, x) = OwnerOn(a, x)
      BY <1>1, <1>2, <3>1, <3>2, HolderNow DEF Holder
    <3>4. CASE a = c /\ x > d
      <4>1. \A p \in periods : ~(p.customer = a /\ Covers(p, x))
        <5> SUFFICES ASSUME NEW p \in periods, p.customer = c, Covers(p, x)
                     PROVE  FALSE
          BY <3>4
        <5>1. ~(p.from > d)
          BY DEF ChangesAfter
        <5>2. p \in old
          BY <1>3, <1>4, <3>4, <5>1 DEF old, AllocationOn, Covers
        <5>3. p = o
          BY <2>3, <5>2
        <5> QED
          BY <1>3, <1>4, <2>7, <3>4, <5>3 DEF Covers
      <4>2. OwnerOn(a, x) = None
        BY <4>1, HolderNone, HolderNow
      <4> QED
        BY <1>3, <3>3, <3>4, <4>2 DEF Q
    <3>5. ~(a = c /\ x = d)
      BY <1>3, <2>4, <2>7
    <3> QED
      BY <3>3, <3>4, <3>5 DEF Q
  <2> QED
    BY <2>6, <2>7
<1>7. CASE ~\E p \in old : p.from = d
  <2>1. Q = (periods \ old) \union {[p EXCEPT !.to = d - 1] : p \in old} \union {new}
    BY <1>7 DEF Q, PassedTo
  <2>2. CASE a = c /\ x >= d
    <3>1. new \in Q /\ new.customer = c /\ new.owner = w /\ Covers(new, x)
      BY <1>3, <2>1, <2>2 DEF Covers
    <3> HIDE DEF new
    <3>2. Holder(Q, c, x) = w
      BY <1>2, <3>1, HolderIs
    <3> QED
      BY <1>3, <2>2, <3>2 DEF Q
  <2>3. CASE a # c \/ x < d
    <3>1. ASSUME NEW p \in InForce(periods, a, x)
          PROVE  \E q \in InForce(Q, a, x) : q.owner = p.owner
      <4>1. p \in periods /\ p \in Period /\ p.customer = a /\ Covers(p, x)
        BY <1>4 DEF InForce
      <4>2. CASE p \notin old
        BY <2>1, <4>1, <4>2 DEF InForce
      <4>3. CASE p \in old
        <5> DEFINE q == [p EXCEPT !.to = d - 1]
        <5>1. q \in Q /\ q.customer = a /\ q.owner = p.owner /\ q.from = p.from /\ q.to = d - 1
          BY <2>1, <4>1, <4>3 DEF Period
        <5>2. x < d
          BY <1>5, <2>3, <4>1, <4>3
        <5> HIDE DEF q
        <5>3. Covers(q, x)
          BY <1>3, <4>1, <5>1, <5>2 DEF Covers
        <5> QED
          BY <5>1, <5>3 DEF InForce
      <4> QED
        BY <4>2, <4>3
    <3>2. ASSUME NEW q \in InForce(Q, a, x)
          PROVE  \E p \in InForce(periods, a, x) : TRUE
      <4>1. q \in Q /\ q.customer = a /\ Covers(q, x)
        BY DEF InForce
      <4>2. q # new
        BY <1>3, <2>3, <4>1 DEF Covers
      <4>3. CASE q \in periods
        BY <4>1, <4>3 DEF InForce
      <4>4. CASE q \notin periods
        <5>1. PICK p \in old : q = [p EXCEPT !.to = d - 1]
          BY <2>1, <4>1, <4>2, <4>4
        <5>2. p \in periods /\ p \in Period /\ p.from \in Int /\ p.to \in Int /\ d <= p.to
          BY <1>4, <1>5
        <5>3. q.customer = p.customer /\ q.from = p.from /\ q.to = d - 1
          BY <5>1, <5>2 DEF Period
        <5>4. Covers(p, x)
          BY <1>3, <4>1, <5>2, <5>3 DEF Covers
        <5> QED
          BY <4>1, <5>2, <5>3, <5>4 DEF InForce
      <4> QED
        BY <4>3, <4>4
    <3>3. Holder(periods, a, x) = Holder(Q, a, x)
      BY <1>1, <1>2, <3>1, <3>2, SameHolder
    <3> QED
      BY <1>3, <2>3, <3>3, HolderNow DEF Q
  <2> QED
    BY <1>3, <2>2, <2>3
<1> QED
  BY <1>6, <1>7

(* So the account passes as the timeline allows, whatever other accounts   *)
(* do in the same step.                                                    *)
LEMMA PassedToPasses ==
    ASSUME TypeOK, OneOwnerAtATime,
           NEW c \in Customer, NEW w \in Owner, NEW d \in Day, ~ChangesAfter(c, d),
           w \in Employee => Active(w),
           \A x \in Day : OwnerOn(c, x)' = Holder(PassedTo(c, w, d), c, x)
    PROVE  Timeline!Passes(c, w, d)
<1> DEFINE tl == [a \in Customer |-> [x \in Day |-> OwnerOn(a, x)]]
<1>1. d \in Int /\ MaxDay \in Int
  BY OwnerAssumption DEF Day
<1>2. \A x \in d + 1 .. MaxDay : x \in Day /\ x > d
  BY <1>1 DEF Day
<1>3. w \in Employee => left[w] = None
  BY DEF Active
<1>4. \A x \in d + 1 .. MaxDay : tl[c][x] \in {tl[c][d], None}
  BY <1>2, NobodyAfter
<1>5. ASSUME NEW x \in Day
      PROVE  \/ x < d /\ tl'[c][x] = tl[c][x]
             \/ x >= d /\ tl'[c][x] = w
             \/ x > d /\ tl[c][x] = None /\ tl'[c][x] = None
  <2>1. x \in Int /\ tl[c][x] = OwnerOn(c, x) /\ tl'[c][x] = Holder(PassedTo(c, w, d), c, x)
    BY DEF Day
  <2> HIDE DEF tl
  <2>2. CASE x < d
    BY <2>1, <2>2, PassedToOwner
  <2>3. CASE x >= d
    BY <1>1, <2>1, <2>3, PassedToOwner
  <2> QED
    BY <1>1, <2>1, <2>2, <2>3
<1>6. Timeline!Day = Day
  BY DEF Timeline!Day, Day
<1> HIDE DEF tl
<1> QED
  BY <1>3, <1>4, <1>5, <1>6 DEF Timeline!Passes, tl

(* A step that passes at most one account. *)
LEMMA PassIsGive ==
    ASSUME TypeOK, OneOwnerAtATime,
           NEW c \in Customer, NEW w \in Owner, NEW d \in Day, ~ChangesAfter(c, d),
           w \in Employee => Active(w),
           periods' = PassedTo(c, w, d), UNCHANGED left
    PROVE  Timeline!Give
<1> DEFINE tl == [a \in Customer |-> [x \in Day |-> OwnerOn(a, x)]]
<1>1. \A a \in Customer, x \in Day : OwnerOn(a, x)' = Holder(PassedTo(c, w, d), a, x)
  BY HolderNext
<1>2. Timeline!Passes(c, w, d)
  BY <1>1, PassedToPasses
<1>3. ASSUME NEW a \in Customer \ {c}
      PROVE  tl'[a] = tl[a]
  BY <1>1, PassedToOwner
<1>4. w \in Employee \union HouseAccount /\ Timeline!Day = Day
  BY DEF Owner, Timeline!Day, Day
<1> QED
  BY <1>2, <1>3, <1>4 DEF Timeline!Give

-----------------------------------------------------------------------------
(* An employee leaves. *)

(* A leaver's days after the last one pass on, and no other day does.      *)
LEMMA VacatedOwner ==
    ASSUME NEW Q \in SUBSET Period, NoOverlap(Q),
           NEW e \in Employee, NEW last \in Day, last < MaxDay,
           NEW a \in Customer, NEW x \in Day
    PROVE  LET now == Holder(Vacated(Q, e, last), a, x) IN
           IF Holder(Q, a, x) = e /\ x > last
           THEN /\ now \in Owner \ {e}
                /\ (\A p \in Late(Q, e, last) : p.customer # a) => now = House
           ELSE now = Holder(Q, a, x)
<1> DEFINE R == Vacated(Q, e, last)
           late == Late(Q, e, last)
           running == Running(Q, e, last)
<1>1. Q \in SUBSET Period /\ NoOverlap(Q)
  OBVIOUS
<1>2. R \in SUBSET Period /\ NoOverlap(R)
  BY VacatedType, VacatedApart
<1>3. last \in Int /\ x \in Int /\ e # None /\ House \in Owner \ {e}
  BY OwnerAssumption DEF Day, Owner
<1>4. ASSUME NEW p \in Q
      PROVE  p \in Period /\ p.from \in Int /\ p.to \in Int
  BY <1>1, PeriodFacts
<1>5. R = (Q \ (late \union running))
          \union {[p EXCEPT !.owner = Heir(Q, e, last, p)] : p \in late}
          \union {[p EXCEPT !.to = last] : p \in running}
          \union {[p EXCEPT !.owner = House, !.from = last + 1] : p \in running}
  BY DEF Vacated
<1>6. /\ \A p \in late : p \in Q /\ p.owner = e /\ p.from > last
      /\ \A p \in running : p \in Q /\ p.owner = e /\ p.from <= last /\ p.to > last
      /\ \A p \in Q : p.owner = e /\ p \notin late \union running => p.to <= last
  BY <1>3, <1>4 DEF Late, Running
<1> HIDE DEF R, late, running
<1>7. CASE InForce(Q, a, x) = {}
  <2>1. \A p \in Q : ~(p.customer = a /\ Covers(p, x))
    BY <1>7 DEF InForce
  <2>2. ASSUME NEW q \in R, q.customer = a, Covers(q, x)
        PROVE  \E p \in Q : p.customer = a /\ Covers(p, x)
    <3>1. CASE q \in Q
      BY <2>2, <3>1
    <3>2. CASE \E p \in late : q = [p EXCEPT !.owner = Heir(Q, e, last, p)]
      <4>1. PICK p \in late : q = [p EXCEPT !.owner = Heir(Q, e, last, p)]
        BY <3>2
      <4>2. p \in Q /\ p \in Period
        BY <1>4, <1>6
      <4>3. q.customer = p.customer /\ q.from = p.from /\ q.to = p.to
        BY <4>1, <4>2 DEF Period
      <4> QED
        BY <2>2, <4>2, <4>3 DEF Covers
    <3>3. CASE \E p \in running : q = [p EXCEPT !.to = last]
      <4>1. PICK p \in running : q = [p EXCEPT !.to = last]
        BY <3>3
      <4>2. p \in Q /\ p \in Period /\ p.from \in Int /\ p.to \in Int /\ last < p.to
        BY <1>4, <1>6
      <4>3. q.customer = p.customer /\ q.from = p.from /\ q.to = last
        BY <4>1, <4>2 DEF Period
      <4> QED
        BY <1>3, <2>2, <4>2, <4>3 DEF Covers
    <3>4. CASE \E p \in running : q = [p EXCEPT !.owner = House, !.from = last + 1]
      <4>1. PICK p \in running : q = [p EXCEPT !.owner = House, !.from = last + 1]
        BY <3>4
      <4>2. p \in Q /\ p \in Period /\ p.from \in Int /\ p.to \in Int /\ p.from <= last
        BY <1>4, <1>6
      <4>3. q.customer = p.customer /\ q.from = last + 1 /\ q.to = p.to
        BY <4>1, <4>2 DEF Period
      <4> QED
        BY <1>3, <2>2, <4>2, <4>3 DEF Covers
    <3> QED
      BY <1>5, <2>2, <3>1, <3>2, <3>3, <3>4
  <2>3. Holder(R, a, x) = None /\ Holder(Q, a, x) = None
    BY <2>1, <2>2, HolderNone
  <2> QED
    BY <1>3, <2>3 DEF R
<1>8. ASSUME NEW p \in InForce(Q, a, x)
      PROVE  IF Holder(Q, a, x) = e /\ x > last
             THEN /\ Holder(R, a, x) \in Owner \ {e}
                  /\ (\A q \in late : q.customer # a) => Holder(R, a, x) = House
             ELSE Holder(R, a, x) = Holder(Q, a, x)
  <2>1. /\ p \in Q /\ p \in Period /\ p.from \in Int /\ p.to \in Int
        /\ p.customer = a /\ p.from <= x /\ x <= p.to /\ Covers(p, x)
    BY <1>4 DEF InForce, Covers
  <2>2. Holder(Q, a, x) = p.owner
    BY <1>1, <2>1, HolderIs
  <2>3. CASE p \notin late \union running
    <3>1. p \in R
      BY <1>5, <2>1, <2>3
    <3>2. Holder(R, a, x) = p.owner
      BY <1>2, <2>1, <3>1, HolderIs
    <3>3. ~(p.owner = e /\ x > last)
      BY <1>3, <1>6, <2>1, <2>3
    <3> QED
      BY <2>2, <3>2, <3>3
  <2>4. CASE p \in late
    <3> DEFINE n == [p EXCEPT !.owner = Heir(Q, e, last, p)]
    <3>1. /\ n \in R /\ n.customer = a /\ n.owner = Heir(Q, e, last, p)
          /\ n.from = p.from /\ n.to = p.to
      BY <1>5, <2>1, <2>4 DEF Period
    <3> HIDE DEF n
    <3>2. Covers(n, x)
      BY <2>1, <3>1 DEF Covers
    <3>3. Holder(R, a, x) = Heir(Q, e, last, p)
      BY <1>2, <3>1, <3>2, HolderIs
    <3>4. p.owner = e /\ x > last
      BY <1>3, <1>6, <2>1, <2>4
    <3> QED
      BY <2>1, <2>2, <2>4, <3>3, <3>4, HeirType
  <2>5. CASE p \in running /\ x <= last
    <3> DEFINE n == [p EXCEPT !.to = last]
    <3>1. n \in R /\ n.customer = a /\ n.owner = p.owner /\ n.from = p.from /\ n.to = last
      BY <1>5, <2>1, <2>5 DEF Period
    <3> HIDE DEF n
    <3>2. Covers(n, x)
      BY <2>1, <2>5, <3>1 DEF Covers
    <3>3. Holder(R, a, x) = p.owner
      BY <1>2, <3>1, <3>2, HolderIs
    <3> QED
      BY <1>3, <2>2, <2>5, <3>3
  <2>6. CASE p \in running /\ x > last
    <3> DEFINE n == [p EXCEPT !.owner = House, !.from = last + 1]
    <3>1. n \in R /\ n.customer = a /\ n.owner = House /\ n.from = last + 1 /\ n.to = p.to
      BY <1>5, <2>1, <2>6 DEF Period
    <3> HIDE DEF n
    <3>2. Covers(n, x)
      BY <1>3, <2>1, <2>6, <3>1 DEF Covers
    <3>3. Holder(R, a, x) = House
      BY <1>2, <3>1, <3>2, HolderIs
    <3> QED
      BY <1>3, <1>6, <2>2, <2>6, <3>3
  <2> QED
    BY <1>3, <2>3, <2>4, <2>5, <2>6
<1> QED
  BY <1>7, <1>8 DEF R, late

LEMMA LeavingIsLeave ==
    ASSUME TypeOK, OneOwnerAtATime, NEW e \in Employee, NEW d \in Day, EmployeeLeaves(e, d)
    PROVE  Timeline!Leave(e, d)
<1> DEFINE tl == [a \in Customer |-> [x \in Day |-> OwnerOn(a, x)]]
<1>1. periods' = Vacated(periods, e, d) /\ d < MaxDay
  BY DEF EmployeeLeaves
<1>2. ASSUME NEW a \in Customer, NEW x \in Day
      PROVE  IF tl[a][x] = e /\ x > d
             THEN tl'[a][x] \in (Employee \union HouseAccount) \ {e}
             ELSE tl'[a][x] = tl[a][x]
  <2>1. tl'[a][x] = Holder(Vacated(periods, e, d), a, x)
    BY <1>1, HolderNext
  <2>2. tl[a][x] = OwnerOn(a, x)
    OBVIOUS
  <2> HIDE DEF tl
  <2> QED
    BY <1>1, <2>1, <2>2, VacatedOwner, HolderNow, NoOverlapNow DEF Owner, TypeOK
<1>3. left[e] \in {None, d} /\ left' = [left EXCEPT ![e] = d]
  BY DEF EmployeeLeaves
<1>4. Timeline!Day = Day
  BY DEF Timeline!Day, Day
<1> QED
  BY <1>2, <1>3, <1>4 DEF Timeline!Leave

-----------------------------------------------------------------------------
(* A period is loaded from a file. *)

LastDay(p) == IF p.to < MaxDay THEN p.to ELSE MaxDay

LEMMA LoadingIsRecord ==
    ASSUME TypeOK, OneOwnerAtATime, OneOwnerAtATime', NEW p \in Filed, LoadAccountAllocation(p)
    PROVE  LastDay(p) \in Day /\ Timeline!Record(p.customer, p.owner, p.from, LastDay(p))
<1> DEFINE tl == [a \in Customer |-> [x \in Day |-> OwnerOn(a, x)]]
           in == p.from .. LastDay(p)
<1>1. p \in Period /\ periods \in SUBSET Period /\ NoOverlap(periods)
  BY OwnerAssumption, NoOverlapNow DEF TypeOK
<1>2. periods' = periods \union {p} /\ periods' \in SUBSET Period /\ NoOverlap(periods')
  BY <1>1, NoOverlapNext DEF LoadAccountAllocation
<1>3. /\ p.customer \in Customer /\ p.owner \in Owner /\ p.from \in Day
      /\ p.from \in Int /\ p.to \in Int /\ p.from <= p.to /\ MaxDay \in Int
  BY <1>1, PeriodFacts, OwnerAssumption
<1>4. LastDay(p) \in Day /\ in \subseteq Day
  BY <1>3 DEF LastDay, Day
<1>5. \A x \in Day : x \in in <=> Covers(p, x)
  BY <1>3 DEF LastDay, Covers, Day
<1> HIDE DEF in
<1>6. ASSUME NEW x \in in
      PROVE  OwnerOn(p.customer, x) = None
  <2>1. ASSUME NEW q \in periods, q.customer = p.customer, Covers(q, x)
        PROVE  FALSE
    <3>1. q.from \in Int /\ q.to \in Int /\ x \in Int /\ Covers(p, x)
      BY <1>1, <1>4, <1>5, PeriodFacts DEF Day
    <3>2. q.to < p.from \/ p.to < q.from
      BY <2>1 DEF LoadAccountAllocation
    <3> QED
      BY <1>3, <2>1, <3>1, <3>2 DEF Covers
  <2> QED
    BY <2>1, HolderNone, HolderNow
<1>7. ASSUME NEW a \in Customer, NEW x \in Day
      PROVE  OwnerOn(a, x)' = IF a = p.customer /\ x \in in THEN p.owner ELSE OwnerOn(a, x)
  <2>1. CASE a = p.customer /\ x \in in
    BY <1>2, <1>5, <2>1, HolderIs, HolderNext
  <2>2. CASE ~(a = p.customer /\ x \in in)
    <3>1. InForce(periods', a, x) = InForce(periods, a, x)
      BY <1>2, <1>5, <2>2 DEF InForce
    <3> QED
      BY <2>2, <3>1, HolderNow, HolderNext DEF Holder
  <2> QED
    BY <2>1, <2>2
<1>8. tl' = [tl EXCEPT ![p.customer] = [x \in Day |-> IF x \in in THEN p.owner ELSE @[x]]]
  <2> DEFINE new == [x \in Day |-> IF x \in in THEN p.owner ELSE tl[p.customer][x]]
  <2>1. tl'[p.customer] = new
    BY <1>3, <1>7
  <2>2. \A a \in Customer \ {p.customer} : tl'[a] = tl[a]
    BY <1>7
  <2> QED
    BY <2>1, <2>2
<1>9. \A x \in in : tl[p.customer][x] = None
  BY <1>3, <1>4, <1>6
<1>10. UNCHANGED left /\ Timeline!Day = Day
  BY DEF LoadAccountAllocation, Timeline!Day, Day
<1> HIDE DEF tl
<1> QED
  BY <1>4, <1>8, <1>9, <1>10 DEF Timeline!Record, tl, in

-----------------------------------------------------------------------------
(* Refinement. *)

LEMMA SamePeriods == UNCHANGED <<periods, left>> => UNCHANGED Timeline!vars
<1> SUFFICES ASSUME UNCHANGED <<periods, left>>
             PROVE  UNCHANGED Timeline!vars
  OBVIOUS
<1>1. \A c \in Customer, d \in Day : OwnerOn(c, d)' = OwnerOn(c, d)
  BY HolderNow, HolderNext
<1> QED
  BY <1>1 DEF Timeline!vars

LEMMA PassingImplements ==
    ASSUME TypeOK, OneOwnerAtATime,
           NEW c \in Customer, NEW w \in Owner, NEW d \in Day,
           w \in Employee => Active(w), PassAccount(c, w, d), UNCHANGED left
    PROVE  [Timeline!Next]_(Timeline!vars)
<1>1. CASE UNCHANGED periods
  BY <1>1, SamePeriods
<1>2. CASE ~ChangesAfter(c, d) /\ periods' = PassedTo(c, w, d)
  BY <1>2, PassIsGive DEF Timeline!Next, Timeline!Day, Day, Owner
<1> QED
  BY <1>1, <1>2 DEF PassAccount

LEMMA NextImplements ==
    TypeOK /\ OneOwnerAtATime /\ OneOwnerAtATime' /\ [Next]_vars
        => [Timeline!Next]_(Timeline!vars)
<1> SUFFICES ASSUME TypeOK, OneOwnerAtATime, OneOwnerAtATime', [Next]_vars
             PROVE  [Timeline!Next]_(Timeline!vars)
  OBVIOUS
<1>1. ASSUME NEW c \in Customer, NEW e \in Employee, NEW d \in Day,
             NEW cover \in (Employee \ {e}) \union {None}, TakeAccountForOrder(c, e, d, cover)
      PROVE  [Timeline!Next]_(Timeline!vars)
  <2>1. CASE UNCHANGED periods
    BY <1>1, <2>1, SamePeriods DEF TakeAccountForOrder
  <2>2. CASE Active(e) /\ PassAccount(c, e, d)
    BY <1>1, <2>2, PassingImplements DEF TakeAccountForOrder, Owner
  <2> QED
    BY <1>1, <2>1, <2>2 DEF TakeAccountForOrder
<1>2. ASSUME NEW c \in Customer, NEW e \in Employee, NEW d \in Day, AllocateAccount(c, e, d)
      PROVE  [Timeline!Next]_(Timeline!vars)
  <2>1. ~ChangesAfter(c, d)
    <3> SUFFICES ASSUME NEW p \in periods, p.customer = c, p.from > d
                 PROVE  FALSE
      BY DEF ChangesAfter
    <3>1. p.from < d
      BY <1>2 DEF AllocateAccount
    <3> QED
      BY <3>1, PeriodFacts DEF TypeOK, Day
  <2>2. e \in Owner
    BY DEF Owner
  <2>3. Timeline!Give
    BY <1>2, <2>1, <2>2, PassIsGive DEF AllocateAccount
  <2> QED
    BY <2>3 DEF Timeline!Next, Timeline!Day, Day
<1>3. ASSUME NEW c \in Customer, NEW w \in Owner, NEW d \in Day, SetAccountOwner(c, w, d)
      PROVE  [Timeline!Next]_(Timeline!vars)
  BY <1>3, PassingImplements DEF SetAccountOwner
<1>4. ASSUME NEW e \in Employee, NEW d \in Day, EmployeeLeaves(e, d)
      PROVE  [Timeline!Next]_(Timeline!vars)
  BY <1>4, LeavingIsLeave DEF Timeline!Next, Timeline!Day, Day
<1>5. ASSUME NEW p \in Filed, LoadAccountAllocation(p)
      PROVE  [Timeline!Next]_(Timeline!vars)
  <2>1. p.customer \in Customer /\ p.owner \in Employee \union HouseAccount /\ p.from \in Timeline!Day
    BY OwnerAssumption, PeriodFacts DEF Owner, Timeline!Day, Day
  <2>2. LastDay(p) \in Timeline!Day /\ Timeline!Record(p.customer, p.owner, p.from, LastDay(p))
    BY <1>5, LoadingIsRecord DEF Timeline!Day, Day
  <2> QED
    BY <2>1, <2>2 DEF Timeline!Next
<1>6. ASSUME NEW a \in Absence, RecordAbsence(a)
      PROVE  [Timeline!Next]_(Timeline!vars)
  BY <1>6, SamePeriods DEF RecordAbsence
<1>7. CASE UNCHANGED vars
  BY <1>7, SamePeriods DEF vars
<1> QED
  BY <1>1, <1>2, <1>3, <1>4, <1>5, <1>6, <1>7 DEF Next

LEMMA InitImplements == Init => Timeline!Init
<1> SUFFICES ASSUME Init
             PROVE  Timeline!Init
  OBVIOUS
<1>1. \A c \in Customer, d \in Day : OwnerOn(c, d) = None
  BY DEF Init, OwnerOn, AllocationOn
<1>2. Timeline!Day = Day /\ left = [e \in Employee |-> None]
  BY DEF Init, Timeline!Day, Day
<1> QED
  BY <1>1, <1>2 DEF Timeline!Init

(* Approvals, hand-overs, leavers and files, in any order, implement the   *)
(* timeline: none leaves a day without owner that had one; approvals and   *)
(* hand-overs rewrite no day before the one they are about, go behind no   *)
(* later change and pass the account to nobody who has left; a leaver's    *)
(* days after the last one all pass to others, who may have left as well,  *)
(* and no other day does; a file fills days nobody had.                    *)
THEOREM RoutinesImplementTimeline == Spec => ImplementsTimeline
<1>1. Spec => [](TypeOK /\ OneOwnerAtATime)
  BY TypeCorrect, OneOwnerAlways, PTL
<1> QED
  BY <1>1, InitImplements, NextImplements, PTL DEF Spec, ImplementsTimeline, Timeline!Spec

=============================================================================

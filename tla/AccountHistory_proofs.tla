------------------------ MODULE AccountHistory_proofs ------------------------
(***************************************************************************)
(* The history built from the Register follows the Register, whatever it   *)
(* holds, however many customers and leavers there are and in whatever     *)
(* order the leavers are applied; and what Ownership_proofs and            *)
(* Timeline_proofs say of the other routines holds with the build, too.    *)
(***************************************************************************)
EXTENDS AccountHistory, Timeline_proofs, FiniteSetTheorems, SequenceTheorems

Reading == INSTANCE LeftFold WITH Op <- ReadRow
Leaving == INSTANCE LeftFold WITH Op <- ApplyLeaver

-----------------------------------------------------------------------------
(* The first and the last of a set of row numbers. *)

LEMMA MaxIs ==
    ASSUME NEW S \in SUBSET Nat, NEW m \in S, \A n \in S : n <= m
    PROVE  Max(S) = m
<1>1. \A x \in S : (\A y \in S : x >= y) => x = m
  OBVIOUS
<1>2. \A y \in S : m >= y
  OBVIOUS
<1> QED
  BY <1>1, <1>2 DEF Max

LEMMA MinIs ==
    ASSUME NEW S \in SUBSET Nat, NEW m \in S, \A n \in S : m <= n
    PROVE  Min(S) = m
<1>1. \A x \in S : (\A y \in S : x =< y) => x = m
  OBVIOUS
<1>2. \A y \in S : m =< y
  OBVIOUS
<1> QED
  BY <1>1, <1>2 DEF Min

-----------------------------------------------------------------------------
(* What the Register says after its first k rows. *)

ByThen(rows, k, d) == {i \in 1 .. k : rows[i].label # None /\ rows[i].day <= d}

Named(rows, k, d) == {i \in ByThen(rows, k, d) : IsNamed(rows[i])}

LabelBy(rows, k, d) ==
    IF Named(rows, k, d) = {} THEN OwnerIn(rows[Min(ByThen(rows, k, d))])
    ELSE rows[Max(Named(rows, k, d))].label

(* The rows of a customer, in order, all of them with labels that are      *)
(* mapped.                                                                 *)
Rows(rows) ==
    /\ rows \in Seq(RegisterRow)
    /\ \A i, j \in DOMAIN rows : i < j => rows[i].day <= rows[j].day
    /\ Buildable(rows)

LEMMA RowFacts ==
    ASSUME NEW rows, Rows(rows)
    PROVE  /\ Len(rows) \in Nat /\ DOMAIN rows = 1 .. Len(rows)
           /\ \A i \in 1 .. Len(rows) :
                 /\ rows[i].day \in Day /\ rows[i].day \in Int
                 /\ rows[i].label \in Owner \union {None}
                 /\ rows[i].label # None => OwnerIn(rows[i]) \in Owner
                 /\ IsNamed(rows[i]) => OwnerIn(rows[i]) = rows[i].label /\ rows[i].label # None
                 /\ \A j \in 1 .. Len(rows) : i < j => rows[i].day <= rows[j].day
<1>1. Len(rows) \in Nat /\ DOMAIN rows = 1 .. Len(rows)
  BY DEF Rows
<1>2. ASSUME NEW i \in 1 .. Len(rows)
      PROVE  rows[i] \in RegisterRow /\ rows[i].label # Unmapped
  BY <1>1, <1>2 DEF Rows, Buildable
<1>3. House \in Owner /\ House \notin Employee /\ None \notin Employee /\ Day \subseteq Int
  BY OwnerAssumption DEF Owner, Day
<1>4. ASSUME NEW i \in 1 .. Len(rows)
      PROVE  /\ rows[i].day \in Day /\ rows[i].day \in Int
             /\ rows[i].label \in Owner \union {None}
             /\ rows[i].label # None => OwnerIn(rows[i]) \in Owner
             /\ IsNamed(rows[i]) => OwnerIn(rows[i]) = rows[i].label /\ rows[i].label # None
  <2>1. rows[i].day \in Day /\ rows[i].label \in Owner \union {None}
    BY <1>2 DEF RegisterRow
  <2> QED
    BY <1>3, <2>1 DEF OwnerIn, IsNamed
<1>5. \A i, j \in 1 .. Len(rows) : i < j => rows[i].day <= rows[j].day
  BY <1>1 DEF Rows
<1> QED
  BY <1>1, <1>4, <1>5

(* A row only says something of the days from its own on. *)
LEMMA RowSays ==
    ASSUME NEW rows, Rows(rows), NEW k \in 1 .. Len(rows), rows[k].label # None, NEW d \in Day
    PROVE  /\ d < rows[k].day => /\ ByThen(rows, k, d) = ByThen(rows, k - 1, d)
                                 /\ LabelBy(rows, k, d) = LabelBy(rows, k - 1, d)
           /\ d >= rows[k].day =>
                 /\ ByThen(rows, k, d) # {}
                 /\ LabelBy(rows, k, d) =
                       IF IsNamed(rows[k]) \/ ByThen(rows, k - 1, d) = {} THEN OwnerIn(rows[k])
                       ELSE LabelBy(rows, k - 1, d)
<1>1. /\ k \in Int /\ k - 1 \in Int /\ d \in Int /\ rows[k].day \in Int
      /\ 1 .. k - 1 \subseteq 1 .. k /\ k \in 1 .. k /\ k \notin 1 .. k - 1
      /\ \A i \in 1 .. k : i \in Nat /\ i <= k /\ (i = k \/ i \in 1 .. k - 1)
  BY RowFacts DEF Day
<1> DEFINE b == ByThen(rows, k, d)
           b0 == ByThen(rows, k - 1, d)
           n == Named(rows, k, d)
           n0 == Named(rows, k - 1, d)
<1>2. CASE d < rows[k].day
  <2>1. b = b0
    BY <1>1, <1>2 DEF ByThen
  <2>2. n = n0
    BY <2>1 DEF Named
  <2> QED
    BY <1>1, <1>2, <2>1, <2>2 DEF LabelBy
<1>3. CASE d >= rows[k].day
  <2>1. b = b0 \union {k} /\ b0 \in SUBSET Nat /\ b \in SUBSET Nat /\ \A i \in b : i <= k
    BY <1>1, <1>3 DEF ByThen
  <2>2. n = IF IsNamed(rows[k]) THEN n0 \union {k} ELSE n0
    BY <2>1 DEF Named
  <2>3. n \subseteq b /\ n0 \subseteq b0
    BY DEF Named
  <2> HIDE DEF b, b0, n, n0
  <2>4. CASE IsNamed(rows[k])
    <3>1. Max(n) = k
      BY <2>1, <2>2, <2>3, <2>4, MaxIs
    <3> QED
      BY <1>1, <1>3, <2>1, <2>2, <2>4, <3>1, RowFacts DEF LabelBy, b, n
  <2>5. CASE ~IsNamed(rows[k]) /\ b0 = {}
    <3>1. Min(b) = k
      BY <2>1, <2>5, MinIs
    <3> QED
      BY <1>1, <1>3, <2>1, <2>2, <2>3, <2>5, <3>1 DEF LabelBy, b, b0, n
  <2>6. CASE ~IsNamed(rows[k]) /\ b0 # {}
    <3>1. PICK m \in b0 : \A i \in b0 : m <= i
      BY <2>1, <2>6, Reading!LeastNat
    <3>2. m <= k
      BY <2>1
    <3>3. Min(b) = m /\ Min(b0) = m
      BY <2>1, <3>1, <3>2, MinIs
    <3> QED
      BY <1>1, <1>3, <2>1, <2>2, <2>6, <3>3 DEF LabelBy, b, b0, n, n0
  <2> QED
    BY <2>4, <2>5, <2>6
<1> QED
  BY <1>1, <1>2, <1>3

(* A row without salesperson says nothing. *)
LEMMA EmptyRow ==
    ASSUME NEW rows, NEW k \in Nat \ {0}, rows[k].label = None, NEW d
    PROVE  /\ ByThen(rows, k, d) = ByThen(rows, k - 1, d)
           /\ LabelBy(rows, k, d) = LabelBy(rows, k - 1, d)
<1>1. \A i \in 1 .. k : i = k \/ i \in 1 .. k - 1
  OBVIOUS
<1>2. 1 .. k - 1 \subseteq 1 .. k
  OBVIOUS
<1>3. ByThen(rows, k, d) = ByThen(rows, k - 1, d)
  BY <1>1, <1>2 DEF ByThen
<1> QED
  BY <1>3 DEF LabelBy, Named

-----------------------------------------------------------------------------
(* The periods found so far: they are in order, none starts after the last *)
(* day of its owner or after a row that is still to come, and each day has *)
(* the owner that the rows so far say.                                     *)

StartRecord == [owner : Owner, from : Day]

InPlace(s, i, d) == s[i].from <= d /\ (i < Len(s) => d < s[i + 1].from)

InTime(w, d) == w \in Employee /\ ~Active(w) => d <= left[w]

Faithful(rows, k, s) ==
    /\ s \in Seq(StartRecord)
    /\ \A i, j \in DOMAIN s : i < j => s[i].from < s[j].from
    /\ \A i \in DOMAIN s : /\ \A j \in k + 1 .. Len(rows) : s[i].from <= rows[j].day
                           /\ InTime(s[i].owner, s[i].from)
    /\ \A d \in Day : ByThen(rows, k, d) = {} <=> \A i \in DOMAIN s : d < s[i].from
    /\ \A d \in Day, i \in DOMAIN s : InPlace(s, i, d) => LabelBy(rows, k, d) = s[i].owner

LEMMA StartFacts ==
    ASSUME NEW s \in Seq(StartRecord)
    PROVE  /\ Len(s) \in Nat /\ DOMAIN s = 1 .. Len(s)
           /\ \A i \in 1 .. Len(s) : s[i].owner \in Owner /\ s[i].from \in Day /\ s[i].from \in Int
<1>1. \A i \in 1 .. Len(s) : s[i] \in StartRecord
  OBVIOUS
<1> QED
  BY <1>1 DEF StartRecord, Day

(* The owner that a row stands for is still here that day. *)
LEMMA OwnerInTime ==
    ASSUME NEW row, row.day \in Day, left \in [Employee -> Day \union {None}]
    PROVE  InTime(OwnerIn(row), row.day)
<1>1. House \notin Employee
  BY OwnerAssumption
<1>2. \A e \in Employee : ~Active(e) => left[e] \in Int
  BY DEF Active, Day
<1> QED
  BY <1>1, <1>2 DEF InTime, OwnerIn, Day

LEMMA NothingRead ==
    ASSUME NEW rows, Rows(rows)
    PROVE  Faithful(rows, 0, <<>>)
BY DEF Faithful, ByThen

(* The row k starts a period, in place of one that starts the same day or  *)
(* after all: m periods of s stay.                                         *)
StartsAfter(rows, k, s, n, m) ==
    /\ n \in Seq(StartRecord) /\ m \in Nat /\ Len(n) = m + 1
    /\ n[m + 1] = [owner |-> OwnerIn(rows[k]), from |-> rows[k].day]
    /\ \A i \in 1 .. m : n[i] = s[i] /\ s[i].from < rows[k].day
    /\ \/ m = Len(s)
       \/ Len(s) = m + 1 /\ s[m + 1].from = rows[k].day

ToRead(rows, k) == Rows(rows) /\ k \in 1 .. Len(rows) /\ rows[k].label # None

LEMMA PeriodStarts ==
    ASSUME left \in [Employee -> Day \union {None}],
           NEW rows, NEW k, ToRead(rows, k),
           NEW s, Faithful(rows, k - 1, s), IsNamed(rows[k]) \/ s = <<>>,
           NEW n, NEW m, StartsAfter(rows, k, s, n, m)
    PROVE  Faithful(rows, k, n)
<1> DEFINE D == rows[k].day
<1>1. /\ Rows(rows) /\ k \in 1 .. Len(rows) /\ rows[k].label # None
      /\ k \in Int /\ Len(rows) \in Nat /\ D \in Int /\ D \in Day
  BY RowFacts DEF ToRead
<1>2. m \in Nat /\ Len(s) \in Nat /\ (m = Len(s) \/ Len(s) = m + 1)
  BY StartFacts DEF Faithful, StartsAfter
<1>3. /\ \A i \in 1 .. m + 1 : i = m + 1 \/ i \in 1 .. m
      /\ \A i \in 1 .. m : i \in 1 .. Len(s) /\ i \in 1 .. m + 1
      /\ \A i \in 1 .. Len(s) : i \in 1 .. m \/ (i = m + 1 /\ m # Len(s))
      /\ \A i \in 1 .. m : i < Len(s) => i + 1 \in 1 .. Len(s)
  BY <1>2
<1>4. Len(n) = m + 1 /\ DOMAIN n = 1 .. m + 1 /\ DOMAIN s = 1 .. Len(s)
  BY StartFacts DEF Faithful, StartsAfter
<1>5. /\ \A i \in 1 .. m : n[i] = s[i] /\ s[i].from < D
      /\ m # Len(s) => s[m + 1].from = D
      /\ n[m + 1].from = D /\ n[m + 1].owner = OwnerIn(rows[k])
  BY DEF StartsAfter
<1>6. (\A i \in DOMAIN n : n[i].from \in Int) /\ (\A i \in DOMAIN s : s[i].from \in Int)
  BY <1>4, StartFacts DEF Faithful, StartsAfter
<1>7. /\ \A j \in k + 1 .. Len(rows) : D <= rows[j].day
      /\ InTime(OwnerIn(rows[k]), D)
  <2>1. \A j \in k + 1 .. Len(rows) : j \in 1 .. Len(rows) /\ k < j
    BY <1>1
  <2> QED
    BY <1>1, <2>1, RowFacts, OwnerInTime
<1>8. ASSUME NEW d \in Day
      PROVE  /\ d \in Int
             /\ d < D => /\ ByThen(rows, k, d) = ByThen(rows, k - 1, d)
                         /\ LabelBy(rows, k, d) = LabelBy(rows, k - 1, d)
             /\ d >= D => /\ ByThen(rows, k, d) # {}
                          /\ LabelBy(rows, k, d) = OwnerIn(rows[k])
  <2>1. IsNamed(rows[k]) \/ ByThen(rows, k - 1, d) = {}
    BY DEF Faithful
  <2> QED
    BY <1>1, <2>1, RowSays DEF Day
<1>9. /\ \A i, j \in DOMAIN s : i < j => s[i].from < s[j].from
      /\ \A i \in DOMAIN s : \A j \in (k - 1) + 1 .. Len(rows) : s[i].from <= rows[j].day
      /\ \A i \in DOMAIN s : InTime(s[i].owner, s[i].from)
      /\ \A d \in Day : ByThen(rows, k - 1, d) = {} <=> \A i \in DOMAIN s : d < s[i].from
      /\ \A d \in Day, i \in DOMAIN s : InPlace(s, i, d) => LabelBy(rows, k - 1, d) = s[i].owner
  BY DEF Faithful
<1> HIDE DEF D
<1>10. ASSUME NEW i \in DOMAIN n, NEW j \in DOMAIN n, i < j
       PROVE  n[i].from < n[j].from
  <2>1. i \in 1 .. m
    <3>1. i \in 1 .. m + 1 /\ j \in 1 .. m + 1 /\ i < j
      BY <1>4, <1>10
    <3> QED
      BY <1>2, <3>1
  <2>2. CASE j = m + 1
    BY <1>5, <2>1, <2>2
  <2>3. CASE j \in 1 .. m
    BY <1>3, <1>4, <1>5, <1>9, <1>10, <2>1, <2>3
  <2> QED
    BY <1>3, <1>4, <2>2, <2>3
<1>11. ASSUME NEW i \in DOMAIN n
       PROVE  /\ \A j \in k + 1 .. Len(rows) : n[i].from <= rows[j].day
              /\ InTime(n[i].owner, n[i].from)
  <2>1. CASE i = m + 1
    BY <1>5, <1>7, <2>1
  <2>2. CASE i \in 1 .. m
    <3>1. k + 1 .. Len(rows) \subseteq (k - 1) + 1 .. Len(rows)
      BY <1>1
    <3>2. i \in DOMAIN s /\ n[i] = s[i]
      BY <1>3, <1>4, <1>5, <2>2
    <3> QED
      BY <1>9, <3>1, <3>2
  <2> QED
    BY <1>3, <1>4, <2>1, <2>2
<1>12. ASSUME NEW d \in Day
       PROVE  ByThen(rows, k, d) = {} <=> \A i \in DOMAIN n : d < n[i].from
  <2>1. CASE d < D
    <3>1. ASSUME \A i \in DOMAIN n : d < n[i].from, NEW i \in DOMAIN s
          PROVE  d < s[i].from
      <4>1. CASE i \in 1 .. m
        BY <1>3, <1>4, <1>5, <3>1, <4>1
      <4>2. CASE i = m + 1 /\ m # Len(s)
        BY <1>5, <2>1, <4>2
      <4> QED
        BY <1>3, <1>4, <4>1, <4>2
    <3>2. ASSUME \A i \in DOMAIN s : d < s[i].from, NEW i \in DOMAIN n
          PROVE  d < n[i].from
      <4>1. CASE i \in 1 .. m
        BY <1>3, <1>4, <1>5, <3>2, <4>1
      <4>2. CASE i = m + 1
        BY <1>5, <2>1, <4>2
      <4> QED
        BY <1>3, <1>4, <4>1, <4>2
    <3> QED
      BY <1>8, <1>9, <2>1, <3>1, <3>2
  <2>2. CASE d >= D
    <3>1. m + 1 \in 1 .. m + 1
      BY <1>2
    <3>2. ~(d < n[m + 1].from)
      BY <1>1, <1>5, <1>8, <2>2
    <3> QED
      BY <1>4, <1>8, <2>2, <3>1, <3>2
  <2> QED
    BY <1>1, <1>8, <2>1, <2>2
<1>13. ASSUME NEW d \in Day, NEW i \in DOMAIN n, InPlace(n, i, d)
       PROVE  LabelBy(rows, k, d) = n[i].owner
  <2>1. n[i].from <= d /\ (i \in 1 .. m => d < n[i + 1].from)
    <3>1. i \in 1 .. m => i < m + 1
      BY <1>2
    <3> QED
      BY <1>4, <1>13, <3>1 DEF InPlace
  <2>2. CASE i = m + 1
    <3>1. d >= D
      BY <1>1, <1>5, <1>8, <2>1, <2>2
    <3> QED
      BY <1>5, <1>8, <2>2, <3>1
  <2>3. CASE i \in 1 .. m
    <3>1. i + 1 = m + 1 \/ i + 1 \in 1 .. m
      BY <1>2, <2>3
    <3>2. n[i + 1].from <= D /\ n[i + 1].from \in Int
      <4>1. CASE i + 1 = m + 1
        BY <1>1, <1>5, <4>1
      <4>2. CASE i + 1 \in 1 .. m
        BY <1>1, <1>3, <1>4, <1>5, <1>6, <4>2
      <4> QED
        BY <3>1, <4>1, <4>2
    <3>3. d < D
      <4>1. d \in Int /\ D \in Int
        BY <1>1, <1>8
      <4>2. d < n[i + 1].from
        BY <2>1, <2>3
      <4> QED
        BY <3>2, <4>1, <4>2
    <3>4. i + 1 \in DOMAIN s => s[i + 1].from = n[i + 1].from
      <4>1. CASE i + 1 = m + 1
        <5>1. i + 1 \in DOMAIN s => m # Len(s)
          BY <1>3, <1>4, <2>3, <4>1
        <5> QED
          BY <1>5, <4>1, <5>1
      <4>2. CASE i + 1 \in 1 .. m
        BY <1>5, <4>2
      <4> QED
        BY <3>1, <4>1, <4>2
    <3>5. InPlace(s, i, d)
      <4>1. i < Len(s) => i + 1 \in DOMAIN s
        BY <1>3, <1>4, <2>3
      <4>2. n[i] = s[i]
        BY <1>5, <2>3
      <4> QED
        BY <2>1, <2>3, <3>4, <4>1, <4>2 DEF InPlace
    <3>6. i \in DOMAIN s /\ n[i] = s[i]
      BY <1>3, <1>4, <1>5, <2>3
    <3>7. LabelBy(rows, k - 1, d) = s[i].owner
      BY <1>9, <3>5, <3>6
    <3> QED
      BY <1>8, <3>3, <3>6, <3>7
  <2> QED
    BY <1>3, <1>4, <2>2, <2>3
<1> QED
  BY <1>10, <1>11, <1>12, <1>13 DEF Faithful, StartsAfter

(* A row that does not start a period says nothing new. *)
LEMMA PeriodGoesOn ==
    ASSUME left \in [Employee -> Day \union {None}],
           NEW rows, NEW k, ToRead(rows, k),
           NEW s, Faithful(rows, k - 1, s), s # <<>>,
           IsNamed(rows[k]) => OwnerIn(rows[k]) = Last(s).owner
    PROVE  Faithful(rows, k, s)
<1> DEFINE D == rows[k].day
           last == Len(s)
<1>1. /\ Rows(rows) /\ k \in 1 .. Len(rows) /\ rows[k].label # None
      /\ k \in Int /\ Len(rows) \in Nat /\ D \in Int
  BY RowFacts DEF ToRead
<1>2. last \in Nat /\ DOMAIN s = 1 .. last /\ last \in DOMAIN s
  <2>1. s \in Seq(StartRecord)
    BY DEF Faithful
  <2> QED
    BY <2>1, StartFacts
<1>3. /\ \A i, j \in DOMAIN s : i < j => s[i].from < s[j].from
      /\ \A i \in DOMAIN s : \A j \in (k - 1) + 1 .. Len(rows) : s[i].from <= rows[j].day
      /\ \A i \in DOMAIN s : InTime(s[i].owner, s[i].from) /\ s[i].from \in Int
      /\ \A d \in Day : ByThen(rows, k - 1, d) = {} <=> \A i \in DOMAIN s : d < s[i].from
      /\ \A d \in Day, i \in DOMAIN s : InPlace(s, i, d) => LabelBy(rows, k - 1, d) = s[i].owner
  <2>1. \A i \in DOMAIN s : s[i].from \in Int
    BY StartFacts DEF Faithful
  <2> QED
    BY <2>1 DEF Faithful
<1>4. k \in (k - 1) + 1 .. Len(rows) /\ k + 1 .. Len(rows) \subseteq (k - 1) + 1 .. Len(rows)
  BY <1>1
<1>5. s[last].from <= D
  BY <1>2, <1>3, <1>4
<1>6. IsNamed(rows[k]) => OwnerIn(rows[k]) = s[last].owner
  BY DEF Last
<1> HIDE DEF D
<1>7. ASSUME NEW d \in Day
      PROVE  /\ ByThen(rows, k, d) = {} <=> \A i \in DOMAIN s : d < s[i].from
             /\ \A i \in DOMAIN s : InPlace(s, i, d) => LabelBy(rows, k, d) = s[i].owner
  <2>1. d \in Int /\ (d < D \/ d >= D)
    BY <1>1 DEF Day
  <2>2. CASE d < D
    BY <1>1, <1>3, <2>2, RowSays DEF D
  <2>3. CASE d >= D
    <3>1. ~(d < s[last].from)
      BY <1>1, <1>2, <1>3, <1>5, <2>1, <2>3
    <3>2. ByThen(rows, k - 1, d) # {}
      BY <1>2, <1>3, <3>1
    <3>3. InPlace(s, last, d)
      BY <1>1, <1>2, <1>3, <1>5, <2>1, <2>3 DEF InPlace
    <3>4. LabelBy(rows, k - 1, d) = s[last].owner
      BY <1>2, <1>3, <3>3
    <3>5. ByThen(rows, k, d) # {} /\ LabelBy(rows, k, d) = s[last].owner
      BY <1>1, <1>6, <2>3, <3>2, <3>4, RowSays DEF D
    <3>6. ASSUME NEW i \in DOMAIN s, InPlace(s, i, d)
          PROVE  i = last
      <4> SUFFICES ASSUME i # last PROVE FALSE
        OBVIOUS
      <4>1. i < last /\ i + 1 \in DOMAIN s /\ (i + 1 = last \/ i + 1 < last)
        BY <1>2
      <4>2. d < s[i + 1].from
        BY <3>6, <4>1 DEF InPlace
      <4>3. s[i + 1].from = s[last].from \/ s[i + 1].from < s[last].from
        BY <1>2, <1>3, <4>1
      <4>4. s[i + 1].from \in Int /\ s[last].from \in Int
        BY <1>2, <1>3, <4>1
      <4> QED
        BY <2>1, <3>1, <4>2, <4>3, <4>4
    <3> QED
      BY <1>2, <3>1, <3>5, <3>6
  <2> QED
    BY <2>1, <2>2, <2>3
<1>8. \A i \in DOMAIN s : \A j \in k + 1 .. Len(rows) : s[i].from <= rows[j].day
  BY <1>3, <1>4
<1> QED
  BY <1>3, <1>7, <1>8 DEF Faithful

(* One row after the other. *)
Found(rows, k, h) == Faithful(rows, k, h.starts) /\ h.clashes \subseteq Day

LEMMA RowRead ==
    ASSUME left \in [Employee -> Day \union {None}],
           NEW rows, Rows(rows), NEW k \in 1 .. Len(rows), NEW h, Found(rows, k - 1, h)
    PROVE  Found(rows, k, ReadRow(h, rows[k]))
<1> DEFINE row == rows[k]
           s == h.starts
           start == [owner |-> OwnerIn(row), from |-> row.day]
           n == NextStarts(h, row)
<1>1. /\ k \in Int /\ Len(rows) \in Nat /\ row.day \in Day /\ row.day \in Int
      /\ k \in (k - 1) + 1 .. Len(rows) /\ k + 1 .. Len(rows) \subseteq (k - 1) + 1 .. Len(rows)
  BY RowFacts
<1>2. CASE row.label = None
  <2>1. \A d \in Day : /\ ByThen(rows, k, d) = ByThen(rows, k - 1, d)
                       /\ LabelBy(rows, k, d) = LabelBy(rows, k - 1, d)
    BY <1>2, EmptyRow
  <2>2. Faithful(rows, k, s)
    BY <1>1, <2>1 DEF Found, Faithful
  <2> QED
    BY <1>2, <2>2 DEF ReadRow, Found
<1>3. CASE row.label # None
  <2>1. ToRead(rows, k) /\ start \in StartRecord
    BY <1>3, RowFacts DEF ToRead, StartRecord
  <2>2. Faithful(rows, k - 1, s) /\ s \in Seq(StartRecord)
    BY DEF Found, Faithful
  <2>3. ReadRow(h, row).starts = n /\ ReadRow(h, row).clashes \subseteq Day
    BY <1>1, <1>3 DEF ReadRow, Found
  <2>4. CASE s = <<>>
    <3>1. n = <<start>>
      BY <2>4 DEF NextStarts
    <3>2. StartsAfter(rows, k, s, n, 0)
      BY <2>1, <2>4, <3>1 DEF StartsAfter
    <3> HIDE DEF n
    <3> QED
      BY <2>1, <2>2, <2>3, <2>4, <3>2, PeriodStarts DEF Found
  <2>5. CASE s # <<>> /\ ~TakesOver(h, row)
    <3>1. n = s
      BY <2>5 DEF NextStarts
    <3>2. IsNamed(row) => OwnerIn(row) = Last(s).owner
      BY <2>5 DEF TakesOver
    <3> QED
      BY <2>1, <2>2, <2>3, <2>5, <3>1, <3>2, PeriodGoesOn DEF Found
  <2>6. CASE s # <<>> /\ TakesOver(h, row)
    <3> DEFINE len == Len(s)
    <3>1. len \in Nat /\ len # 0 /\ DOMAIN s = 1 .. len /\ len \in DOMAIN s /\ IsNamed(row)
      BY <2>2, <2>6, StartFacts DEF TakesOver
    <3>2. s[len].from <= row.day /\ s[len].from \in Int
      BY <1>1, <2>2, <3>1, StartFacts DEF Faithful
    <3>3. \A i \in 1 .. len - 1 : i \in DOMAIN s /\ s[i].from < s[len].from /\ s[i].from \in Int
      <4>1. \A i \in 1 .. len - 1 : i \in DOMAIN s /\ i < len
        BY <3>1
      <4>2. \A i, j \in DOMAIN s : i < j => s[i].from < s[j].from
        BY <2>2 DEF Faithful
      <4>3. \A i \in DOMAIN s : s[i].from \in Int
        BY <2>2, StartFacts
      <4> HIDE DEF s, len
      <4> QED
        BY <3>1, <4>1, <4>2, <4>3
    <3>4. CASE s[len].from = row.day
      <4>1. n = Append(Front(s), start)
        BY <2>6, <3>4 DEF NextStarts, Last
      <4>2. /\ Front(s) \in Seq(StartRecord) /\ Len(Front(s)) = len - 1
            /\ \A i \in 1 .. len - 1 : Front(s)[i] = s[i]
        BY <2>2, <3>1, SubSeqProperties DEF Front
      <4>3. /\ n \in Seq(StartRecord) /\ Len(n) = (len - 1) + 1 /\ n[(len - 1) + 1] = start
            /\ \A i \in 1 .. len - 1 : n[i] = s[i]
        BY <2>1, <4>1, <4>2, AppendProperties
      <4>4. len - 1 \in Nat /\ (len - 1) + 1 = len
        BY <3>1
      <4> HIDE DEF n
      <4>5. StartsAfter(rows, k, s, n, len - 1)
        BY <3>2, <3>3, <3>4, <4>3, <4>4 DEF StartsAfter
      <4> QED
        BY <2>1, <2>2, <2>3, <3>1, <4>5, PeriodStarts DEF Found
    <3>5. CASE s[len].from # row.day
      <4>1. n = Append(s, start)
        BY <2>6, <3>5 DEF NextStarts, Last
      <4>2. /\ n \in Seq(StartRecord) /\ Len(n) = len + 1 /\ n[len + 1] = start
            /\ \A i \in 1 .. len : n[i] = s[i]
        BY <2>1, <2>2, <4>1, AppendProperties
      <4>3. \A i \in 1 .. len : s[i].from < row.day
        <5>1. \A i \in 1 .. len : i = len \/ i \in 1 .. len - 1
          BY <3>1
        <5> HIDE DEF s, len, row
        <5>2. s[len].from < row.day
          BY <1>1, <3>2, <3>5
        <5> QED
          BY <1>1, <3>2, <3>3, <5>1, <5>2
      <4> HIDE DEF n
      <4>4. StartsAfter(rows, k, s, n, len)
        BY <3>1, <4>2, <4>3 DEF StartsAfter
      <4> QED
        BY <2>1, <2>2, <2>3, <3>1, <4>4, PeriodStarts DEF Found
    <3> QED
      BY <3>4, <3>5
  <2> QED
    BY <2>4, <2>5, <2>6
<1> QED
  BY <1>2, <1>3

LEMMA HistoryFound ==
    ASSUME left \in [Employee -> Day \union {None}], NEW rows, Rows(rows)
    PROVE  Found(rows, Len(rows), History(rows))
<1> DEFINE len == Len(rows)
<1>1. len \in Nat /\ DOMAIN rows = 1 .. len
  BY RowFacts
<1> HIDE DEF len
<1>2. PICK f : Reading!Loop(f, Start, rows, len) /\ Reading!Fold(Start, rows) = f[len]
  BY <1>1, Reading!FoldIsLoop
<1>3. History(rows) = f[len]
  BY <1>2 DEF History, Reading!Fold, FoldLeft, Reading!FoldLeft, MapThenFoldSet,
              Reading!MapThenFoldSet, Max, Reading!Max
<1> DEFINE Bad == {k \in 0 .. len : ~Found(rows, k, f[k])}
<1>4. Bad = {}
  <2> SUFFICES ASSUME Bad # {} PROVE FALSE
    OBVIOUS
  <2>1. PICK m \in Bad : \A k \in Bad : m <= k
    <3>1. Bad \subseteq Nat
      BY <1>1
    <3> HIDE DEF Bad
    <3> QED
      BY <3>1, Reading!LeastNat
  <2>2. m # 0
    BY <1>2, <2>1, NothingRead DEF Reading!Loop, Start, Found
  <2>3. m \in 1 .. len /\ m - 1 \in 0 .. len /\ m - 1 \notin Bad
    BY <1>1, <2>1, <2>2
  <2>4. Found(rows, m - 1, f[m - 1])
    BY <2>3
  <2>5. Found(rows, m, f[m])
    BY <1>2, <2>3, <2>4, RowRead DEF Reading!Loop, len
  <2> QED
    BY <2>1, <2>5
<1>5. len \in 0 .. len
  BY <1>1
<1> QED
  BY <1>3, <1>4, <1>5 DEF len

-----------------------------------------------------------------------------
(* The periods of a history: each lasts to the day before the next.        *)

LEMMA PeriodsFound ==
    ASSUME NEW rows, Rows(rows), NEW c \in Customer, NEW s, Faithful(rows, Len(rows), s)
    PROVE  LET Q == PeriodsFrom(c, s) IN
           /\ Q \in SUBSET Period /\ NoOverlap(Q)
           /\ \A p \in Q : p.customer = c /\ InTime(p.owner, p.from)
           /\ \A d \in Day :
                 IF ByThen(rows, Len(rows), d) = {} THEN Holder(Q, c, d) = None
                 ELSE Holder(Q, c, d) = LabelBy(rows, Len(rows), d) /\ Holder(Q, c, d) \in Owner
<1> DEFINE len == Len(s)
           To(i) == IF i < len THEN s[i + 1].from - 1 ELSE Forever
           P(i) == [customer |-> c, owner |-> s[i].owner, from |-> s[i].from, to |-> To(i)]
           Q == PeriodsFrom(c, s)
           k == Len(rows)
<1>1. len \in Nat /\ DOMAIN s = 1 .. len
  BY StartFacts DEF Faithful
<1>2. \A i \in 1 .. len : s[i].owner \in Owner /\ s[i].from \in Day /\ s[i].from \in Int
  BY StartFacts DEF Faithful
<1>3. /\ \A i, j \in 1 .. len : i < j => s[i].from < s[j].from
      /\ \A i \in 1 .. len : InTime(s[i].owner, s[i].from)
      /\ \A d \in Day : ByThen(rows, k, d) = {} <=> \A i \in 1 .. len : d < s[i].from
      /\ \A d \in Day, i \in 1 .. len : InPlace(s, i, d) => LabelBy(rows, k, d) = s[i].owner
  BY <1>1 DEF Faithful
<1>4. Q = {P(i) : i \in 1 .. len}
  BY <1>1 DEF PeriodsFrom
<1>5. MaxDay \in Int /\ Forever \in Int /\ \A d \in Day : d \in Int /\ 1 <= d /\ d < Forever
  BY OwnerAssumption DEF Day, Forever
<1>6. ASSUME NEW i \in 1 .. len
      PROVE  /\ To(i) \in Int /\ s[i].from <= To(i) /\ To(i) <= Forever
             /\ \A d \in Day : d <= To(i) <=> (i < len => d < s[i + 1].from)
  <2>1. CASE i < len
    <3>1. i + 1 \in 1 .. len /\ i < i + 1
      BY <1>1, <2>1
    <3>2. s[i].from < s[i + 1].from
      BY <1>3, <3>1
    <3>3. s[i].from \in Int /\ s[i + 1].from \in Int /\ s[i + 1].from < Forever
      BY <1>2, <1>5, <3>1
    <3>4. To(i) = s[i + 1].from - 1
      BY <2>1
    <3> HIDE DEF To, len
    <3> QED
      BY <1>5, <2>1, <3>2, <3>3, <3>4
  <2>2. CASE ~(i < len)
    <3>1. To(i) = Forever /\ s[i].from < Forever
      BY <1>2, <1>5, <2>2
    <3> HIDE DEF To, len
    <3> QED
      BY <1>2, <1>5, <2>2, <3>1
  <2> QED
    BY <2>1, <2>2
<1>7. ASSUME NEW i \in 1 .. len, NEW j \in 1 .. len, i < j
      PROVE  To(i) < s[j].from
  <2>1. i + 1 \in 1 .. len /\ (i + 1 = j \/ i + 1 < j) /\ i < len
    BY <1>1, <1>7
  <2>2. s[i + 1].from = s[j].from \/ s[i + 1].from < s[j].from
    BY <1>3, <2>1
  <2>3. To(i) = s[i + 1].from - 1 /\ s[i + 1].from \in Int /\ s[j].from \in Int
    BY <1>2, <2>1
  <2> HIDE DEF To
  <2> QED
    BY <2>2, <2>3
<1>8. ASSUME NEW p \in Q
      PROVE  /\ p \in Period /\ p.customer = c /\ InTime(p.owner, p.from)
             /\ \E i \in 1 .. len : p = P(i)
  <2>1. PICK i \in 1 .. len : p = P(i)
    BY <1>4
  <2>2. To(i) \in 1 .. Forever
    BY <1>2, <1>5, <1>6 DEF Day
  <2>3. s[i].owner \in Owner /\ s[i].from \in Day /\ s[i].from <= To(i)
    BY <1>2, <1>6
  <2> HIDE DEF To
  <2>4. P(i) \in Period
    BY <2>2, <2>3 DEF Period
  <2> QED
    BY <1>3, <2>1, <2>4
<1>9. NoOverlap(Q)
  <2> SUFFICES ASSUME NEW p \in Q, NEW q \in Q, p # q
               PROVE  Apart(p, q)
    BY DEF NoOverlap
  <2>1. PICK i \in 1 .. len : p = P(i)
    BY <1>8
  <2>2. PICK j \in 1 .. len : q = P(j)
    BY <1>8
  <2>3. i < j \/ j < i
    BY <1>1, <2>1, <2>2
  <2>4. p.from = s[i].from /\ p.to = To(i) /\ q.from = s[j].from /\ q.to = To(j)
    BY <2>1, <2>2
  <2> HIDE DEF To, P, Q
  <2> QED
    BY <1>7, <2>3, <2>4 DEF Apart
<1>10. ASSUME NEW d \in Day
       PROVE  IF ByThen(rows, k, d) = {} THEN Holder(Q, c, d) = None
              ELSE Holder(Q, c, d) = LabelBy(rows, k, d) /\ Holder(Q, c, d) \in Owner
  <2>1. CASE ByThen(rows, k, d) = {}
    <3>1. ASSUME NEW p \in Q
          PROVE  ~Covers(p, d)
      <4>1. PICK i \in 1 .. len : p = P(i)
        BY <1>8
      <4>2. d < s[i].from /\ p.from = s[i].from
        BY <1>3, <2>1, <4>1
      <4> HIDE DEF P, Q, To
      <4> QED
        BY <1>2, <1>5, <4>2 DEF Covers
    <3> HIDE DEF Q
    <3> QED
      BY <2>1, <3>1, HolderNone
  <2>2. CASE ByThen(rows, k, d) # {}
    <3> DEFINE T == {i \in 1 .. len : i < len => d < s[i + 1].from}
    <3>1. PICK j \in 1 .. len : ~(d < s[j].from)
      BY <1>3, <2>2
    <3>2. T \subseteq Nat /\ len \in T
      BY <1>1, <3>1
    <3>3. PICK m \in T : \A i \in T : m <= i
      <4> HIDE DEF T
      <4> QED
        BY <3>2, Reading!LeastNat
    <3>4. s[m].from <= d
      <4>1. CASE m = 1
        <5>1. j = 1 \/ 1 < j
          BY <1>1
        <5>2. 1 \in 1 .. len
          BY <1>1, <3>1
        <5>3. s[j].from = s[1].from \/ s[1].from < s[j].from
          BY <1>3, <5>1, <5>2
        <5> QED
          BY <1>2, <1>5, <3>1, <4>1, <5>2, <5>3
      <4>2. CASE m # 1
        <5>1. m - 1 \in 1 .. len /\ ~(m <= m - 1) /\ (m - 1) + 1 = m /\ m \in 1 .. len
          BY <1>1, <4>2
        <5>2. ~(d < s[(m - 1) + 1].from)
          BY <3>3, <5>1
        <5> QED
          BY <1>2, <1>5, <5>1, <5>2
      <4> QED
        BY <4>1, <4>2
    <3>5. P(m) \in Q /\ P(m).customer = c /\ P(m).owner = s[m].owner /\ s[m].owner \in Owner
      BY <1>2, <1>4
    <3>6. InPlace(s, m, d) /\ Covers(P(m), d)
      <4>1. m < len => d < s[m + 1].from
        OBVIOUS
      <4>2. d <= To(m) /\ P(m).from = s[m].from /\ P(m).to = To(m)
        BY <1>6, <4>1
      <4> HIDE DEF P
      <4> QED
        BY <3>4, <4>1, <4>2 DEF InPlace, Covers
    <3>7. LabelBy(rows, k, d) = s[m].owner
      BY <1>3, <3>6
    <3>8. Q \in SUBSET Period
      BY <1>8
    <3> HIDE DEF P, Q, T
    <3>9. Holder(Q, c, d) = s[m].owner
      BY <1>9, <3>5, <3>6, <3>8, HolderIs
    <3> QED
      BY <2>2, <3>5, <3>7, <3>9
  <2> QED
    BY <2>1, <2>2
<1> QED
  BY <1>8, <1>9, <1>10

-----------------------------------------------------------------------------
(* What the build makes of the customers without a period, and what it     *)
(* leaves alone.                                                           *)

RowsOf(rows) == rows \in [Unfilled -> Registers]

FirstOwner(r, d) ==
    IF Buildable(r) /\ ByThen(r, Len(r), d) # {} THEN LabelBy(r, Len(r), d) ELSE None

(* A day's holder depends on the account's own periods only. *)
LEMMA OwnPeriods ==
    ASSUME NEW Q, NEW R, NEW c, NEW d, \A p : p.customer = c => (p \in Q <=> p \in R)
    PROVE  Holder(Q, c, d) = Holder(R, c, d)
<1>1. InForce(Q, c, d) = InForce(R, c, d)
  BY DEF InForce
<1> QED
  BY <1>1 DEF Holder

LEMMA BuiltFacts ==
    ASSUME TypeOK, OneOwnerAtATime, NEW rows, RowsOf(rows)
    PROVE  LET Q == Built(rows).periods
               log == Built(rows).review
           IN
           /\ Q \in SUBSET Period /\ NoOverlap(Q) /\ periods \subseteq Q
           /\ log \subseteq Customer \X Day /\ review \subseteq log
           /\ \A c \in Customer \ Unfilled, d \in Day : Holder(Q, c, d) = Holder(periods, c, d)
           /\ \A p \in Q : p.customer \in Unfilled => InTime(p.owner, p.from)
           /\ \A c \in Unfilled, d \in Day : /\ Holder(Q, c, d) = FirstOwner(rows[c], d)
                                             /\ Holder(Q, c, d) \in Owner \union {None}
<1> DEFINE built == {c \in Unfilled : Buildable(rows[c])}
           Of(c) == PeriodsFrom(c, History(rows[c]).starts)
           Q == Built(rows).periods
           log == Built(rows).review
<1>1. /\ periods \in SUBSET Period /\ NoOverlap(periods) /\ review \subseteq Customer \X Day
      /\ left \in [Employee -> Day \union {None}]
  BY NoOverlapNow DEF TypeOK
<1>2. Q = periods \union UNION {Of(c) : c \in built}
  BY DEF Built
<1>3. log = review \union UNION {{c} \X History(rows[c]).clashes : c \in built}
  BY DEF Built
<1>4. ASSUME NEW c \in built
      PROVE  c \in Customer /\ c \in Unfilled /\ Rows(rows[c])
  <2>1. c \in Unfilled /\ c \in Customer /\ Buildable(rows[c])
    BY DEF Unfilled
  <2>2. rows[c] \in Registers
    BY <2>1 DEF RowsOf
  <2> QED
    BY <2>1, <2>2, HistoryAssumption DEF Rows
<1>5. ASSUME NEW c \in built
      PROVE  /\ Of(c) \in SUBSET Period /\ NoOverlap(Of(c))
             /\ \A p \in Of(c) : p.customer = c /\ InTime(p.owner, p.from)
             /\ \A d \in Day : /\ Holder(Of(c), c, d) = FirstOwner(rows[c], d)
                               /\ Holder(Of(c), c, d) \in Owner \union {None}
             /\ History(rows[c]).clashes \subseteq Day
  <2>1. Found(rows[c], Len(rows[c]), History(rows[c]))
    BY <1>1, <1>4, HistoryFound
  <2>2. Faithful(rows[c], Len(rows[c]), History(rows[c]).starts) /\ Buildable(rows[c])
    BY <2>1 DEF Found
  <2>3. LET R == PeriodsFrom(c, History(rows[c]).starts) IN
        /\ R \in SUBSET Period /\ NoOverlap(R)
        /\ \A p \in R : p.customer = c /\ InTime(p.owner, p.from)
        /\ \A d \in Day :
              IF ByThen(rows[c], Len(rows[c]), d) = {} THEN Holder(R, c, d) = None
              ELSE /\ Holder(R, c, d) = LabelBy(rows[c], Len(rows[c]), d)
                   /\ Holder(R, c, d) \in Owner
    BY <1>4, <2>2, PeriodsFound
  <2> QED
    BY <2>1, <2>2, <2>3 DEF Found, FirstOwner
<1> HIDE DEF Of
<1>6. \A p \in periods : p.customer \notin Unfilled
  BY DEF Unfilled
<1>7. ASSUME NEW c \in built
      PROVE  \A p : p.customer = c => (p \in Q <=> p \in Of(c))
  BY <1>2, <1>4, <1>5, <1>6
<1>8. ASSUME NEW c, c \notin built
      PROVE  \A p : p.customer = c => (p \in Q <=> p \in periods)
  BY <1>2, <1>5, <1>8
<1>9. Q \in SUBSET Period
  BY <1>1, <1>2, <1>5
<1>10. NoOverlap(Q)
  <2> SUFFICES ASSUME NEW p \in Q, NEW q \in Q, p.customer = q.customer, p # q
               PROVE  Apart(p, q)
    BY DEF NoOverlap
  <2>1. CASE p.customer \in built
    <3>1. p \in Of(p.customer) /\ q \in Of(p.customer) /\ NoOverlap(Of(p.customer))
      BY <1>5, <1>7, <2>1
    <3> QED
      BY <3>1 DEF NoOverlap
  <2>2. CASE p.customer \notin built
    <3>1. p \in periods /\ q \in periods
      BY <1>8, <2>2
    <3> QED
      BY <1>1, <3>1 DEF NoOverlap
  <2> QED
    BY <2>1, <2>2
<1>11. log \subseteq Customer \X Day /\ review \subseteq log /\ periods \subseteq Q
  BY <1>1, <1>2, <1>3, <1>4, <1>5
<1>12. ASSUME NEW c \in Customer \ Unfilled, NEW d \in Day
       PROVE  Holder(Q, c, d) = Holder(periods, c, d)
  BY <1>4, <1>8, OwnPeriods
<1>13. ASSUME NEW p \in Q, p.customer \in Unfilled
       PROVE  InTime(p.owner, p.from)
  <2>1. p.customer \in built
    BY <1>6, <1>8, <1>13
  <2> QED
    BY <1>5, <1>7, <2>1
<1>14. ASSUME NEW c \in Unfilled, NEW d \in Day
       PROVE  Holder(Q, c, d) = FirstOwner(rows[c], d) /\ Holder(Q, c, d) \in Owner \union {None}
  <2>1. CASE c \in built
    <3>1. Holder(Q, c, d) = Holder(Of(c), c, d)
      BY <1>7, <2>1, OwnPeriods
    <3> QED
      BY <1>5, <2>1, <3>1
  <2>2. CASE c \notin built
    <3>1. Holder(Q, c, d) = Holder(periods, c, d)
      BY <1>8, <2>2, OwnPeriods
    <3>2. Holder(periods, c, d) = None
      BY <1>6, HolderNone
    <3> QED
      BY <2>2, <3>1, <3>2 DEF FirstOwner
  <2> QED
    BY <2>1, <2>2
<1> QED
  BY <1>9, <1>10, <1>11, <1>12, <1>13, <1>14

-----------------------------------------------------------------------------
(* Then the leavers are applied, one after the other. *)

(* The day after a last day is on the calendar. *)
LastDaysEarly == \A e \in Employee : left[e] # None => left[e] < MaxDay

LeftBefore(w, d) == w \in Employee /\ ~Active(w) /\ d > left[w]

Leaver == {e \in Employee : ~Active(e)}

LEMMA LeaverFacts ==
    ASSUME TypeOK, LastDaysEarly, NEW e \in Leaver
    PROVE  e \in Employee /\ left[e] \in Day /\ left[e] \in Int /\ left[e] < MaxDay /\ ~Active(e)
BY DEF TypeOK, LastDaysEarly, Leaver, Active, Day

Remembered(p, db) ==
    \/ \E q \in db.periods : q.customer = p.customer /\ q.owner = p.owner /\ q.from = p.from
    \/ <<p.customer, p.from>> \in db.review

(* After n leavers: House has the days after their last ones on the        *)
(* accounts that were built, somebody has them on the others, and no other *)
(* day has changed hands.                                                  *)
Applied(rows, leavers, n, db) ==
    /\ db.periods \in SUBSET Period /\ NoOverlap(db.periods)
    /\ db.review \subseteq Customer \X Day
    /\ \A p \in periods : Remembered(p, db)
    /\ \A p \in db.periods : p.customer \in Unfilled => InTime(p.owner, p.from)
    /\ \A c \in Unfilled, d \in Day :
          LET first == Holder(Built(rows).periods, c, d) IN
          Holder(db.periods, c, d) =
             IF \E i \in 1 .. n : leavers[i] = first /\ d > left[first] THEN House ELSE first
    /\ \A c \in Customer \ Unfilled, d \in Day :
          \/ Holder(db.periods, c, d) = Holder(periods, c, d)
          \/ LeftBefore(Holder(periods, c, d), d) /\ Holder(db.periods, c, d) # None

LEMMA NoneApplied ==
    ASSUME TypeOK, OneOwnerAtATime, NEW rows, RowsOf(rows), NEW leavers
    PROVE  Applied(rows, leavers, 0, Built(rows))
<1> DEFINE db == Built(rows)
<1>1. /\ db.periods \in SUBSET Period /\ NoOverlap(db.periods) /\ periods \subseteq db.periods
      /\ db.review \subseteq Customer \X Day /\ review \subseteq db.review
      /\ \A c \in Customer \ Unfilled, d \in Day : Holder(db.periods, c, d) = Holder(periods, c, d)
      /\ \A p \in db.periods : p.customer \in Unfilled => InTime(p.owner, p.from)
  BY BuiltFacts
<1> HIDE DEF db
<1>2. \A p \in periods : Remembered(p, db)
  BY <1>1 DEF Remembered
<1> QED
  BY <1>1, <1>2 DEF Applied, db

(* What becomes of the periods of an account that was built. *)
LEMMA LeaverInTime ==
    ASSUME TypeOK, LastDaysEarly, NEW Q \in SUBSET Period, NEW e \in Leaver,
           \A p \in Q : p.customer \in Unfilled => InTime(p.owner, p.from)
    PROVE  /\ \A p \in Late(Q, e, left[e]) : p.customer \notin Unfilled
           /\ \A p \in Vacated(Q, e, left[e]) : p.customer \in Unfilled => InTime(p.owner, p.from)
<1> DEFINE last == left[e]
<1>1. e \in Employee /\ last \in Day /\ last \in Int /\ ~Active(e) /\ House \notin Employee
  BY LeaverFacts, OwnerAssumption
<1>2. ASSUME NEW p \in Late(Q, e, last)
      PROVE  p.customer \notin Unfilled
  <2>1. p \in Q /\ p.owner = e /\ p.from > last /\ p.from \in Int
    BY PeriodFacts DEF Late
  <2> QED
    BY <1>1, <2>1 DEF InTime
<1>3. ASSUME NEW p \in Vacated(Q, e, last), p.customer \in Unfilled
      PROVE  InTime(p.owner, p.from)
  <2>1. CASE p \in Q
    BY <1>3, <2>1
  <2>2. ASSUME NEW q \in Late(Q, e, last), p = [q EXCEPT !.owner = Heir(Q, e, last, q)]
        PROVE  FALSE
    <3>1. q \in Period
      BY DEF Late
    <3>2. p.customer = q.customer
      BY <2>2, <3>1 DEF Period
    <3> QED
      BY <1>2, <1>3, <3>2
  <2>3. ASSUME NEW q \in Running(Q, e, last), p = [q EXCEPT !.to = last]
        PROVE  InTime(p.owner, p.from)
    <3>1. q \in Q /\ q \in Period
      BY DEF Running
    <3>2. p.customer = q.customer /\ p.owner = q.owner /\ p.from = q.from
      BY <2>3, <3>1 DEF Period
    <3> QED
      BY <1>3, <3>1, <3>2
  <2>4. ASSUME NEW q \in Running(Q, e, last), p = [q EXCEPT !.owner = House, !.from = last + 1]
        PROVE  InTime(p.owner, p.from)
    <3>1. q \in Period
      BY DEF Running
    <3>2. p.owner = House
      BY <2>4, <3>1 DEF Period
    <3> QED
      BY <1>1, <3>2 DEF InTime
  <2> HIDE DEF last
  <2> QED
    BY <2>1, <2>2, <2>3, <2>4 DEF Vacated
<1> QED
  BY <1>2, <1>3

LEMMA LeaverRemembers ==
    ASSUME NEW db, db.periods \in SUBSET Period, NEW e, NEW p, Remembered(p, db)
    PROVE  Remembered(p, ApplyLeaver(db, e))
<1> DEFINE Q == db.periods
           last == left[e]
           new == ApplyLeaver(db, e)
<1>1. /\ new.periods = Vacated(Q, e, last)
      /\ new.review = db.review \union Lost(Q, e, last)
  BY DEF ApplyLeaver
<1> SUFFICES Remembered(p, new)
  OBVIOUS
<1> HIDE DEF new, last
<1>2. CASE <<p.customer, p.from>> \in db.review
  BY <1>1, <1>2 DEF Remembered
<1>3. ASSUME NEW q \in Q, q.customer = p.customer, q.owner = p.owner, q.from = p.from
      PROVE  Remembered(p, new)
  <2>1. CASE q \in Late(Q, e, last)
    <3>1. <<q.customer, q.from>> \in Lost(Q, e, last)
      BY <2>1 DEF Lost
    <3> QED
      BY <1>1, <1>3, <3>1 DEF Remembered
  <2>2. CASE q \in Running(Q, e, last)
    <3> DEFINE cut == [q EXCEPT !.to = last]
    <3>1. cut \in new.periods
      BY <1>1, <2>2 DEF Vacated
    <3>2. cut.customer = q.customer /\ cut.owner = q.owner /\ cut.from = q.from
      BY DEF Period
    <3> HIDE DEF cut
    <3> QED
      BY <1>3, <3>1, <3>2 DEF Remembered
  <2>3. CASE q \notin Late(Q, e, last) \union Running(Q, e, last)
    <3>1. q \in new.periods
      BY <1>1, <2>3 DEF Vacated
    <3> QED
      BY <1>3, <3>1 DEF Remembered
  <2> QED
    BY <2>1, <2>2, <2>3
<1> QED
  BY <1>2, <1>3 DEF Remembered

(* One leaver more. *)
LEMMA LeaverApplied ==
    ASSUME TypeOK, LastDaysEarly, NEW rows, NEW leavers, NEW n \in Nat \ {0},
           leavers[n] \in Leaver, NEW db, Applied(rows, leavers, n - 1, db)
    PROVE  Applied(rows, leavers, n, ApplyLeaver(db, leavers[n]))
<1> DEFINE e == leavers[n]
           last == left[e]
           Q == db.periods
           R == Vacated(Q, e, last)
           new == ApplyLeaver(db, e)
<1>1. e \in Employee /\ e \in Leaver /\ last \in Day /\ last < MaxDay /\ ~Active(e)
  BY LeaverFacts
<1>2. new.periods = R /\ new.review = db.review \union Lost(Q, e, last)
  BY DEF ApplyLeaver
<1>3. /\ Q \in SUBSET Period /\ NoOverlap(Q)
      /\ db.review \subseteq Customer \X Day
      /\ \A p \in periods : Remembered(p, db)
      /\ \A p \in Q : p.customer \in Unfilled => InTime(p.owner, p.from)
  BY DEF Applied
<1>4. ASSUME NEW c \in Unfilled, NEW d \in Day
      PROVE  LET first == Holder(Built(rows).periods, c, d) IN
             Holder(Q, c, d) =
                IF \E i \in 1 .. n - 1 : leavers[i] = first /\ d > left[first] THEN House ELSE first
  BY <1>4 DEF Applied
<1>5. ASSUME NEW c \in Customer \ Unfilled, NEW d \in Day
      PROVE  \/ Holder(Q, c, d) = Holder(periods, c, d)
             \/ LeftBefore(Holder(periods, c, d), d) /\ Holder(Q, c, d) # None
  BY <1>5 DEF Applied
<1>6. \A p \in periods : Remembered(p, new)
  BY <1>3, LeaverRemembers
<1> SUFFICES Applied(rows, leavers, n, new)
  OBVIOUS
<1> HIDE DEF e, last, Q, new
<1>7. R \in SUBSET Period /\ NoOverlap(R)
  BY <1>1, <1>3, VacatedType, VacatedApart
<1>8. ASSUME NEW c \in Customer, NEW d \in Day
      PROVE  IF Holder(Q, c, d) = e /\ d > last
             THEN /\ Holder(R, c, d) \in Owner
                  /\ (\A p \in Late(Q, e, last) : p.customer # c) => Holder(R, c, d) = House
             ELSE Holder(R, c, d) = Holder(Q, c, d)
  <2> HIDE DEF R
  <2> QED
    BY <1>1, <1>3, VacatedOwner DEF R
<1>9. new.review \subseteq Customer \X Day
  <2>1. Lost(Q, e, last) \subseteq Customer \X Day
    BY <1>3, PeriodFacts DEF Lost, Late
  <2> QED
    BY <1>2, <1>3, <2>1
<1>10. /\ \A p \in Late(Q, e, last) : p.customer \notin Unfilled
       /\ \A p \in R : p.customer \in Unfilled => InTime(p.owner, p.from)
  BY <1>1, <1>3, LeaverInTime DEF last
<1> HIDE DEF R
<1>11. House \notin Employee /\ None \notin Owner /\ Unfilled \subseteq Customer
  BY OwnerAssumption DEF Unfilled
<1>12. ASSUME NEW c \in Unfilled, NEW d \in Day
       PROVE  LET first == Holder(Built(rows).periods, c, d) IN
              Holder(R, c, d) =
                 IF \E i \in 1 .. n : leavers[i] = first /\ d > left[first] THEN House ELSE first
  <2> DEFINE first == Holder(Built(rows).periods, c, d)
             Gone(i) == leavers[i] = first /\ d > left[first]
  <2>1. /\ 1 .. n - 1 \subseteq 1 .. n /\ n \in 1 .. n
        /\ \A i \in 1 .. n : i = n \/ i \in 1 .. n - 1
    OBVIOUS
  <2>2. \A p \in Late(Q, e, last) : p.customer # c
    BY <1>10
  <2>3. IF Holder(Q, c, d) = e /\ d > last THEN Holder(R, c, d) = House
        ELSE Holder(R, c, d) = Holder(Q, c, d)
    BY <1>8, <1>11, <2>2
  <2>4. Holder(Q, c, d) = IF \E i \in 1 .. n - 1 : Gone(i) THEN House ELSE first
    BY <1>4
  <2>5. Gone(n) <=> first = e /\ d > last
    BY DEF e, last
  <2> HIDE DEF Gone, first
  <2>6. (\E i \in 1 .. n : Gone(i)) <=> (\E i \in 1 .. n - 1 : Gone(i)) \/ Gone(n)
    BY <2>1
  <2>7. Holder(R, c, d) = IF \E i \in 1 .. n : Gone(i) THEN House ELSE first
    BY <1>1, <1>11, <2>3, <2>4, <2>5, <2>6
  <2> QED
    BY <2>7 DEF Gone, first
<1>13. ASSUME NEW c \in Customer \ Unfilled, NEW d \in Day
       PROVE  \/ Holder(R, c, d) = Holder(periods, c, d)
              \/ LeftBefore(Holder(periods, c, d), d) /\ Holder(R, c, d) # None
  <2>1. LeftBefore(e, d) <=> d > last
    BY <1>1 DEF LeftBefore, last
  <2> QED
    BY <1>5, <1>8, <1>11, <2>1
<1> QED
  BY <1>2, <1>6, <1>7, <1>9, <1>10, <1>12, <1>13 DEF Applied

-----------------------------------------------------------------------------
(* The leavers come in a sequence of all of them. *)

LEMMA AllLeavers ==
    ASSUME NEW leavers \in SetToSeqs(Leaver)
    PROVE  /\ DOMAIN leavers = 1 .. Cardinality(Leaver) /\ Cardinality(Leaver) \in Nat
           /\ \A i \in 1 .. Cardinality(Leaver) : leavers[i] \in Leaver
           /\ \A e \in Leaver : \E i \in 1 .. Cardinality(Leaver) : leavers[i] = e
<1> DEFINE len == Cardinality(Leaver)
<1>1. IsFiniteSet(Leaver) /\ len \in Nat
  <2>1. Leaver \subseteq Employee
    BY DEF Leaver
  <2> QED
    BY <2>1, HistoryAssumption, FS_Subset, FS_CardinalityType
<1>2. /\ leavers \in [1 .. len -> Leaver]
      /\ \A i, j \in 1 .. len : leavers[i] = leavers[j] => i = j
  BY DEF SetToSeqs, IsInjective
<1>3. IsFiniteSet(1 .. len) /\ Cardinality(1 .. len) = len
  BY <1>1, FS_Interval
<1>4. leavers \in Injection(1 .. len, Leaver)
  BY <1>2 DEF Injection, IsInjective
<1>5. leavers \in Surjection(1 .. len, Leaver)
  BY <1>1, <1>3, <1>4, FS_Injection
<1> QED
  BY <1>1, <1>2, <1>5 DEF Surjection

(* What the build leaves: an account that was built has on each day its    *)
(* first owner, or House once that one has left.                           *)
Outcome(rows, db) ==
    /\ db.periods \in SUBSET Period /\ NoOverlap(db.periods)
    /\ db.review \subseteq Customer \X Day
    /\ \A p \in periods : Remembered(p, db)
    /\ \A c \in Unfilled, d \in Day :
          LET first == FirstOwner(rows[c], d) IN
          /\ first \in Owner \union {None}
          /\ Holder(db.periods, c, d) = IF LeftBefore(first, d) THEN House ELSE first
    /\ \A c \in Customer \ Unfilled, d \in Day :
          \/ Holder(db.periods, c, d) = Holder(periods, c, d)
          \/ LeftBefore(Holder(periods, c, d), d) /\ Holder(db.periods, c, d) # None

LEMMA OutcomeFound ==
    ASSUME TypeOK, OneOwnerAtATime, LastDaysEarly, NEW rows, RowsOf(rows), NEW db \in Outcomes(rows)
    PROVE  Outcome(rows, db)
<1> DEFINE len == Cardinality(Leaver)
<1>1. PICK leavers \in SetToSeqs(Leaver) : db = FoldLeft(ApplyLeaver, Built(rows), leavers)
  BY DEF Outcomes, Leaver
<1>2. /\ DOMAIN leavers = 1 .. len /\ len \in Nat
      /\ \A i \in 1 .. len : leavers[i] \in Leaver
      /\ \A e \in Leaver : \E i \in 1 .. len : leavers[i] = e
  BY AllLeavers
<1> HIDE DEF len
<1>3. PICK f : /\ Leaving!Loop(f, Built(rows), leavers, len)
               /\ Leaving!Fold(Built(rows), leavers) = f[len]
  BY <1>2, Leaving!FoldIsLoop
<1>4. db = f[len]
  BY <1>1, <1>3 DEF Leaving!Fold, FoldLeft, Leaving!FoldLeft, MapThenFoldSet,
                    Leaving!MapThenFoldSet, Max, Leaving!Max
<1> DEFINE Bad == {n \in 0 .. len : ~Applied(rows, leavers, n, f[n])}
<1>5. Bad = {}
  <2> SUFFICES ASSUME Bad # {} PROVE FALSE
    OBVIOUS
  <2>1. PICK m \in Bad : \A n \in Bad : m <= n
    <3>1. Bad \subseteq Nat
      BY <1>2
    <3> HIDE DEF Bad
    <3> QED
      BY <3>1, Leaving!LeastNat
  <2>2. m # 0
    BY <1>3, <2>1, NoneApplied DEF Leaving!Loop
  <2>3. m \in 1 .. len /\ m \in Nat \ {0} /\ m - 1 \in 0 .. len /\ m - 1 \notin Bad
    BY <1>2, <2>1, <2>2
  <2>4. Applied(rows, leavers, m - 1, f[m - 1]) /\ leavers[m] \in Leaver
    BY <1>2, <2>3
  <2>5. f[m] = ApplyLeaver(f[m - 1], leavers[m])
    BY <1>3, <2>3 DEF Leaving!Loop
  <2>6. Applied(rows, leavers, m, f[m])
    BY <2>3, <2>4, <2>5, LeaverApplied
  <2> QED
    BY <2>1, <2>6
<1>6. len \in 0 .. len
  BY <1>2
<1>7. Applied(rows, leavers, len, db)
  BY <1>4, <1>5, <1>6
<1>8. ASSUME NEW c \in Unfilled, NEW d \in Day
      PROVE  LET first == FirstOwner(rows[c], d) IN
             /\ first \in Owner \union {None}
             /\ Holder(db.periods, c, d) = IF LeftBefore(first, d) THEN House ELSE first
  <2> DEFINE first == FirstOwner(rows[c], d)
  <2>1. Holder(Built(rows).periods, c, d) = first /\ first \in Owner \union {None}
    BY BuiltFacts
  <2>2. Holder(db.periods, c, d) =
           IF \E i \in 1 .. len : leavers[i] = first /\ d > left[first] THEN House ELSE first
    BY <1>7, <2>1 DEF Applied
  <2>3. (\E i \in 1 .. len : leavers[i] = first) <=> first \in Leaver
    BY <1>2
  <2>4. LeftBefore(first, d) <=> first \in Leaver /\ d > left[first]
    BY DEF LeftBefore, Leaver
  <2> HIDE DEF first
  <2> QED
    BY <2>1, <2>2, <2>3, <2>4 DEF first
<1> QED
  BY <1>7, <1>8 DEF Applied, Outcome

-----------------------------------------------------------------------------
(* The history is the Register's. *)

LEMMA OwnersInForce ==
    ASSUME NEW Q \in SUBSET Period, NoOverlap(Q), NEW c, NEW d \in Day
    PROVE  {p.owner : p \in InForce(Q, c, d)} = {Holder(Q, c, d)} \ {None}
<1>1. CASE InForce(Q, c, d) = {}
  BY <1>1 DEF Holder
<1>2. CASE InForce(Q, c, d) # {}
  <2>1. PICK p \in InForce(Q, c, d) : TRUE
    BY <1>2
  <2>2. p \in Q /\ p.customer = c /\ Covers(p, d) /\ p.owner \in Owner
    BY <2>1, PeriodFacts DEF InForce
  <2>3. InForce(Q, c, d) = {p} /\ Holder(Q, c, d) = p.owner
    BY <2>2, HolderIs
  <2>4. None \notin Owner
    BY OwnerAssumption
  <2> QED
    BY <2>2, <2>3, <2>4
<1> QED
  BY <1>1, <1>2

LEMMA RegisterOwnerIs ==
    ASSUME NEW rows, rows \in Registers, Buildable(rows), NEW d \in Day
    PROVE  LET first == FirstOwner(rows, d) IN
           RegisterOwner(rows, d) = IF LeftBefore(first, d) THEN House ELSE first
<1>1. Rows(rows)
  BY HistoryAssumption DEF Rows
<1>2. DOMAIN rows = 1 .. Len(rows)
  BY <1>1, RowFacts
<1>3. RegisterOwner(rows, d) =
         IF ByThen(rows, Len(rows), d) = {} THEN None
         ELSE OwnerIn([label |-> LabelBy(rows, Len(rows), d), day |-> d])
  BY <1>2 DEF RegisterOwner, ByThen, Named, LabelBy
<1>4. \A w : OwnerIn([label |-> w, day |-> d]) = IF LeftBefore(w, d) THEN House ELSE w
  BY DEF OwnerIn, LeftBefore
<1>5. ~LeftBefore(None, d)
  BY OwnerAssumption DEF LeftBefore, Owner
<1> QED
  BY <1>3, <1>4, <1>5 DEF FirstOwner

LEMMA HistoryIsRegisters ==
    TypeOK /\ OneOwnerAtATime /\ LastDaysEarly => HistoryFollowsRegister
<1> SUFFICES ASSUME TypeOK, OneOwnerAtATime, LastDaysEarly,
                    NEW rows \in [Unfilled -> Registers], NEW db \in Outcomes(rows),
                    NEW c \in Unfilled, NEW d \in Day
             PROVE  {p.owner : p \in InForce(db.periods, c, d)} =
                       IF Buildable(rows[c]) THEN {RegisterOwner(rows[c], d)} \ {None} ELSE {}
  BY DEF HistoryFollowsRegister, InForce
<1>1. Outcome(rows, db)
  BY OutcomeFound DEF RowsOf
<1>2. {p.owner : p \in InForce(db.periods, c, d)} = {Holder(db.periods, c, d)} \ {None}
  BY <1>1, OwnersInForce DEF Outcome
<1> DEFINE first == FirstOwner(rows[c], d)
<1>3. Holder(db.periods, c, d) = IF LeftBefore(first, d) THEN House ELSE first
  BY <1>1 DEF Outcome
<1>4. CASE Buildable(rows[c])
  BY <1>2, <1>3, <1>4, RegisterOwnerIs
<1>5. CASE ~Buildable(rows[c])
  <2>1. first = None
    BY <1>5 DEF FirstOwner
  <2>2. ~LeftBefore(None, d)
    BY OwnerAssumption DEF LeftBefore, Owner
  <2> QED
    BY <1>2, <1>3, <1>5, <2>1, <2>2
<1> QED
  BY <1>4, <1>5

-----------------------------------------------------------------------------
(* The routines and the build. *)

HistoryInv == TypeOK /\ OneOwnerAtATime /\ LastDaysEarly

LEMMA BuildOutcome ==
    ASSUME HistoryInv, NEW rows \in [Unfilled -> Registers], BuildAccountHistory(rows)
    PROVE  /\ \E db : Outcome(rows, db) /\ periods' = db.periods /\ review' = db.review
           /\ left' = left /\ absences' = absences
BY OutcomeFound DEF BuildAccountHistory, HistoryInv, RowsOf

(* Nobody's last day is set to the last of the calendar, and the build     *)
(* sets none.                                                              *)
LEMMA NextLastDays ==
    ASSUME TypeOK, LastDaysEarly, [Next]_vars
    PROVE  LastDaysEarly'
<1>1. CASE left' = left
  BY <1>1 DEF LastDaysEarly
<1>2. ASSUME NEW e \in Employee, NEW d \in Day, EmployeeLeaves(e, d)
      PROVE  LastDaysEarly'
  BY <1>2 DEF EmployeeLeaves, LastDaysEarly, TypeOK
<1> QED
  BY <1>1, <1>2 DEF Next, vars, TakeAccountForOrder, AllocateAccount, SetAccountOwner,
                    LoadAccountAllocation, RecordAbsence

LEMMA BuildInvariant ==
    ASSUME HistoryInv, NEW rows \in [Unfilled -> Registers], BuildAccountHistory(rows)
    PROVE  HistoryInv'
<1>1. PICK db : Outcome(rows, db) /\ periods' = db.periods /\ review' = db.review
  BY BuildOutcome
<1>2. left' = left /\ absences' = absences
  BY BuildOutcome
<1>3. periods' \in SUBSET Period /\ NoOverlap(periods') /\ review' \subseteq Customer \X Day
  BY <1>1 DEF Outcome
<1>4. TypeOK'
  BY <1>2, <1>3 DEF HistoryInv, TypeOK
<1>5. OneOwnerAtATime'
  BY <1>3, NoOverlapNext
<1>6. LastDaysEarly'
  BY <1>2 DEF HistoryInv, LastDaysEarly
<1> QED
  BY <1>4, <1>5, <1>6 DEF HistoryInv

LEMMA HistoryInvariant == HistorySpec => []HistoryInv
<1>1. Init => HistoryInv
  BY DEF Init, HistoryInv, TypeOK, OneOwnerAtATime, LastDaysEarly
<1>2. ASSUME HistoryInv, [HistoryNext]_vars
      PROVE  HistoryInv'
  <2>1. CASE [Next]_vars
    BY <1>2, <2>1, NextType, NextOneOwner, NextLastDays DEF HistoryInv
  <2>2. ASSUME NEW rows \in [Unfilled -> Registers], BuildAccountHistory(rows)
        PROVE  HistoryInv'
    BY <1>2, <2>2, BuildInvariant
  <2> QED
    BY <1>2, <2>1, <2>2 DEF HistoryNext
<1> QED
  BY <1>1, <1>2, PTL DEF HistorySpec

(* The build writes periods, and days to review, of the right type.        *)
THEOREM HistoryTypeCorrect == HistorySpec => []TypeOK
BY HistoryInvariant, PTL DEF HistoryInv

(* The build never gives an account two owners on a day, whatever the      *)
(* Register holds and whoever has left: not the periods of one account     *)
(* with each other, and not what a leaver's last day makes of them.        *)
THEOREM HistoryOneOwner == HistorySpec => []OneOwnerAtATime
BY HistoryInvariant, PTL DEF HistoryInv

(* Built in whatever state, from whatever Register, and with the leavers   *)
(* in whatever order, the history of an account that had none is the       *)
(* Register's: ownership changes only when a different salesperson is      *)
(* named, and House has the days after a leaver's last.                    *)
THEOREM HistoryFollows == HistorySpec => []HistoryFollowsRegister
<1>1. HistoryInv => HistoryFollowsRegister
  BY HistoryIsRegisters DEF HistoryInv
<1> QED
  BY <1>1, HistoryInvariant, PTL

-----------------------------------------------------------------------------
(* What the routines promise still holds with the build. *)

(* An account passes to the salesperson of an approved order, except for   *)
(* cover, or the refusal is on record, whether or not the periods the      *)
(* order meets were built.                                                 *)
THEOREM HistoryPassedOrLogged == HistorySpec => AccountPassesOrIsLogged
<1>1. HistoryInv /\ [HistoryNext]_vars => [\A c \in Customer, e \in Employee, d \in Day :
          TakeAccountForOrder(c, e, d, None) =>
              \/ \E p \in AllocationOn(c, d)' : p.owner = e
              \/ \E p \in AllocationOn(c, d) : p.owner \in Employee /\ Absent(p.owner, d)
              \/ <<c, d>> \in review']_vars
  BY TakenOrLogged DEF HistoryInv
<1> QED
  BY <1>1, HistoryInvariant, PTL DEF HistorySpec, AccountPassesOrIsLogged

LEMMA BuildKeeps ==
    ASSUME HistoryInv, NEW rows \in [Unfilled -> Registers], BuildAccountHistory(rows),
           NEW p \in periods
    PROVE  KeptOrLogged(p)
<1>1. PICK db : Outcome(rows, db) /\ periods' = db.periods /\ review' = db.review
  BY BuildOutcome
<1>2. p.from <= p.from
  BY PeriodFacts DEF HistoryInv, TypeOK
<1> QED
  BY <1>1, <1>2 DEF Outcome, Remembered, KeptOrLogged

(* The build applies every leaver to all accounts again, and yet makes no  *)
(* salesperson's ownership start later without a line for review.          *)
THEOREM HistoryStartsKept == HistorySpec => StartsKept
<1>1. ASSUME HistoryInv, [HistoryNext]_vars, NEW p \in periods
      PROVE  KeptOrLogged(p)
  <2>1. CASE [Next]_vars
    BY <1>1, <2>1, NextKeeps DEF HistoryInv
  <2>2. ASSUME NEW rows \in [Unfilled -> Registers], BuildAccountHistory(rows)
        PROVE  KeptOrLogged(p)
    BY <1>1, <2>2, BuildKeeps
  <2> QED
    BY <1>1, <2>1, <2>2 DEF HistoryNext
<1>2. HistoryInv /\ [HistoryNext]_vars => [\A p \in periods :
          \/ \E q \in periods' : /\ q.customer = p.customer /\ q.owner = p.owner
                                 /\ q.from <= p.from
          \/ <<p.customer, p.from>> \in review']_vars
  BY <1>1 DEF KeptOrLogged
<1> QED
  BY <1>2, HistoryInvariant, PTL DEF HistorySpec, StartsKept

-----------------------------------------------------------------------------
(* The refinement. *)

(* The accounts without a period are those that nobody ever had.           *)
LEMMA NeverOwned ==
    ASSUME HistoryInv, NEW c \in Customer
    PROVE  c \in Unfilled <=> \A d \in Day : OwnerOn(c, d) = None
<1>1. ASSUME c \in Unfilled, NEW d \in Day
      PROVE  OwnerOn(c, d) = None
  BY <1>1, HolderNone, HolderNow DEF Unfilled
<1>2. ASSUME c \notin Unfilled
      PROVE  \E d \in Day : OwnerOn(c, d) # None
  <2>1. PICK p \in periods : p.customer = c
    BY <1>2 DEF Unfilled
  <2>2. /\ periods \in SUBSET Period /\ NoOverlap(periods)
        /\ p.from \in Day /\ p.from \in Int /\ p.from <= p.to /\ p.owner # None
    BY PeriodFacts, NoOverlapNow, OwnerAssumption DEF HistoryInv, TypeOK
  <2>3. Covers(p, p.from)
    BY <2>2 DEF Covers
  <2>4. OwnerOn(c, p.from) = p.owner
    BY <2>1, <2>2, <2>3, HolderIs, HolderNow
  <2> QED
    BY <2>2, <2>4
<1> QED
  BY <1>1, <1>2

(* Once somebody has an account, somebody has it on every later day.       *)
LEMMA OwnedFromThenOn ==
    ASSUME HistoryInv, NEW rows, RowsOf(rows), NEW c \in Unfilled,
           NEW x \in Day, NEW y \in Day, x < y, FirstOwner(rows[c], x) # None
    PROVE  FirstOwner(rows[c], y) # None
<1> DEFINE r == rows[c]
<1>1. Buildable(r) /\ ByThen(r, Len(r), x) # {} /\ r \in Registers /\ c \in Customer
  BY DEF FirstOwner, RowsOf, Unfilled
<1>2. Rows(r)
  BY <1>1, HistoryAssumption DEF Rows
<1> HIDE DEF r
<1>3. ByThen(r, Len(r), y) # {}
  <2>1. PICK i \in 1 .. Len(r) : r[i].label # None /\ r[i].day <= x
    BY <1>1 DEF ByThen
  <2>2. r[i].day \in Int /\ x \in Int /\ y \in Int
    BY <1>2, RowFacts DEF Day
  <2>3. r[i].day <= y
    BY <2>1, <2>2
  <2> QED
    BY <2>1, <2>3 DEF ByThen
<1>4. LabelBy(r, Len(r), y) \in Owner
  <2>1. Faithful(r, Len(r), History(r).starts)
    BY <1>2, HistoryFound DEF HistoryInv, TypeOK, Found
  <2> QED
    BY <1>1, <1>2, <1>3, <2>1, PeriodsFound
<1> QED
  BY <1>1, <1>3, <1>4, OwnerAssumption DEF FirstOwner, r

LEMMA BuildIsRebuild ==
    ASSUME HistoryInv, NEW rows \in [Unfilled -> Registers], BuildAccountHistory(rows)
    PROVE  Timeline!Rebuild
<1> DEFINE tl == [c \in Customer |-> [d \in Day |-> OwnerOn(c, d)]]
<1>1. PICK db : Outcome(rows, db) /\ periods' = db.periods
  BY BuildOutcome
<1>2. left' = left
  BY BuildOutcome
<1>3. Timeline!Day = Day
  BY DEF Timeline!Day, Day
<1>4. \A w, d : Timeline!Gone(w, d) <=> LeftBefore(w, d)
  BY DEF Timeline!Gone, LeftBefore, Active
<1>5. ASSUME NEW c \in Customer, NEW d \in Day
      PROVE  tl[c][d] = Holder(periods, c, d) /\ tl'[c][d] = Holder(db.periods, c, d)
  BY <1>1, HolderNow, HolderNext
<1>6. ASSUME NEW c \in Customer
      PROVE  c \in Unfilled <=> \A d \in Day : tl[c][d] = None
  BY NeverOwned
<1> HIDE DEF tl
<1>7. ASSUME NEW c \in Unfilled
      PROVE  /\ \A x, y \in Day : x < y /\ tl'[c][x] # None => tl'[c][y] # None
             /\ \A x \in Day : ~LeftBefore(tl'[c][x], x)
  <2> DEFINE first(d) == FirstOwner(rows[c], d)
  <2>1. c \in Customer /\ House # None /\ House \notin Employee
    BY OwnerAssumption DEF Unfilled, Owner
  <2>2. ASSUME NEW d \in Day
        PROVE  tl'[c][d] = IF LeftBefore(first(d), d) THEN House ELSE first(d)
    BY <1>1, <1>5, <2>1 DEF Outcome
  <2>3. ASSUME NEW d \in Day
        PROVE  first(d) = None => ~LeftBefore(first(d), d)
    BY OwnerAssumption DEF LeftBefore, Owner
  <2>4. \A x, y \in Day : x < y /\ first(x) # None => first(y) # None
    BY OwnedFromThenOn DEF RowsOf
  <2>5. \A x \in Day : ~LeftBefore(House, x)
    BY <2>1 DEF LeftBefore
  <2> HIDE DEF first
  <2> QED
    BY <2>1, <2>2, <2>3, <2>4, <2>5
<1>8. ASSUME NEW c \in Customer \ Unfilled, NEW x \in Day
      PROVE  tl'[c][x] = tl[c][x] \/ (LeftBefore(tl[c][x], x) /\ tl'[c][x] # None)
  BY <1>1, <1>5 DEF Outcome
<1>9. ASSUME NEW c \in Customer
      PROVE  IF \A x \in Timeline!Day : tl[c][x] = None
             THEN /\ \A x, y \in Timeline!Day : x < y /\ tl'[c][x] # None => tl'[c][y] # None
                  /\ \A x \in Timeline!Day : ~Timeline!Gone(tl'[c][x], x)
             ELSE \A x \in Timeline!Day :
                     \/ tl'[c][x] = tl[c][x]
                     \/ Timeline!Gone(tl[c][x], x) /\ tl'[c][x] # None
  BY <1>3, <1>4, <1>6, <1>7, <1>8
<1> QED
  BY <1>2, <1>9 DEF Timeline!Rebuild, tl

(* The build implements the timeline, too: it gives accounts that nobody   *)
(* ever had an owner from some day on, and of the others it touches no day *)
(* but those that somebody who has left had after the last one.            *)
THEOREM BuildImplementsTimeline == HistorySpec => ImplementsTimeline
<1>1. ASSUME HistoryInv, HistoryInv', [HistoryNext]_vars
      PROVE  [Timeline!Next]_(Timeline!vars)
  <2>1. CASE [Next]_vars
    BY <1>1, <2>1, NextImplements DEF HistoryInv
  <2>2. ASSUME NEW rows \in [Unfilled -> Registers], BuildAccountHistory(rows)
        PROVE  [Timeline!Next]_(Timeline!vars)
    BY <1>1, <2>2, BuildIsRebuild DEF Timeline!Next
  <2> QED
    BY <1>1, <2>1, <2>2 DEF HistoryNext
<1> QED
  BY <1>1, HistoryInvariant, InitImplements, PTL
     DEF HistorySpec, ImplementsTimeline, Timeline!Spec

=============================================================================

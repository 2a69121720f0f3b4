------------------------------ MODULE LeftFold ------------------------------
(***************************************************************************)
(* FoldLeft computes what a loop over a sequence computes: after n of its  *)
(* elements there is a result, which the next element changes by Op.       *)
(* Modules that fold instantiate this one with the operator of their loop  *)
(* and reason about the results f[0], f[1], ... instead of the fold.       *)
(*                                                                         *)
(* Induction is by the least counterexample: the natural numbers are well  *)
(* founded.                                                                *)
(***************************************************************************)
EXTENDS Integers, SequencesExt, WellFoundedInduction, TLAPS

CONSTANT Op(_, _)  \* what an element makes of the result so far

(* Every set of natural numbers that is not empty has a least element.     *)
LEMMA LeastNat ==
    ASSUME NEW T, T \subseteq Nat, T # {}
    PROVE  \E m \in T : \A n \in T : m <= n
<1> DEFINE R == OpToRel(<, Nat)
<1>1. IsWellFoundedOn(R, Nat)
  BY NatLessThanWellFounded
<1> HIDE DEF R
<1>2. PICK m \in T : \A n \in T : ~(<<n, m>> \in R)
  BY <1>1, WFMin
<1>3. \A n \in T : ~(n < m)
  BY <1>2, Zenon DEF R, OpToRel
<1> QED
  BY <1>3

LEMMA MaxOfInterval ==
    ASSUME NEW s, NEW n \in Nat, s \subseteq 1 .. n, n \in s
    PROVE  Max(s) = n
<1>1. \A y \in s : y \in Int /\ n >= y
  OBVIOUS
<1>2. \A x \in s : (\A y \in s : x >= y) => x = n
  BY <1>1
<1> QED
  BY <1>1, <1>2 DEF Max

-----------------------------------------------------------------------------
(* The recursive function inside the fold is defined: by induction on the  *)
(* number of indices, of which the fold takes the largest first.           *)

Recur(base, seq, g, s) == IF s = {} THEN base ELSE Op(g[s \ {Max(s)}], seq[Max(s)])

Defined(base, seq, n) == \E g : g = [s \in SUBSET (1 .. n) |-> Recur(base, seq, g, s)]

LEMMA DefinedAtZero ==
    ASSUME NEW base, NEW seq
    PROVE  Defined(base, seq, 0)
<1> DEFINE g == [s \in SUBSET (1 .. 0) |-> base]
<1>1. g = [s \in SUBSET (1 .. 0) |-> Recur(base, seq, g, s)]
  BY DEF Recur
<1> QED
  BY <1>1 DEF Defined

LEMMA DefinedAtNext ==
    ASSUME NEW base, NEW seq, NEW n \in Nat, Defined(base, seq, n)
    PROVE  Defined(base, seq, n + 1)
<1>1. PICK g : g = [s \in SUBSET (1 .. n) |-> Recur(base, seq, g, s)]
  BY DEF Defined
<1> DEFINE h == [s \in SUBSET (1 .. n + 1) |->
                    IF n + 1 \in s THEN Op(g[s \ {n + 1}], seq[n + 1]) ELSE g[s]]
<1>2. ASSUME NEW s \in SUBSET (1 .. n + 1)
      PROVE  h[s] = Recur(base, seq, h, s)
  <2>1. CASE n + 1 \in s
    <3>1. Max(s) = n + 1
      <4>1. n + 1 \in Nat
        OBVIOUS
      <4> HIDE DEF h
      <4> QED
        BY <2>1, <4>1, MaxOfInterval
    <3>2. h[s \ {n + 1}] = g[s \ {n + 1}]
      OBVIOUS
    <3> QED
      BY <2>1, <3>1, <3>2 DEF Recur
  <2>2. CASE n + 1 \notin s
    <3>1. s \in SUBSET (1 .. n)
      <4>1. \A i \in 1 .. n + 1 : i = n + 1 \/ i \in 1 .. n
        OBVIOUS
      <4> QED
        BY <2>2, <4>1
    <3>2. h[s] = g[s] /\ h[s \ {Max(s)}] = g[s \ {Max(s)}]
      BY <2>2, <3>1
    <3> HIDE DEF h
    <3>3. g[s] = Recur(base, seq, g, s)
      BY <1>1, <3>1, Zenon
    <3> QED
      BY <3>2, <3>3 DEF Recur
  <2> QED
    BY <2>1, <2>2
<1>3. h = [s \in SUBSET (1 .. n + 1) |-> h[s]]
  OBVIOUS
<1> HIDE DEF h
<1>4. h = [s \in SUBSET (1 .. n + 1) |-> Recur(base, seq, h, s)]
  BY <1>2, <1>3, Zenon
<1> QED
  BY <1>4 DEF Defined

LEMMA DefinedEverywhere ==
    ASSUME NEW base, NEW seq, NEW len \in Nat
    PROVE  Defined(base, seq, len)
<1> DEFINE Bad == {n \in Nat : ~Defined(base, seq, n)}
<1> SUFFICES ASSUME Bad # {} PROVE FALSE
  OBVIOUS
<1>1. PICK m \in Bad : \A n \in Bad : m <= n
  BY LeastNat
<1>2. m # 0
  BY <1>1, DefinedAtZero
<1>3. m - 1 \in Nat /\ m - 1 \notin Bad /\ m = (m - 1) + 1
  BY <1>1, <1>2
<1> QED
  BY <1>1, <1>3, DefinedAtNext

-----------------------------------------------------------------------------
(* The loop. *)

Fold(base, seq) == FoldLeft(Op, base, seq)

(* f[n] is the result after n elements, f[0] the one before the first. *)
Loop(f, base, seq, len) ==
    /\ f[0] = base
    /\ \A n \in 1 .. len : f[n] = Op(f[n - 1], seq[n])

THEOREM FoldIsLoop ==
    ASSUME NEW base, NEW seq, NEW len \in Nat, DOMAIN seq = 1 .. len
    PROVE  \E f : Loop(f, base, seq, len) /\ Fold(base, seq) = f[len]
<1> DEFINE iter == CHOOSE g : g = [s \in SUBSET DOMAIN seq |-> Recur(base, seq, g, s)]
           f == [n \in 0 .. len |-> iter[1 .. n]]
<1>1. iter = [s \in SUBSET (1 .. len) |-> Recur(base, seq, iter, s)]
  BY DefinedEverywhere DEF Defined
<1>2. Fold(base, seq) = iter[DOMAIN seq]
  BY DEF Fold, FoldLeft, MapThenFoldSet, Recur
<1> HIDE DEF iter
<1>3. f[0] = base
  <2>1. 1 .. 0 = {}
    OBVIOUS
  <2> QED
    BY <1>1, <2>1 DEF Recur
<1>4. ASSUME NEW n \in 1 .. len
      PROVE  f[n] = Op(f[n - 1], seq[n])
  <2>1. n \in Nat /\ n \in 1 .. n /\ 1 .. n \subseteq 1 .. len /\ (1 .. n) \ {n} = 1 .. n - 1
    OBVIOUS
  <2>2. Max(1 .. n) = n
    BY <2>1, MaxOfInterval
  <2>3. iter[1 .. n] = Op(iter[1 .. n - 1], seq[n])
    BY <1>1, <2>1, <2>2 DEF Recur
  <2> QED
    BY <2>3
<1>5. Fold(base, seq) = f[len]
  BY <1>2
<1> HIDE DEF f
<1> QED
  BY <1>3, <1>4, <1>5 DEF Loop

=============================================================================

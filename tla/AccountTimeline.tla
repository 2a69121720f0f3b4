-------------------------- MODULE AccountTimeline --------------------------
(***************************************************************************)
(* What account ownership promises, with no periods: every account has, on *)
(* each day of the calendar, an owner or nobody.  Ownership, the build of  *)
(* the history and the Xero sync are shown to implement this specification.*)
(***************************************************************************)
EXTENDS Integers

CONSTANTS
    Account,
    Person,        \* owners who may leave
    HouseAccount,  \* owners who may not
    MaxDay,
    Nobody

Day == 1 .. MaxDay

VARIABLES
    owner,  \* by account and day
    last    \* the last day of a person who has left

vars == <<owner, last>>

Init ==
    /\ owner = [a \in Account |-> [d \in Day |-> Nobody]]
    /\ last = [w \in Person |-> Nobody]

(* Person or not, w had left by day d. *)
Gone(w, d) == w \in Person /\ last[w] # Nobody /\ d > last[w]

(* From day d on the account is w's, who is still here, unless somebody    *)
(* comes after its owner of that day; days nobody owned may stay so.       *)
Passes(a, w, d) ==
    /\ w \in Person => last[w] = Nobody
    /\ \A x \in d + 1 .. MaxDay : owner[a][x] \in {owner[a][d], Nobody}
    /\ \A x \in Day :
          \/ x < d /\ owner'[a][x] = owner[a][x]
          \/ x >= d /\ owner'[a][x] = w
          \/ x > d /\ owner[a][x] = Nobody /\ owner'[a][x] = Nobody

(* Accounts are given away: one by most routines, any by a Xero sync.      *)
Give ==
    /\ \A a \in Account :
          \/ owner'[a] = owner[a]
          \/ \E w \in Person \union HouseAccount, d \in Day : Passes(a, w, d)
    /\ UNCHANGED last

(* History from a file: it fills days that nobody owned, and may name      *)
(* anybody, also a person who has left.                                    *)
Record(a, w, from, to) ==
    /\ \A x \in from .. to : owner[a][x] = Nobody
    /\ owner' = [owner EXCEPT ![a] = [x \in Day |-> IF x \in from .. to THEN w ELSE @[x]]]
    /\ UNCHANGED last

(* History from the Register: accounts without an owner get one from some  *)
(* day on, nobody after their last day; and days that others have after    *)
(* their last day pass on.                                                 *)
Rebuild ==
    /\ \A a \in Account :
          IF \A x \in Day : owner[a][x] = Nobody
          THEN /\ \A x, y \in Day : x < y /\ owner'[a][x] # Nobody => owner'[a][y] # Nobody
               /\ \A x \in Day : ~Gone(owner'[a][x], x)
          ELSE \A x \in Day :
                  \/ owner'[a][x] = owner[a][x]
                  \/ Gone(owner[a][x], x) /\ owner'[a][x] # Nobody
    /\ UNCHANGED last

(* A person leaves: exactly the days they had after the last one pass on,  *)
(* to anybody else, also a person who has left before.                     *)
Leave(w, d) ==
    /\ last[w] \in {Nobody, d}
    /\ last' = [last EXCEPT ![w] = d]
    /\ \A a \in Account, x \in Day :
          IF owner[a][x] = w /\ x > d
          THEN owner'[a][x] \in (Person \union HouseAccount) \ {w}
          ELSE owner'[a][x] = owner[a][x]

Next ==
    \/ Give
    \/ \E a \in Account, w \in Person \union HouseAccount, x, y \in Day : Record(a, w, x, y)
    \/ Rebuild
    \/ \E w \in Person, d \in Day : Leave(w, d)

Spec == Init /\ [][Next]_vars

=============================================================================

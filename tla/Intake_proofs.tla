---------------------------- MODULE Intake_proofs ----------------------------
(***************************************************************************)
(* What loading the Register and the submissions keeps true, for any       *)
(* number of sessions, files and orders.                                   *)
(***************************************************************************)
EXTENDS Intake, TLAPS, FiniteSetTheorems

Reading == INSTANCE LeftFold WITH Op <- ReadRow

-----------------------------------------------------------------------------
(* parse_register loads of each SN the first row that can be trusted: by   *)
(* induction on the number of lines read.                                  *)

IsFirst(lines, j) ==
    /\ Trusted(lines, j)
    /\ \A k \in 1 .. j - 1 : Trusted(lines, k) => CanonicalSn[lines[k].sn] # CanonicalSn[lines[j].sn]

FirstsAmong(lines, n) == {EntryOf(lines[i]) : i \in {j \in 1 .. n : IsFirst(lines, j)}}

TrustedSns(lines, n) == {CanonicalSn[lines[i].sn] : i \in {j \in 1 .. n : Trusted(lines, j)}}

(* What has been parsed of the first n lines. *)
ReadSoFar(parsed, lines, n) ==
    /\ parsed = [rows |-> parsed.rows, rejections |-> parsed.rejections]
    /\ parsed.rows = FirstsAmong(lines, n)
    /\ SnsOf(parsed.rows) = TrustedSns(lines, n)

LEMMA ReasonSplit ==
    ASSUME NEW raw, NEW seen
    PROVE  Reason(raw, seen) = "none" <=> Reason(raw, {}) = "none" /\ CanonicalSn[raw.sn] \notin seen
BY DEF Reason

(* One more line: what is first, and which SNs have been trusted. *)
LEMMA OneMoreLine ==
    ASSUME NEW lines, NEW n \in Nat \ {0}
    PROVE  /\ IsFirst(lines, n) <=> /\ Trusted(lines, n)
                                    /\ CanonicalSn[lines[n].sn] \notin TrustedSns(lines, n - 1)
           /\ FirstsAmong(lines, n) = FirstsAmong(lines, n - 1)
                                         \union (IF IsFirst(lines, n) THEN {EntryOf(lines[n])} ELSE {})
           /\ TrustedSns(lines, n) = TrustedSns(lines, n - 1)
                   \union (IF Trusted(lines, n) THEN {CanonicalSn[lines[n].sn]} ELSE {})
<1>1. \A j : j \in 1 .. n <=> j \in 1 .. n - 1 \/ j = n
  OBVIOUS
<1>2. IsFirst(lines, n) <=> Trusted(lines, n) /\ CanonicalSn[lines[n].sn] \notin TrustedSns(lines, n - 1)
  BY DEF IsFirst, TrustedSns
<1>3. FirstsAmong(lines, n) = FirstsAmong(lines, n - 1)
                                 \union (IF IsFirst(lines, n) THEN {EntryOf(lines[n])} ELSE {})
  BY <1>1 DEF FirstsAmong
<1>4. TrustedSns(lines, n) = TrustedSns(lines, n - 1)
                 \union (IF Trusted(lines, n) THEN {CanonicalSn[lines[n].sn]} ELSE {})
  BY <1>1 DEF TrustedSns
<1> QED
  BY <1>2, <1>3, <1>4

LEMMA ReadingOne ==
    ASSUME NEW lines, NEW n \in Nat \ {0}, NEW parsed, ReadSoFar(parsed, lines, n - 1)
    PROVE  ReadSoFar(ReadRow(parsed, lines[n]), lines, n)
<1> DEFINE raw == lines[n]
           next == ReadRow(parsed, raw)
           sns == SnsOf(parsed.rows)
<1>1. Reason(raw, sns) = "none" <=> Reason(raw, {}) = "none" /\ CanonicalSn[raw.sn] \notin sns
  BY ReasonSplit
<1>2. Trusted(lines, n) <=> ~Blank(raw) /\ Reason(raw, {}) = "none"
  BY DEF Trusted
<1>3. IsFirst(lines, n) <=> Trusted(lines, n) /\ CanonicalSn[raw.sn] \notin sns
  BY OneMoreLine DEF ReadSoFar
<1>4. next = [rows |-> next.rows, rejections |-> next.rejections]
  BY DEF ReadRow, ReadSoFar
<1>5. next.rows = IF IsFirst(lines, n) THEN parsed.rows \union {EntryOf(raw)} ELSE parsed.rows
  BY <1>1, <1>2, <1>3 DEF ReadRow, ReadSoFar
<1>6. EntryOf(raw).sn = CanonicalSn[raw.sn]
  BY DEF EntryOf
<1>7. SnsOf(next.rows) = IF IsFirst(lines, n) THEN sns \union {CanonicalSn[raw.sn]} ELSE sns
  BY <1>5, <1>6 DEF SnsOf
<1> HIDE DEF next, raw
<1>8. next.rows = FirstsAmong(lines, n)
  BY <1>5, OneMoreLine DEF ReadSoFar, raw
<1>9. SnsOf(next.rows) = TrustedSns(lines, n)
  <2>1. TrustedSns(lines, n) = sns \union (IF Trusted(lines, n) THEN {CanonicalSn[raw.sn]} ELSE {})
    BY OneMoreLine DEF ReadSoFar, raw
  <2> QED
    BY <2>1, <1>7, <1>3
<1> QED
  BY <1>4, <1>8, <1>9 DEF ReadSoFar, next, raw

(* "Skips rows that cannot be trusted": of each SN the Register mirror     *)
(* gets the first row that can be, whatever was rejected before it         *)
(* (parse_register).                                                       *)
THEOREM ParseIsFirstTrusted ==
    ASSUME NEW lines, Len(lines) \in Nat, DOMAIN lines = 1 .. Len(lines)
    PROVE  ParseRegister(lines).rows = FirstTrustedRows(lines)
<1> DEFINE base == [rows |-> {}, rejections |-> <<>>]
<1>1. PICK f : Reading!Loop(f, base, lines, Len(lines)) /\ Reading!Fold(base, lines) = f[Len(lines)]
  BY Reading!FoldIsLoop
<1>2. ParseRegister(lines) = f[Len(lines)]
  BY <1>1 DEF ParseRegister, Reading!Fold, FoldLeft, Reading!FoldLeft, MapThenFoldSet,
              Reading!MapThenFoldSet, Max, Reading!Max
<1> DEFINE Bad == {n \in 0 .. Len(lines) : ~ReadSoFar(f[n], lines, n)}
<1>3. Bad = {}
  <2> SUFFICES ASSUME Bad # {} PROVE FALSE
    OBVIOUS
  <2>1. PICK m \in Bad : \A n \in Bad : m <= n
    <3>1. Bad \subseteq Nat
      OBVIOUS
    <3> HIDE DEF Bad
    <3> QED
      BY <3>1, Reading!LeastNat
  <2>2. m # 0
    <3>1. ReadSoFar(f[0], lines, 0)
      BY <1>1 DEF Reading!Loop, ReadSoFar, SnsOf, FirstsAmong, TrustedSns
    <3> QED
      BY <3>1
  <2>3. m \in Nat \ {0} /\ m \in 1 .. Len(lines) /\ m - 1 \in 0 .. Len(lines) /\ m - 1 \notin Bad
    BY <2>1, <2>2
  <2>4. ReadSoFar(f[m - 1], lines, m - 1)
    BY <2>3
  <2>5. f[m] = ReadRow(f[m - 1], lines[m])
    BY <1>1, <2>3 DEF Reading!Loop
  <2> QED
    BY <2>3, <2>4, <2>5, ReadingOne
<1>4. ReadSoFar(f[Len(lines)], lines, Len(lines))
  BY <1>3
<1>5. FirstsAmong(lines, Len(lines)) = FirstTrustedRows(lines)
  BY DEF FirstsAmong, FirstTrustedRows, IsFirst
<1> QED
  BY <1>2, <1>4, <1>5 DEF ReadSoFar

-----------------------------------------------------------------------------
(* The inductive invariant.  First, what every session can rely on.        *)

Shaped(x) ==
    x = [at |-> x.at, work |-> x.work, queue |-> x.queue, best |-> x.best, sn |-> x.sn,
         todo |-> x.todo, snap |-> x.snap, gone |-> x.gone, put |-> x.put, late |-> x.late,
         held |-> x.held, wrote |-> x.wrote]

SessionType(s) ==
    /\ Shaped(tx[s])
    /\ tx[s].at \in Place
    /\ tx[s].work \in Mail \union Export \union {None}
    /\ tx[s].queue \subseteq OrderId
    /\ tx[s].sn \in Sns \union {None}
    /\ tx[s].put \subseteq Entries
    /\ tx[s].wrote \in [OrderId -> Row \union {None}]

CommittedType ==
    /\ mirror \subseteq listed /\ beside \subseteq listed /\ listed \subseteq Entries
    /\ orders \in [OrderId -> Row \union {None}]
    /\ loaded \in Export \union {None}
    /\ started \in 0 .. MaxCommands
    /\ tx = [s \in Session |-> tx[s]]

TypeInv == CommittedType /\ \A s \in Session : SessionType(s)

Deleting == {"snapshot", "delete", "rows"}
Syncing == {"snapshot", "delete", "rows", "list"}
Submitting == {"email", "look", "attach", "order", "insert"}
Matching == {"score", "pick", "lock", "triggers", "index"}

(* An SN that a client of the Register has, and who may have it. *)
ListedFor(rows, sn, customer) == \E r \in rows : r.sn = sn /\ SameCustomer(r, customer)

(* What is certain when a session has got to a place. *)
Control(s) ==
    /\ tx[s].at \in Syncing => tx[s].work \in Export
    /\ tx[s].at \in Submitting => tx[s].work \in Mail
    /\ tx[s].at \in Matching => tx[s].queue # {} /\ tx[s].queue \subseteq OrdersSeen(s)
    /\ tx[s].at \in {"triggers", "index"} => tx[s].wrote[Current(s)] # None
    /\ tx[s].at \in Matching \union {"commit"} /\ tx[s].work \in Mail => AlreadyLoaded(s)

(* What may be written next. *)
Allowed(s) ==
    /\ tx[s].at = "insert" /\ Content[tx[s].work].sn # None =>
          ListedFor(listed \union tx[s].put, Content[tx[s].work].sn, Content[tx[s].work].customer)
    /\ tx[s].at = "index" =>
          LET row == tx[s].wrote[Current(s)] IN
          \/ row.sn = tx[s].sn
          \/ /\ row.status = "open"
             /\ ListedFor(listed \union tx[s].put, tx[s].sn, Content[row.mail].customer)

-----------------------------------------------------------------------------
(* The orders.  No two rows share a key, in what is committed, in what a   *)
(* session sees and in what two sessions have written; and nobody else has *)
(* written or changed the order that a session has written.                *)

Apart(a, b) ==
    /\ a.sn = None \/ a.sn # b.sn
    /\ SubmissionKey(a.mail) # SubmissionKey(b.mail)

Keeps(a, b) ==
    /\ a.mail = b.mail /\ a.status = b.status
    /\ a.status # "open" => a.sn = b.sn

SourcedRow(rows, row) == row.sn # None => ListedFor(rows, row.sn, Content[row.mail].customer)

CommittedOrders ==
    /\ \A o \in OrderId : orders[o] # None => SourcedRow(listed, orders[o])
    /\ \A o, p \in OrderId : o # p /\ orders[o] # None /\ orders[p] # None => Apart(orders[o], orders[p])

SeenApart(s) == \A o, p \in OrdersSeen(s) : o # p => Apart(OrderSeen(s, o), OrderSeen(s, p))

Written(s) ==
    \A o \in OrderId : tx[s].wrote[o] # None =>
        /\ orders[o] # None => Keeps(orders[o], tx[s].wrote[o])
        /\ SourcedRow(listed \union tx[s].put, tx[s].wrote[o])

WritesApart(s, t) ==
    \A o, p \in OrderId : tx[s].wrote[o] # None /\ tx[t].wrote[p] # None =>
        o # p /\ Apart(tx[s].wrote[o], tx[t].wrote[p])

-----------------------------------------------------------------------------
(* The mirror is the last export and what came beside it.  Of a sync that  *)
(* has started its DELETE it is known where every row of the mirror is: it *)
(* is about to be deleted or has been, or another sync committed it later. *)

MirrorLoaded ==
    IF loaded = None THEN mirror = {}
    ELSE RowsOf[loaded] \subseteq mirror /\ mirror \subseteq RowsOf[loaded] \union beside

Replacing(s) ==
    /\ tx[s].work \notin Export => tx[s].gone = {} /\ tx[s].put = {}
    /\ tx[s].snap \union tx[s].gone \subseteq mirror /\ tx[s].late \subseteq listed
    /\ tx[s].at # "delete" => tx[s].snap = {}
    /\ tx[s].at \in {"snapshot", "delete"} => tx[s].gone = {}
    /\ tx[s].at \in Deleting => tx[s].put = {}
    /\ tx[s].at \notin Deleting /\ tx[s].work \in Export => tx[s].put = RowsOf[tx[s].work]
    /\ DeleteStarted(s) => mirror \ (tx[s].snap \union tx[s].gone) \subseteq tx[s].late

ReplacedByOne(s, t) == tx[s].gone \intersect tx[t].gone = {}

(* The attachments: a key is inserted once. *)
Inserted(s) == tx[s].held \intersect shared = {}

InsertedByOne(s, t) == tx[s].held \intersect tx[t].held = {}

SessionInv(s) ==
    /\ Control(s) /\ Allowed(s) /\ SeenApart(s) /\ Written(s)
    /\ Replacing(s) /\ Inserted(s)

PairInv(s, t) == WritesApart(s, t) /\ ReplacedByOne(s, t) /\ InsertedByOne(s, t)

IntakeInv ==
    /\ TypeInv
    /\ CommittedOrders
    /\ MirrorLoaded
    /\ \A s \in Session : SessionInv(s)
    /\ \A s, t \in Session : s # t => PairInv(s, t)

-----------------------------------------------------------------------------
(* A step of one session leaves what the others rely on as it was.         *)

Local(s) ==
    /\ UNCHANGED committed
    /\ started' \in 0 .. MaxCommands
    /\ tx' = [t \in Session |-> tx'[t]]
    /\ \A t \in Session \ {s} : tx'[t] = tx[t]

LEMMA Becoming ==
    ASSUME TypeInv, NEW s \in Session, NEW state, Becomes(s, state)
    PROVE  Local(s) /\ tx'[s] = state
BY DEF Becomes, Local, TypeInv, CommittedType

LEMMA Starting ==
    ASSUME TypeInv, NEW s \in Session, NEW state, Starts(s, state)
    PROVE  Local(s) /\ tx'[s] = state
BY BoundAssumption DEF Starts, Local, TypeInv, CommittedType

LEMMA OthersRelyOn ==
    ASSUME IntakeInv, NEW s \in Session, Local(s), NEW t \in Session \ {s}
    PROVE  SessionType(t)' /\ SessionInv(t)'
<1>1. /\ tx'[t] = tx[t] /\ SessionType(t) /\ SessionInv(t)
      /\ mirror' = mirror /\ orders' = orders /\ shared' = shared /\ listed' = listed
  BY DEF Local, committed, IntakeInv, TypeInv
<1>2. SessionType(t)'
  BY <1>1 DEF SessionType, Shaped
<1>3. Control(t)'
  BY <1>1 DEF SessionInv, Control, OrdersSeen, OrderSeen, AlreadyLoaded, Current
<1>4. Allowed(t)'
  BY <1>1 DEF SessionInv, Allowed, Current
<1>5. SeenApart(t)' /\ Written(t)'
  BY <1>1 DEF SessionInv, SeenApart, Written, OrdersSeen, OrderSeen
<1>6. Replacing(t)' /\ Inserted(t)'
  BY <1>1 DEF SessionInv, Replacing, DeleteStarted, Inserted
<1> QED
  BY <1>2, <1>3, <1>4, <1>5, <1>6 DEF SessionInv

LEMMA PairsOfOthers ==
    ASSUME IntakeInv, NEW s \in Session, Local(s),
           NEW t \in Session \ {s}, NEW u \in Session \ {s}, t # u
    PROVE  PairInv(t, u)'
<1>1. PairInv(t, u) /\ tx'[t] = tx[t] /\ tx'[u] = tx[u]
  BY DEF Local, IntakeInv
<1> QED
  BY <1>1 DEF PairInv, WritesApart, ReplacedByOne, InsertedByOne

LEMMA PairsAreSymmetric ==
    ASSUME NEW s \in Session, NEW t \in Session, PairInv(s, t)'
    PROVE  PairInv(t, s)'
BY DEF PairInv, WritesApart, ReplacedByOne, InsertedByOne, Apart

LEMMA LocalKeeps ==
    ASSUME IntakeInv, NEW s \in Session, Local(s), SessionType(s)', SessionInv(s)',
           \A t \in Session \ {s} : PairInv(s, t)'
    PROVE  IntakeInv'
<1>1. \A t \in Session : SessionType(t)' /\ SessionInv(t)'
  BY OthersRelyOn
<1>2. \A t, u \in Session : t # u => PairInv(t, u)'
  BY PairsOfOthers, PairsAreSymmetric
<1>3. CommittedType'
  BY DEF Local, committed, IntakeInv, TypeInv, CommittedType
<1>4. CommittedOrders' /\ MirrorLoaded'
  BY DEF Local, committed, IntakeInv, CommittedOrders, MirrorLoaded
<1> QED
  BY <1>1, <1>2, <1>3, <1>4 DEF IntakeInv, TypeInv

-----------------------------------------------------------------------------
(* What a step does not write stays as it was.                             *)

LEMMA SameOrders ==
    ASSUME IntakeInv, NEW s \in Session, Local(s), tx'[s].wrote = tx[s].wrote,
           tx[s].put \subseteq tx'[s].put
    PROVE  SeenApart(s)' /\ Written(s)' /\ \A t \in Session \ {s} : WritesApart(s, t)'
<1>1. SeenApart(s) /\ Written(s) /\ orders' = orders /\ listed' = listed
  BY DEF Local, committed, IntakeInv, SessionInv
<1>2. SeenApart(s)'
  BY <1>1 DEF SeenApart, OrdersSeen, OrderSeen
<1>3. Written(s)'
  BY <1>1 DEF Written, SourcedRow, ListedFor
<1>4. ASSUME NEW t \in Session \ {s}
      PROVE  WritesApart(s, t)'
  BY DEF Local, IntakeInv, PairInv, WritesApart
<1> QED
  BY <1>2, <1>3, <1>4

LEMMA SameMirror ==
    ASSUME IntakeInv, NEW s \in Session, Local(s), tx'[s].work = tx[s].work, tx'[s].snap = tx[s].snap,
           tx'[s].gone = tx[s].gone, tx'[s].put = tx[s].put, tx'[s].late = tx[s].late,
           tx[s].at \notin Deleting, tx'[s].at \notin Deleting
    PROVE  Replacing(s)' /\ \A t \in Session \ {s} : ReplacedByOne(s, t)'
<1>1. Replacing(s) /\ mirror' = mirror /\ listed' = listed
  BY DEF Local, committed, IntakeInv, SessionInv
<1>2. Replacing(s)'
  BY <1>1 DEF Replacing, DeleteStarted, Deleting
<1>3. ASSUME NEW t \in Session \ {s}
      PROVE  ReplacedByOne(s, t)'
  BY DEF Local, IntakeInv, PairInv, ReplacedByOne
<1> QED
  BY <1>2, <1>3

LEMMA SameKeys ==
    ASSUME IntakeInv, NEW s \in Session, Local(s), tx'[s].held = tx[s].held
    PROVE  Inserted(s)' /\ \A t \in Session \ {s} : InsertedByOne(s, t)'
BY DEF Local, committed, IntakeInv, SessionInv, PairInv, Inserted, InsertedByOne

(* A transaction that has just started, or has ended, has written nothing. *)
LEMMA NothingWritten ==
    ASSUME IntakeInv, NEW s \in Session, Local(s), tx'[s].wrote = [o \in OrderId |-> None],
           tx'[s].snap = {}, tx'[s].gone = {}, tx'[s].put = {}, tx'[s].late = {}, tx'[s].held = {},
           tx'[s].work \in Export => tx'[s].at = "snapshot"
    PROVE  /\ SeenApart(s)' /\ Written(s)' /\ Replacing(s)' /\ Inserted(s)'
           /\ \A t \in Session \ {s} : PairInv(s, t)'
<1>1. CommittedOrders /\ orders' = orders
  BY DEF Local, committed, IntakeInv
<1>2. SeenApart(s)'
  BY <1>1 DEF CommittedOrders, SeenApart, OrdersSeen, OrderSeen
<1>3. Written(s)'
  BY DEF Written
<1>4. Replacing(s)' /\ Inserted(s)'
  BY DEF Replacing, DeleteStarted, Deleting, Inserted
<1>5. ASSUME NEW t \in Session \ {s}
      PROVE  PairInv(s, t)'
  BY DEF PairInv, WritesApart, ReplacedByOne, InsertedByOne
<1> QED
  BY <1>2, <1>3, <1>4, <1>5

-----------------------------------------------------------------------------
(* The first order of a queue, and the rows of an export.                  *)

LEMMA LeastOrder ==
    ASSUME NEW T, T \subseteq OrderId, T # {}
    PROVE  Min(T) \in T
<1>1. T \subseteq Nat
  BY BoundAssumption DEF OrderId
<1>2. \E m \in T : \A n \in T : m <= n
  BY <1>1, Reading!LeastNat
<1> QED
  BY <1>2 DEF Min

LEMMA RowsAreEntries ==
    /\ \A e \in Export : RowsOf[e] \subseteq Entries
    /\ \A r \in Entries : r.sn \in Sns
BY DEF Entries, Sns, SnsOf, RowsOf

LEMMA SeenIsListed ==
    ASSUME TypeInv, NEW s \in Session
    PROVE  RegisterSeen(s) \subseteq Entries \intersect (listed \union tx[s].put)
BY DEF TypeInv, CommittedType, SessionType, RegisterSeen

-----------------------------------------------------------------------------
(* Most steps only go on to another place; some insert a shared key first. *)

Moves(s) ==
    /\ Local(s)
    /\ Shaped(tx'[s])
    /\ tx'[s].work = tx[s].work /\ tx'[s].snap = tx[s].snap /\ tx'[s].gone = tx[s].gone
    /\ tx'[s].put = tx[s].put /\ tx'[s].late = tx[s].late /\ tx'[s].wrote = tx[s].wrote
    /\ \/ tx'[s].held = tx[s].held
       \/ \E key : /\ tx'[s].held = Ensured(s, key)
                   /\ \A t \in Session \ {s} : key \notin tx[t].held

LEMMA KeyInsertedOnce ==
    ASSUME IntakeInv, NEW s \in Session, Moves(s)
    PROVE  Inserted(s)' /\ \A t \in Session \ {s} : InsertedByOne(s, t)'
<1>1. CASE tx'[s].held = tx[s].held
  BY <1>1, SameKeys DEF Moves
<1>2. ASSUME NEW key, tx'[s].held = Ensured(s, key), \A t \in Session \ {s} : key \notin tx[t].held
      PROVE  Inserted(s)' /\ \A t \in Session \ {s} : InsertedByOne(s, t)'
  <2>1. Inserted(s) /\ shared' = shared /\ \A t \in Session \ {s} : tx'[t] = tx[t] /\ InsertedByOne(s, t)
    BY DEF Moves, Local, committed, IntakeInv, SessionInv, PairInv
  <2> QED
    BY <1>2, <2>1 DEF Inserted, InsertedByOne, Ensured
<1> QED
  BY <1>1, <1>2 DEF Moves

LEMMA MovesKeep ==
    ASSUME IntakeInv, NEW s \in Session, Moves(s),
           tx[s].at \notin Deleting, tx'[s].at \in Place \ Deleting,
           tx'[s].queue \subseteq OrderId, tx'[s].sn \in Sns \union {None},
           Control(s)', Allowed(s)'
    PROVE  IntakeInv'
<1>1. SessionType(s)'
  BY DEF Moves, IntakeInv, TypeInv, SessionType
<1>2. SeenApart(s)' /\ Written(s)' /\ \A t \in Session \ {s} : WritesApart(s, t)'
  BY SameOrders DEF Moves
<1>3. Replacing(s)' /\ \A t \in Session \ {s} : ReplacedByOne(s, t)'
  BY SameMirror DEF Moves
<1>4. Inserted(s)' /\ \A t \in Session \ {s} : InsertedByOne(s, t)'
  BY KeyInsertedOnce
<1>5. SessionInv(s)' /\ \A t \in Session \ {s} : PairInv(s, t)'
  BY <1>2, <1>3, <1>4 DEF SessionInv, PairInv
<1> QED
  BY <1>1, <1>5, LocalKeeps DEF Moves

(* A session sees the same orders after a move. *)
LEMMA SameView ==
    ASSUME NEW s \in Session, Moves(s)
    PROVE  OrdersSeen(s)' = OrdersSeen(s) /\ (AlreadyLoaded(s)' <=> AlreadyLoaded(s))
BY DEF Moves, Local, committed, OrdersSeen, OrderSeen, AlreadyLoaded

(* On to the next order of the queue. *)
LEMMA Advancing ==
    ASSUME IntakeInv, NEW s \in Session, tx[s].at \in Matching, Becomes(s, Advanced(s, tx[s]))
    PROVE  IntakeInv'
<1>1. tx'[s] = Advanced(s, tx[s]) /\ Local(s) /\ SessionType(s) /\ Control(s)
  BY Becoming DEF IntakeInv, TypeInv, SessionInv
<1>2. /\ Moves(s)
      /\ tx'[s].queue = tx[s].queue \ {Current(s)} /\ tx'[s].sn = None
      /\ tx'[s].at = IF tx[s].queue \ {Current(s)} = {} THEN "commit" ELSE "score"
  BY <1>1 DEF Moves, Advanced, SessionType, Shaped
<1>3. Control(s)'
  BY <1>1, <1>2, SameView DEF Control, Syncing, Submitting, Matching, Moves
<1>4. Allowed(s)'
  BY <1>2 DEF Allowed
<1> QED
  BY <1>1, <1>2, <1>3, <1>4, MovesKeep DEF SessionType, Place, Deleting, Matching

LEMMA ListPendingKeeps ==
    ASSUME IntakeInv, NEW s \in Session, ListPending(s)
    PROVE  IntakeInv'
<1>1. /\ tx'[s] = [tx[s] EXCEPT !.at = IF Pending(s) = {} THEN "commit" ELSE "score",
                               !.queue = Pending(s)]
      /\ tx[s].at = "list" /\ Local(s) /\ SessionType(s) /\ Control(s)
  BY Becoming DEF IntakeInv, TypeInv, SessionInv, ListPending, At
<1>2. /\ Moves(s)
      /\ tx'[s].queue = Pending(s) /\ tx'[s].sn = tx[s].sn
      /\ tx'[s].at = IF Pending(s) = {} THEN "commit" ELSE "score"
  BY <1>1 DEF Moves, SessionType, Shaped
<1>3. tx[s].work \notin Mail
  BY <1>1, FileAssumption DEF Control, Syncing
<1>4. Pending(s) \subseteq OrdersSeen(s) /\ OrdersSeen(s) \subseteq OrderId
  BY DEF Pending, OrdersSeen
<1>5. Control(s)'
  BY <1>2, <1>3, <1>4, SameView DEF Control, Syncing, Submitting, Matching, Moves
<1>6. Allowed(s)'
  BY <1>2 DEF Allowed
<1> QED
  BY <1>1, <1>2, <1>4, <1>5, <1>6, MovesKeep DEF SessionType, Place, Deleting

LEMMA FindBestKeeps ==
    ASSUME IntakeInv, NEW s \in Session, FindBest(s)
    PROVE  IntakeInv'
<1>1. tx[s].at = "score" /\ SessionType(s) /\ Control(s)
  BY DEF IntakeInv, TypeInv, SessionInv, FindBest, At
<1>2. CASE CandidatesOf(s) = {}
  BY <1>1, <1>2, Advancing DEF FindBest, Matching
<1>3. CASE CandidatesOf(s) # {}
  <2>1. PICK best : tx'[s] = [tx[s] EXCEPT !.at = "pick", !.best = best] /\ Local(s)
    BY <1>3, Becoming DEF FindBest, IntakeInv
  <2>2. Moves(s) /\ tx'[s].queue = tx[s].queue /\ tx'[s].sn = tx[s].sn /\ tx'[s].at = "pick"
    BY <1>1, <2>1 DEF Moves, SessionType, Shaped
  <2>3. Control(s)' /\ Allowed(s)'
    BY <1>1, <2>2, SameView DEF Control, Allowed, Syncing, Submitting, Matching, Moves
  <2> QED
    BY <1>1, <2>2, <2>3, MovesKeep DEF SessionType, Place, Deleting
<1> QED
  BY <1>2, <1>3

LEMMA PickSnKeeps ==
    ASSUME IntakeInv, NEW s \in Session, PickSn(s)
    PROVE  IntakeInv'
<1> DEFINE found == {r \in CandidatesOf(s) : ScoreOf(s, r) = tx[s].best}
<1>1. tx[s].at = "pick" /\ SessionType(s) /\ Control(s)
  BY DEF IntakeInv, TypeInv, SessionInv, PickSn, At
<1>2. CASE Cardinality(found) # 1
  BY <1>1, <1>2, Advancing DEF PickSn, Matching
<1>3. CASE Cardinality(found) = 1
  <2>1. PICK r \in found : tx'[s] = [tx[s] EXCEPT !.at = "lock", !.sn = r.sn] /\ Local(s)
    <3>1. found # {}
      BY <1>3, FS_EmptySet
    <3>2. Becomes(s, [tx[s] EXCEPT !.at = "lock", !.sn = (CHOOSE r \in found : TRUE).sn])
      BY <1>3 DEF PickSn
    <3> QED
      BY <3>1, <3>2, Becoming DEF IntakeInv
  <2>2. r.sn \in Sns
    BY SeenIsListed, RowsAreEntries DEF CandidatesOf, Candidates, IntakeInv
  <2>3. Moves(s) /\ tx'[s].queue = tx[s].queue /\ tx'[s].sn = r.sn /\ tx'[s].at = "lock"
    BY <1>1, <2>1 DEF Moves, SessionType, Shaped
  <2>4. Control(s)' /\ Allowed(s)'
    BY <1>1, <2>3, SameView DEF Control, Allowed, Syncing, Submitting, Matching, Moves
  <2> QED
    BY <1>1, <2>2, <2>3, <2>4, MovesKeep DEF SessionType, Place, Deleting
<1> QED
  BY <1>2, <1>3

LEMMA RunTriggersKeeps ==
    ASSUME IntakeInv, NEW s \in Session, RunTriggers(s), ~Fail(s)
    PROVE  IntakeInv'
<1> DEFINE row == tx[s].wrote[Current(s)]
<1>1. tx[s].at = "triggers" /\ SessionType(s) /\ Control(s)
  BY DEF IntakeInv, TypeInv, SessionInv, RunTriggers, At
<1>2. /\ \/ row.sn = tx[s].sn
         \/ ~ContentLocked(row) /\ OnRegister(s, tx[s].sn, Content[row.mail].customer)
      /\ tx'[s] = [tx[s] EXCEPT !.at = "index"] /\ Local(s)
  BY Becoming DEF RunTriggers, IntakeInv
<1>3. Moves(s) /\ tx'[s].queue = tx[s].queue /\ tx'[s].sn = tx[s].sn /\ tx'[s].at = "index"
  BY <1>1, <1>2 DEF Moves, SessionType, Shaped
<1>4. Control(s)'
  BY <1>1, <1>3, SameView DEF Control, Current, Syncing, Submitting, Matching, Moves
<1>5. Allowed(s)'
  <2>1. \/ row.sn = tx[s].sn
        \/ /\ row.status = "open"
           /\ ListedFor(listed \union tx[s].put, tx[s].sn, Content[row.mail].customer)
    BY <1>2, SeenIsListed DEF ContentLocked, OnRegister, ListedFor, IntakeInv
  <2>2. listed' = listed /\ tx'[s].put = tx[s].put /\ tx'[s].wrote = tx[s].wrote /\ Current(s)' = Current(s)
    BY <1>3 DEF Moves, Local, committed, Current
  <2> QED
    BY <1>3, <2>1, <2>2 DEF Allowed, ListedFor
<1> QED
  BY <1>1, <1>3, <1>4, <1>5, MovesKeep DEF SessionType, Place, Deleting

LEMMA UpsertEmailKeeps ==
    ASSUME IntakeInv, NEW s \in Session, UpsertEmail(s)
    PROVE  IntakeInv'
<1>1. /\ tx'[s] = [tx[s] EXCEPT !.at = "look", !.held = Ensured(s, EmailKey(tx[s].work))]
      /\ tx[s].at = "email" /\ Local(s) /\ SessionType(s) /\ Control(s)
  BY Becoming DEF IntakeInv, TypeInv, SessionInv, UpsertEmail, At
<1>2. \A t \in Session \ {s} : EmailKey(tx[s].work) \notin tx[t].held
  BY <1>1 DEF UpsertEmail, At, Blockers, Holds
<1>3. /\ Moves(s)
      /\ tx'[s].queue = tx[s].queue /\ tx'[s].sn = tx[s].sn /\ tx'[s].at = "look"
  BY <1>1, <1>2 DEF Moves, SessionType, Shaped
<1>4. Control(s)' /\ Allowed(s)'
  BY <1>1, <1>3 DEF Control, Allowed, Syncing, Submitting, Matching, Moves
<1> QED
  BY <1>1, <1>3, <1>4, MovesKeep DEF SessionType, Place, Deleting

LEMMA LookForOrderKeeps ==
    ASSUME IntakeInv, NEW s \in Session, LookForOrder(s), ~Fail(s)
    PROVE  IntakeInv'
<1>1. tx[s].at = "look" /\ SessionType(s) /\ Control(s)
  BY DEF IntakeInv, TypeInv, SessionInv, LookForOrder, At
<1>2. PICK place \in {"commit", "order", "attach"} : \E todo :
          /\ tx'[s] = [tx[s] EXCEPT !.at = place, !.todo = todo] /\ Local(s)
          /\ place = "commit" => AlreadyLoaded(s)
  <2>1. CASE AlreadyLoaded(s)
    <3>1. tx'[s] = [tx[s] EXCEPT !.at = "commit"] /\ Local(s)
      BY <2>1, Becoming DEF LookForOrder, IntakeInv
    <3>2. tx'[s] = [tx[s] EXCEPT !.at = "commit", !.todo = tx[s].todo]
      BY <1>1, <3>1 DEF SessionType, Shaped
    <3> QED
      BY <2>1, <3>1, <3>2
  <2>2. CASE ~AlreadyLoaded(s)
    <3> DEFINE todo == Attachments(Content[tx[s].work])
    <3>1. /\ tx'[s] = [tx[s] EXCEPT !.at = IF todo = <<>> THEN "order" ELSE "attach", !.todo = todo]
          /\ Local(s)
      BY <2>2, Becoming DEF LookForOrder, IntakeInv
    <3> HIDE DEF todo
    <3> QED
      BY <3>1
  <2> QED
    BY <2>1, <2>2
<1>3. Moves(s) /\ tx'[s].queue = tx[s].queue /\ tx'[s].sn = tx[s].sn /\ tx'[s].at = place
  BY <1>1, <1>2 DEF Moves, SessionType, Shaped
<1>4. Control(s)' /\ Allowed(s)'
  BY <1>1, <1>2, <1>3, SameView DEF Control, Allowed, Syncing, Submitting, Matching, Moves
<1> QED
  BY <1>1, <1>3, <1>4, MovesKeep DEF SessionType, Place, Deleting

LEMMA AttachKeeps ==
    ASSUME IntakeInv, NEW s \in Session, Attach(s), ~Fail(s)
    PROVE  IntakeInv'
<1> DEFINE key == Head(tx[s].todo).key
<1>1. tx[s].at = "attach" /\ SessionType(s) /\ Control(s)
  BY DEF IntakeInv, TypeInv, SessionInv, Attach, At
<1>2. PICK place \in {"order", "attach"} : \E todo :
          /\ tx'[s] = [tx[s] EXCEPT !.at = place, !.todo = todo, !.held = Ensured(s, key)] /\ Local(s)
  <2> DEFINE rest == Tail(tx[s].todo)
  <2>1. /\ tx'[s] = [tx[s] EXCEPT !.at = IF rest = <<>> THEN "order" ELSE "attach",
                                 !.todo = rest, !.held = Ensured(s, key)]
        /\ Local(s)
    BY Becoming DEF Attach, IntakeInv
  <2> HIDE DEF rest, key
  <2> QED
    BY <2>1
<1>3. \A t \in Session \ {s} : key \notin tx[t].held
  BY <1>1 DEF Attach, At, Blockers, Holds
<1> HIDE DEF key
<1>4. Moves(s) /\ tx'[s].queue = tx[s].queue /\ tx'[s].sn = tx[s].sn /\ tx'[s].at = place
  BY <1>1, <1>2, <1>3 DEF Moves, SessionType, Shaped
<1>5. Control(s)' /\ Allowed(s)'
  BY <1>1, <1>4 DEF Control, Allowed, Syncing, Submitting, Matching, Moves
<1> QED
  BY <1>1, <1>4, <1>5, MovesKeep DEF SessionType, Place, Deleting

LEMMA CheckGivenSnKeeps ==
    ASSUME IntakeInv, NEW s \in Session, CheckGivenSn(s), ~Fail(s)
    PROVE  IntakeInv'
<1> DEFINE sub == Content[tx[s].work]
<1>1. tx[s].at = "order" /\ SessionType(s) /\ Control(s)
  BY DEF IntakeInv, TypeInv, SessionInv, CheckGivenSn, At
<1>2. /\ sub.sn = None \/ OnRegister(s, sub.sn, sub.customer)
      /\ tx'[s] = [tx[s] EXCEPT !.at = "insert"] /\ Local(s)
  BY Becoming DEF CheckGivenSn, IntakeInv
<1>3. Moves(s) /\ tx'[s].queue = tx[s].queue /\ tx'[s].sn = tx[s].sn /\ tx'[s].at = "insert"
  BY <1>1, <1>2 DEF Moves, SessionType, Shaped
<1>4. Control(s)'
  BY <1>1, <1>3 DEF Control, Syncing, Submitting, Matching, Moves
<1>5. Allowed(s)'
  <2>1. sub.sn # None => ListedFor(listed \union tx[s].put, sub.sn, sub.customer)
    BY <1>2, SeenIsListed DEF OnRegister, ListedFor, IntakeInv
  <2>2. listed' = listed /\ tx'[s].put = tx[s].put /\ tx'[s].work = tx[s].work
    BY <1>3 DEF Moves, Local, committed
  <2> QED
    BY <1>3, <2>1, <2>2 DEF Allowed, ListedFor
<1> QED
  BY <1>1, <1>3, <1>4, <1>5, MovesKeep DEF SessionType, Place, Deleting

-----------------------------------------------------------------------------
(* A sync. *)

LEMMA ExportRows ==
    ASSUME NEW e \in Export
    PROVE  RowsOf[e] = FirstTrustedRows(Sheet[e].lines)
<1>1. Len(Sheet[e].lines) \in Nat /\ DOMAIN Sheet[e].lines = 1 .. Len(Sheet[e].lines)
  BY SheetAssumption
<1> QED
  BY <1>1, ParseIsFirstTrusted DEF RowsOf

LEMMA SnapshotKeeps ==
    ASSUME IntakeInv, NEW s \in Session, Snapshot(s)
    PROVE  IntakeInv'
<1>1. /\ tx'[s] = [tx[s] EXCEPT !.at = "delete", !.snap = mirror] /\ tx[s].at = "snapshot"
      /\ Local(s) /\ SessionType(s) /\ Control(s) /\ Replacing(s)
  BY Becoming DEF IntakeInv, TypeInv, SessionInv, Snapshot, At
<1>2. /\ tx'[s].at = "delete" /\ tx'[s].snap = mirror /\ Shaped(tx'[s])
      /\ tx'[s].work = tx[s].work /\ tx'[s].gone = tx[s].gone /\ tx'[s].put = tx[s].put
      /\ tx'[s].late = tx[s].late /\ tx'[s].wrote = tx[s].wrote /\ tx'[s].held = tx[s].held
      /\ tx'[s].queue = tx[s].queue /\ tx'[s].sn = tx[s].sn
  BY <1>1 DEF SessionType, Shaped
<1>3. SessionType(s)'
  BY <1>1, <1>2 DEF SessionType, Place
<1>4. Control(s)' /\ Allowed(s)'
  BY <1>1, <1>2 DEF Control, Allowed, Syncing, Submitting, Matching
<1>5. Replacing(s)'
  <2>1. mirror' = mirror /\ listed' = listed
    BY <1>1 DEF Local, committed
  <2>2. mirror \ (mirror \union tx[s].gone) = {}
    OBVIOUS
  <2> QED
    BY <1>1, <1>2, <2>1, <2>2 DEF Replacing, DeleteStarted, Deleting
<1>6. \A t \in Session \ {s} : ReplacedByOne(s, t)'
  BY <1>1, <1>2 DEF IntakeInv, PairInv, ReplacedByOne, Local
<1> QED
  BY <1>1, <1>2, <1>3, <1>4, <1>5, <1>6, SameOrders, SameKeys, LocalKeeps DEF SessionInv, PairInv

LEMMA DeleteMirrorKeeps ==
    ASSUME IntakeInv, NEW s \in Session, DeleteMirror(s)
    PROVE  IntakeInv'
<1>1. /\ tx'[s] = [tx[s] EXCEPT !.at = "rows", !.gone = @ \union tx[s].snap, !.snap = {}]
      /\ tx[s].at = "delete" /\ Local(s) /\ SessionType(s) /\ Control(s) /\ Replacing(s)
  BY Becoming DEF IntakeInv, TypeInv, SessionInv, DeleteMirror, At
<1>2. /\ tx'[s].at = "rows" /\ tx'[s].snap = {} /\ Shaped(tx'[s])
      /\ tx'[s].work = tx[s].work /\ tx'[s].gone = tx[s].gone \union tx[s].snap
      /\ tx'[s].put = tx[s].put /\ tx'[s].late = tx[s].late
      /\ tx'[s].wrote = tx[s].wrote /\ tx'[s].held = tx[s].held
      /\ tx'[s].queue = tx[s].queue /\ tx'[s].sn = tx[s].sn
  BY <1>1 DEF SessionType, Shaped
<1>3. SessionType(s)'
  BY <1>1, <1>2 DEF SessionType, Place
<1>4. Control(s)' /\ Allowed(s)'
  BY <1>1, <1>2 DEF Control, Allowed, Syncing, Submitting, Matching
<1>5. tx'[s].gone = tx[s].snap /\ tx[s].work \in Export
  BY <1>1, <1>2 DEF Replacing, Control, Syncing
<1>6. Replacing(s)'
  <2>1. mirror' = mirror /\ listed' = listed
    BY <1>1 DEF Local, committed
  <2>2. mirror \ (tx[s].snap \union tx[s].gone) \subseteq tx[s].late
    BY <1>1, <1>5 DEF Replacing, DeleteStarted
  <2> QED
    BY <1>1, <1>2, <1>5, <2>1, <2>2 DEF Replacing, DeleteStarted, Deleting
<1>7. ASSUME NEW t \in Session \ {s}
      PROVE  ReplacedByOne(s, t)'
  <2>1. tx[t].gone \intersect tx[s].snap = {}
    BY <1>1 DEF DeleteMirror, At, Blockers, Holds
  <2> QED
    BY <1>1, <1>5, <2>1 DEF ReplacedByOne, Local
<1> QED
  BY <1>1, <1>2, <1>3, <1>4, <1>6, <1>7, SameOrders, SameKeys, LocalKeeps DEF SessionInv, PairInv

LEMMA InsertRowsKeeps ==
    ASSUME IntakeInv, NEW s \in Session, InsertRows(s), ~Fail(s)
    PROVE  IntakeInv'
<1> DEFINE rows == RowsOf[tx[s].work]
<1>1. tx[s].at = "rows" /\ SessionType(s) /\ Control(s) /\ Replacing(s)
  BY DEF IntakeInv, TypeInv, SessionInv, InsertRows, At
<1>2. tx'[s] = [tx[s] EXCEPT !.at = "list", !.put = rows] /\ Local(s)
  BY Becoming DEF InsertRows, IntakeInv
<1>3. tx[s].work \in Export /\ tx[s].put = {} /\ tx[s].snap = {}
  BY <1>1 DEF Control, Syncing, Replacing, Deleting
<1>4. /\ tx'[s].at = "list" /\ tx'[s].put = rows /\ Shaped(tx'[s])
      /\ tx'[s].work = tx[s].work /\ tx'[s].gone = tx[s].gone /\ tx'[s].snap = tx[s].snap
      /\ tx'[s].late = tx[s].late /\ tx'[s].wrote = tx[s].wrote /\ tx'[s].held = tx[s].held
      /\ tx'[s].queue = tx[s].queue /\ tx'[s].sn = tx[s].sn
  BY <1>1, <1>2 DEF SessionType, Shaped
<1>5. SessionType(s)'
  BY <1>1, <1>3, <1>4, RowsAreEntries DEF SessionType, Place
<1>6. Control(s)' /\ Allowed(s)'
  BY <1>1, <1>4 DEF Control, Allowed, Syncing, Submitting, Matching
<1>7. Replacing(s)'
  <2>1. mirror' = mirror /\ listed' = listed
    BY <1>2 DEF Local, committed
  <2> QED
    BY <1>1, <1>3, <1>4, <2>1 DEF Replacing, DeleteStarted, Deleting
<1>8. \A t \in Session \ {s} : ReplacedByOne(s, t)'
  BY <1>2, <1>4 DEF IntakeInv, PairInv, ReplacedByOne, Local
<1> QED
  BY <1>2, <1>3, <1>4, <1>5, <1>6, <1>7, <1>8, SameOrders, SameKeys, LocalKeeps DEF SessionInv, PairInv

-----------------------------------------------------------------------------
(* The orders that a session writes. *)

LEMMA LockOrderKeeps ==
    ASSUME IntakeInv, NEW s \in Session, LockOrder(s)
    PROVE  IntakeInv'
<1> DEFINE cur == Current(s)
           row == OrderSeen(s, cur)
<1>1. /\ tx[s].at = "lock" /\ SessionType(s) /\ Control(s) /\ SeenApart(s) /\ Written(s)
      /\ CommittedType /\ CommittedOrders
  BY DEF IntakeInv, TypeInv, SessionInv, LockOrder, At
<1>2. cur \in tx[s].queue /\ cur \in OrderId /\ cur \in OrdersSeen(s)
  <2>1. tx[s].queue # {} /\ tx[s].queue \subseteq OrdersSeen(s) /\ tx[s].queue \subseteq OrderId
    BY <1>1 DEF Control, Matching, SessionType
  <2> QED
    BY <2>1, LeastOrder DEF Current
<1>3. row # None /\ row \in Row
  BY <1>1, <1>2 DEF OrdersSeen, OrderSeen, SessionType, CommittedType
<1>4. tx'[s] = [tx[s] EXCEPT !.at = "triggers", !.wrote[cur] = row] /\ Local(s)
  BY Becoming DEF LockOrder, IntakeInv
<1>5. \A t \in Session \ {s} : tx[t].wrote[cur] = None
  BY <1>1 DEF LockOrder, At, Blockers, Holds
<1> HIDE DEF cur, row
<1>6. /\ tx'[s].at = "triggers" /\ Shaped(tx'[s])
      /\ tx'[s].work = tx[s].work /\ tx'[s].gone = tx[s].gone /\ tx'[s].snap = tx[s].snap
      /\ tx'[s].put = tx[s].put /\ tx'[s].late = tx[s].late /\ tx'[s].held = tx[s].held
      /\ tx'[s].queue = tx[s].queue /\ tx'[s].sn = tx[s].sn
      /\ tx'[s].wrote = [tx[s].wrote EXCEPT ![cur] = row]
  BY <1>1, <1>4 DEF SessionType, Shaped
<1>7. /\ tx'[s].wrote \in [OrderId -> Row \union {None}] /\ tx'[s].wrote[cur] = row
      /\ \A o \in OrderId \ {cur} : tx'[s].wrote[o] = tx[s].wrote[o]
  BY <1>1, <1>2, <1>3, <1>6 DEF SessionType
<1>8. SessionType(s)'
  BY <1>1, <1>6, <1>7 DEF SessionType, Place
<1>9. \A o \in OrderId : OrderSeen(s, o)' = OrderSeen(s, o)
  BY <1>3, <1>4, <1>7 DEF OrderSeen, Local, committed, row
<1>10. OrdersSeen(s)' = OrdersSeen(s) /\ OrdersSeen(s) \subseteq OrderId
  BY <1>9 DEF OrdersSeen
<1>11. Control(s)'
  <2>1. AlreadyLoaded(s)' <=> AlreadyLoaded(s)
    BY <1>6, <1>9, <1>10 DEF AlreadyLoaded
  <2>2. Current(s)' = cur
    BY <1>6 DEF Current, cur
  <2> QED
    BY <1>1, <1>3, <1>6, <1>7, <1>10, <2>1, <2>2 DEF Control, Syncing, Submitting, Matching
<1>12. Allowed(s)'
  BY <1>6 DEF Allowed
<1>13. SeenApart(s)'
  BY <1>1, <1>9, <1>10 DEF SeenApart
<1>14. Written(s)'
  <2>1. SourcedRow(listed \union tx[s].put, row) /\ (orders[cur] # None => Keeps(orders[cur], row))
    BY <1>1, <1>2, <1>3 DEF row, OrderSeen, Written, CommittedOrders, SourcedRow, ListedFor, Keeps
  <2>2. orders' = orders /\ listed' = listed
    BY <1>4 DEF Local, committed
  <2> QED
    BY <1>1, <1>6, <1>7, <2>1, <2>2 DEF Written, SourcedRow, ListedFor
<1>15. ASSUME NEW t \in Session \ {s}
       PROVE  WritesApart(s, t)'
  <2>1. WritesApart(s, t) /\ SeenApart(t) /\ tx'[t] = tx[t]
    BY <1>4 DEF IntakeInv, PairInv, SessionInv, Local
  <2>2. ASSUME NEW p \in OrderId, tx[t].wrote[p] # None
        PROVE  cur # p /\ Apart(row, tx[t].wrote[p])
    <3>1. cur # p
      BY <1>5, <2>2
    <3>2. CASE tx[s].wrote[cur] # None
      BY <1>2, <2>1, <2>2, <3>2 DEF WritesApart, row, OrderSeen
    <3>3. CASE tx[s].wrote[cur] = None
      <4>1. row = orders[cur] /\ OrderSeen(t, cur) = row /\ OrderSeen(t, p) = tx[t].wrote[p]
        BY <1>5, <2>2, <3>3 DEF row, OrderSeen
      <4>2. cur \in OrdersSeen(t) /\ p \in OrdersSeen(t)
        BY <1>2, <1>3, <2>2, <4>1 DEF OrdersSeen
      <4> QED
        BY <2>1, <3>1, <4>1, <4>2 DEF SeenApart
    <3> QED
      BY <3>1, <3>2, <3>3
  <2> QED
    BY <1>7, <2>1, <2>2 DEF WritesApart
<1>16. Replacing(s)' /\ \A t \in Session \ {s} : ReplacedByOne(s, t)'
  BY <1>1, <1>4, <1>6, SameMirror DEF Deleting
<1> QED
  BY <1>4, <1>6, <1>8, <1>11, <1>12, <1>13, <1>14, <1>15, <1>16, SameKeys, LocalKeeps DEF SessionInv, PairInv

(* Who has claimed an SN has either found it on an order that everyone     *)
(* sees, or is waited for.                                                 *)
LEMMA SnUnclaimed ==
    ASSUME IntakeInv, NEW s \in Session, NEW t \in Session \ {s}, NEW sn,
           sn # None, sn \notin Claims(t), NEW p \in OrderId, tx[t].wrote[p] # None,
           tx[t].wrote[p].sn = sn
    PROVE  p \in OrdersSeen(s) /\ OrderSeen(s, p).sn = sn
<1>1. orders[p] # None /\ orders[p].sn = sn
  BY DEF Claims
<1>2. tx[s].wrote[p] = None
  BY DEF IntakeInv, PairInv, WritesApart
<1> QED
  BY <1>1, <1>2 DEF OrdersSeen, OrderSeen

LEMMA WriteSnKeeps ==
    ASSUME IntakeInv, NEW s \in Session, WriteSn(s), ~Fail(s)
    PROVE  IntakeInv'
<1> DEFINE cur == Current(s)
           old == tx[s].wrote[cur]
           new == [old EXCEPT !.sn = tx[s].sn]
           rest == tx[s].queue \ {cur}
<1>1. /\ tx[s].at = "index" /\ SessionType(s) /\ Control(s) /\ Allowed(s)
      /\ SeenApart(s) /\ Written(s) /\ CommittedType
  BY DEF IntakeInv, TypeInv, SessionInv, WriteSn, At
<1>2. cur \in OrderId /\ old # None /\ old \in Row
  <2>1. tx[s].queue # {} /\ tx[s].queue \subseteq OrderId /\ old # None
    BY <1>1 DEF Control, Matching, SessionType
  <2>2. cur \in OrderId
    BY <2>1, LeastOrder DEF Current
  <2> QED
    BY <1>1, <2>1, <2>2 DEF SessionType
<1>3. /\ new \in Row /\ new # None
      /\ new.mail = old.mail /\ new.status = old.status /\ new.sn = tx[s].sn
  BY <1>1, <1>2, FileAssumption DEF Row, SessionType
<1>4. /\ SnFree(s, cur, tx[s].sn) /\ Local(s)
      /\ tx'[s] = Advanced(s, [tx[s] EXCEPT !.wrote[cur].sn = tx[s].sn])
  BY Becoming DEF WriteSn, IntakeInv
<1>5. /\ tx'[s].at = IF rest = {} THEN "commit" ELSE "score"
      /\ tx'[s].queue = rest /\ tx'[s].sn = None /\ Shaped(tx'[s])
      /\ tx'[s].work = tx[s].work /\ tx'[s].gone = tx[s].gone /\ tx'[s].snap = tx[s].snap
      /\ tx'[s].put = tx[s].put /\ tx'[s].late = tx[s].late /\ tx'[s].held = tx[s].held
      /\ tx'[s].wrote = [tx[s].wrote EXCEPT ![cur] = new]
  BY <1>1, <1>4 DEF SessionType, Shaped, Advanced
<1>6. \A t \in Session \ {s} : tx[s].sn \notin Claims(t)
  BY <1>1 DEF WriteSn, At, Blockers, Holds
<1>7. \/ old.sn = tx[s].sn
      \/ /\ old.status = "open"
         /\ ListedFor(listed \union tx[s].put, tx[s].sn, Content[old.mail].customer)
  BY <1>1 DEF Allowed
<1> HIDE DEF cur, old, new
<1>8. /\ tx'[s].wrote \in [OrderId -> Row \union {None}] /\ tx'[s].wrote[cur] = new
      /\ \A o \in OrderId \ {cur} : tx'[s].wrote[o] = tx[s].wrote[o]
  BY <1>1, <1>2, <1>3, <1>5 DEF SessionType
<1>9. SessionType(s)'
  BY <1>1, <1>5, <1>8 DEF SessionType, Place
<1>10. /\ OrderSeen(s, cur) = old
       /\ \A o \in OrderId : OrderSeen(s, o)' = IF o = cur THEN new ELSE OrderSeen(s, o)
  BY <1>2, <1>3, <1>4, <1>8 DEF OrderSeen, Local, committed, old
<1>11. OrdersSeen(s)' = OrdersSeen(s) /\ OrdersSeen(s) \subseteq OrderId /\ cur \in OrdersSeen(s)
  BY <1>2, <1>3, <1>10 DEF OrdersSeen
<1>12. Control(s)'
  <2>1. AlreadyLoaded(s) => AlreadyLoaded(s)'
    BY <1>3, <1>5, <1>10, <1>11 DEF AlreadyLoaded
  <2> QED
    BY <1>1, <1>5, <1>11, <2>1 DEF Control, Syncing, Submitting, Matching
<1>13. Allowed(s)'
  BY <1>5 DEF Allowed
<1>14. \A o \in OrdersSeen(s) \ {cur} : Apart(new, OrderSeen(s, o)) /\ Apart(OrderSeen(s, o), new)
  BY <1>1, <1>3, <1>4, <1>10, <1>11 DEF SeenApart, SnFree, Apart
<1>15. SeenApart(s)'
  BY <1>1, <1>10, <1>11, <1>14 DEF SeenApart
<1>16. Written(s)'
  <2>1. orders' = orders /\ listed' = listed
    BY <1>4 DEF Local, committed
  <2>2. SourcedRow(listed \union tx[s].put, new)
    BY <1>1, <1>2, <1>3, <1>7 DEF Written, SourcedRow, old
  <2>3. orders[cur] # None => Keeps(orders[cur], new)
    BY <1>1, <1>2, <1>3, <1>7 DEF Written, Keeps, old
  <2> QED
    BY <1>1, <1>5, <1>8, <2>1, <2>2, <2>3 DEF Written, SourcedRow, ListedFor
<1>17. ASSUME NEW t \in Session \ {s}
       PROVE  WritesApart(s, t)'
  <2>1. WritesApart(s, t) /\ tx'[t] = tx[t]
    BY <1>4 DEF IntakeInv, PairInv, Local
  <2>2. ASSUME NEW p \in OrderId, tx[t].wrote[p] # None
        PROVE  cur # p /\ Apart(new, tx[t].wrote[p])
    <3>1. cur # p /\ Apart(old, tx[t].wrote[p])
      BY <1>2, <2>1, <2>2 DEF WritesApart, old
    <3>2. ~(tx[s].sn # None /\ tx[t].wrote[p].sn = tx[s].sn)
      BY <1>4, <1>6, <2>2, <3>1, SnUnclaimed DEF SnFree
    <3> QED
      BY <1>3, <3>1, <3>2 DEF Apart
  <2> QED
    BY <1>8, <2>1, <2>2 DEF WritesApart
<1>18. Replacing(s)' /\ \A t \in Session \ {s} : ReplacedByOne(s, t)'
  BY <1>1, <1>4, <1>5, SameMirror DEF Deleting
<1> QED
  BY <1>4, <1>5, <1>9, <1>12, <1>13, <1>15, <1>16, <1>17, <1>18, SameKeys, LocalKeeps DEF SessionInv, PairInv

LEMMA InsertOrderKeeps ==
    ASSUME IntakeInv, NEW s \in Session, InsertOrder(s), ~Fail(s)
    PROVE  IntakeInv'
<1> DEFINE m == tx[s].work
           row == NewRow(m)
<1>1. /\ tx[s].at = "insert" /\ SessionType(s) /\ Control(s) /\ Allowed(s)
      /\ SeenApart(s) /\ Written(s) /\ CommittedType
  BY DEF IntakeInv, TypeInv, SessionInv, InsertOrder, At
<1>2. m \in Mail
  BY <1>1 DEF Control, Submitting
<1>3. SourcedRow(listed \union tx[s].put, row) /\ row.mail = m /\ row.sn = Content[m].sn
  BY <1>1 DEF Allowed, SourcedRow, NewRow
<1>4. row \in Row /\ row # None
  <2>1. row.sn \in Sns \union {None}
    BY <1>1, <1>3, RowsAreEntries DEF SourcedRow, ListedFor, CommittedType, SessionType
  <2> QED
    BY <1>2, <1>3, <2>1, FileAssumption DEF NewRow, Row, Status
<1>5. /\ ~AlreadyLoaded(s) /\ row.sn \notin SnsUsed(s) /\ Unused # {} /\ Local(s)
      /\ tx'[s] = [tx[s] EXCEPT !.wrote[Min(Unused)] = row,
                               !.at = IF row.sn = None THEN "score" ELSE "commit",
                               !.queue = IF row.sn = None THEN {Min(Unused)} ELSE {}]
  BY Becoming DEF InsertOrder, IntakeInv
<1>6. PICK o \in Unused : o = Min(Unused)
  BY <1>5, LeastOrder DEF Unused
<1>7. o \in OrderId /\ orders[o] = None /\ \A t \in Session : tx[t].wrote[o] = None
  BY DEF Unused
<1>8. \A t \in Session \ {s} : SubmissionKey(m) \notin Placing(t) /\ row.sn \notin Claims(t)
  BY <1>1, <1>3 DEF InsertOrder, At, Blockers, Holds
<1> HIDE DEF row
<1>9. /\ tx'[s].at = (IF row.sn = None THEN "score" ELSE "commit") /\ Shaped(tx'[s])
      /\ tx'[s].queue = (IF row.sn = None THEN {o} ELSE {}) /\ tx'[s].sn = tx[s].sn
      /\ tx'[s].work = m /\ tx'[s].gone = tx[s].gone /\ tx'[s].snap = tx[s].snap
      /\ tx'[s].put = tx[s].put /\ tx'[s].late = tx[s].late /\ tx'[s].held = tx[s].held
      /\ tx'[s].wrote = [tx[s].wrote EXCEPT ![o] = row]
  BY <1>1, <1>5, <1>6 DEF SessionType, Shaped
<1>10. /\ tx'[s].wrote \in [OrderId -> Row \union {None}] /\ tx'[s].wrote[o] = row
       /\ \A x \in OrderId \ {o} : tx'[s].wrote[x] = tx[s].wrote[x]
  BY <1>1, <1>4, <1>7, <1>9 DEF SessionType
<1>11. SessionType(s)'
  BY <1>1, <1>7, <1>9, <1>10 DEF SessionType, Place
<1>12. /\ OrderSeen(s, o)' = row /\ \A x \in OrderId \ {o} : OrderSeen(s, x)' = OrderSeen(s, x)
       /\ o \notin OrdersSeen(s)
  BY <1>4, <1>5, <1>7, <1>10 DEF OrderSeen, OrdersSeen, Local, committed
<1>13. OrdersSeen(s)' = OrdersSeen(s) \union {o} /\ OrdersSeen(s) \subseteq OrderId
  BY <1>4, <1>7, <1>12 DEF OrdersSeen
<1>14. Control(s)'
  <2>1. AlreadyLoaded(s)'
    BY <1>3, <1>9, <1>12, <1>13 DEF AlreadyLoaded
  <2> QED
    BY <1>1, <1>9, <1>13, <2>1 DEF Control, Syncing, Submitting, Matching
<1>15. Allowed(s)'
  BY <1>9 DEF Allowed
<1>16. \A x \in OrdersSeen(s) : Apart(row, OrderSeen(s, x)) /\ Apart(OrderSeen(s, x), row)
  BY <1>3, <1>5 DEF Apart, AlreadyLoaded, SnsUsed
<1>17. SeenApart(s)'
  BY <1>1, <1>12, <1>13, <1>16 DEF SeenApart
<1>18. Written(s)'
  <2>1. orders' = orders /\ listed' = listed
    BY <1>5 DEF Local, committed
  <2> QED
    BY <1>1, <1>3, <1>7, <1>9, <1>10, <2>1 DEF Written, SourcedRow, ListedFor
<1>19. ASSUME NEW t \in Session \ {s}
       PROVE  WritesApart(s, t)'
  <2>1. WritesApart(s, t) /\ Written(t) /\ tx'[t] = tx[t]
    BY <1>5 DEF IntakeInv, PairInv, SessionInv, Local
  <2>2. ASSUME NEW p \in OrderId, tx[t].wrote[p] # None
        PROVE  o # p /\ Apart(row, tx[t].wrote[p])
    <3>1. o # p
      BY <1>7, <2>2
    <3>2. ~(row.sn # None /\ tx[t].wrote[p].sn = row.sn)
      BY <1>5, <1>8, <2>2, SnUnclaimed DEF SnsUsed
    <3>3. SubmissionKey(row.mail) # SubmissionKey(tx[t].wrote[p].mail)
      <4>1. SUFFICES ASSUME SubmissionKey(m) = SubmissionKey(tx[t].wrote[p].mail) PROVE FALSE
        BY <1>3
      <4>2. orders[p] # None /\ orders[p].mail = tx[t].wrote[p].mail
        BY <1>8, <2>1, <2>2, <4>1 DEF Placing, Written, Keeps
      <4>3. tx[s].wrote[p] = None
        BY <2>1, <2>2 DEF WritesApart
      <4> QED
        BY <1>5, <4>1, <4>2, <4>3 DEF AlreadyLoaded, OrdersSeen, OrderSeen
    <3> QED
      BY <3>1, <3>2, <3>3 DEF Apart
  <2> QED
    BY <1>10, <2>1, <2>2 DEF WritesApart
<1>20. Replacing(s)' /\ \A t \in Session \ {s} : ReplacedByOne(s, t)'
  BY <1>1, <1>5, <1>9, SameMirror DEF Deleting
<1> QED
  BY <1>5, <1>9, <1>11, <1>14, <1>15, <1>17, <1>18, <1>19, <1>20, SameKeys, LocalKeeps
     DEF SessionInv, PairInv

-----------------------------------------------------------------------------
(* A command starts or fails. *)

LEMMA Blanked ==
    ASSUME IntakeInv, NEW s \in Session, Local(s), Shaped(tx'[s]),
           tx'[s].wrote = [o \in OrderId |-> None],
           tx'[s].snap = {}, tx'[s].gone = {}, tx'[s].put = {}, tx'[s].late = {}, tx'[s].held = {},
           tx'[s].work \in Mail \union Export \union {None},
           tx'[s].at \in Place, tx'[s].queue \subseteq OrderId, tx'[s].sn \in Sns \union {None},
           Control(s)', Allowed(s)',
           tx'[s].work \in Export => tx'[s].at = "snapshot"
    PROVE  IntakeInv'
<1>1. SessionType(s)'
  BY DEF SessionType
<1> QED
  BY <1>1, NothingWritten, LocalKeeps DEF SessionInv

LEMMA EndsInFail ==
    ASSUME NEW s, BreakDeadlock(s) \/ Rollback(s)
    PROVE  Fail(s)
<1>1. CASE BreakDeadlock(s)
  BY <1>1, Zenon DEF BreakDeadlock
<1>2. CASE Rollback(s)
  BY <1>2, Zenon DEF Rollback
<1> QED
  BY <1>1, <1>2

LEMMA FailKeeps ==
    ASSUME IntakeInv, NEW s \in Session, Fail(s)
    PROVE  IntakeInv'
<1>1. Local(s) /\ tx'[s] = Idle
  BY Becoming DEF Fail, Discarded, IntakeInv
<1>2. Control(s)' /\ Allowed(s)'
  BY <1>1 DEF Idle, Control, Allowed, Syncing, Submitting, Matching
<1> QED
  BY <1>1, <1>2, Blanked, FileAssumption DEF Idle, Shaped, Place

LEMMA StartSyncKeeps ==
    ASSUME IntakeInv, NEW s \in Session, NEW e \in Export, StartSync(s, e)
    PROVE  IntakeInv'
<1>1. Local(s) /\ tx'[s] = [Idle EXCEPT !.at = "snapshot", !.work = e]
  BY Starting DEF StartSync, IntakeInv
<1>2. Control(s)' /\ Allowed(s)'
  BY <1>1 DEF Idle, Control, Allowed, Syncing, Submitting, Matching
<1> QED
  BY <1>1, <1>2, Blanked DEF Idle, Shaped, Place

LEMMA StartSubmitKeeps ==
    ASSUME IntakeInv, NEW s \in Session, NEW m \in Mail, StartSubmit(s, m)
    PROVE  IntakeInv'
<1>1. Local(s) /\ tx'[s] = [Idle EXCEPT !.at = "email", !.work = m]
  BY Starting DEF StartSubmit, IntakeInv
<1>2. Control(s)' /\ Allowed(s)'
  BY <1>1 DEF Idle, Control, Allowed, Syncing, Submitting, Matching
<1> QED
  BY <1>1, <1>2, Blanked, FileAssumption DEF Idle, Shaped, Place

LEMMA StartAssignKeeps ==
    ASSUME IntakeInv, NEW s \in Session, NEW o \in OrderId,
           StartMatch(s, o) \/ \E sn \in Sns : StartChoose(s, o, sn)
    PROVE  IntakeInv'
<1>1. PICK place \in {"score", "lock"}, sn \in Sns \union {None} :
          /\ tx'[s] = [Idle EXCEPT !.at = place, !.queue = {o}, !.sn = sn]
          /\ Local(s) /\ orders[o] # None
  <2>1. CASE StartMatch(s, o)
    <3>1. Local(s) /\ orders[o] # None /\ tx'[s] = [Idle EXCEPT !.at = "score", !.queue = {o}]
      BY <2>1, Starting DEF StartMatch, IntakeInv
    <3>2. tx'[s] = [Idle EXCEPT !.at = "score", !.queue = {o}, !.sn = None]
      BY <3>1 DEF Idle
    <3> QED
      BY <3>1, <3>2
  <2>2. ASSUME NEW sn \in Sns, StartChoose(s, o, sn)
        PROVE  /\ tx'[s] = [Idle EXCEPT !.at = "lock", !.queue = {o}, !.sn = sn]
               /\ Local(s) /\ orders[o] # None
    BY <2>2, Starting DEF StartChoose, IntakeInv
  <2> QED
    BY <2>1, <2>2
<1>2. o \in OrdersSeen(s)'
  BY <1>1 DEF Idle, OrdersSeen, OrderSeen, Local, committed
<1>3. Control(s)' /\ Allowed(s)'
  BY <1>1, <1>2, FileAssumption DEF Idle, Control, Allowed, Syncing, Submitting, Matching
<1>4. /\ Shaped(tx'[s]) /\ tx'[s].at = place /\ tx'[s].work = None /\ tx'[s].queue = {o}
      /\ tx'[s].sn = sn /\ tx'[s].wrote = [x \in OrderId |-> None]
      /\ tx'[s].snap = {} /\ tx'[s].gone = {} /\ tx'[s].put = {} /\ tx'[s].late = {}
      /\ tx'[s].held = {}
  BY <1>1 DEF Idle, Shaped
<1> QED
  BY <1>1, <1>3, <1>4, Blanked, FileAssumption DEF Place

-----------------------------------------------------------------------------
(* A transaction commits: what it saw is what everybody sees. *)

LEMMA Committing ==
    ASSUME IntakeInv, NEW s \in Session, Commit(s)
    PROVE  /\ tx[s].at = "commit" /\ tx'[s] = Idle
           /\ tx' = [t \in Session |-> tx'[t]]
           /\ \A o \in OrderId : orders'[o] = OrderSeen(s, o)
           /\ mirror' = RegisterSeen(s) /\ listed' = listed \union tx[s].put
           /\ shared' = shared \union tx[s].held
           /\ loaded' = IF tx[s].work \in Export THEN tx[s].work ELSE loaded
           /\ beside' = IF tx[s].work \in Export THEN tx[s].late ELSE beside
BY DEF Commit, At, Published, SharedSeen

LEMMA CommittingAmong ==
    ASSUME IntakeInv, NEW s \in Session, Commit(s), NEW t \in Session \ {s}
    PROVE  /\ Shaped(tx'[t])
           /\ tx'[t].at = tx[t].at /\ tx'[t].work = tx[t].work /\ tx'[t].queue = tx[t].queue
           /\ tx'[t].sn = tx[t].sn /\ tx'[t].snap = tx[t].snap \ tx[s].gone
           /\ tx'[t].gone = tx[t].gone /\ tx'[t].put = tx[t].put /\ tx'[t].held = tx[t].held
           /\ tx'[t].wrote = tx[t].wrote
           /\ tx'[t].late = IF DeleteStarted(t) THEN tx[t].late \union tx[s].put ELSE tx[t].late
<1>1. /\ tx'[t] = [tx[t] EXCEPT !.snap = @ \ tx[s].gone,
                               !.late = IF DeleteStarted(t) THEN @ \union tx[s].put ELSE @]
      /\ Shaped(tx[t])
  BY DEF Commit, IntakeInv, TypeInv, SessionType
<1> QED
  BY <1>1 DEF Shaped

(* What a commit does to an order that another session has or has not written. *)
LEMMA CommittedRow ==
    ASSUME IntakeInv, NEW s \in Session, Commit(s), NEW t \in Session \ {s}, NEW o \in OrderId
    PROVE  /\ tx[t].wrote[o] # None => orders'[o] = orders[o]
           /\ OrderSeen(t, o)' = IF tx[t].wrote[o] # None THEN tx[t].wrote[o] ELSE OrderSeen(s, o)
           /\ OrderSeen(t, o) # None => OrderSeen(t, o)' # None /\ OrderSeen(t, o)'.mail = OrderSeen(t, o).mail
<1>1. tx[t].wrote[o] # None => tx[s].wrote[o] = None
  BY DEF IntakeInv, PairInv, WritesApart
<1>2. tx'[t].wrote = tx[t].wrote /\ orders'[o] = OrderSeen(s, o)
  BY Committing, CommittingAmong
<1>3. tx[s].wrote[o] # None /\ orders[o] # None => Keeps(orders[o], tx[s].wrote[o])
  BY DEF IntakeInv, SessionInv, Written
<1> QED
  BY <1>1, <1>2, <1>3 DEF OrderSeen, Keeps

LEMMA CommitForAll ==
    ASSUME IntakeInv, NEW s \in Session, Commit(s)
    PROVE  CommittedType' /\ CommittedOrders' /\ MirrorLoaded' /\ SessionType(s)' /\ SessionInv(s)'
<1>1. /\ CommittedType /\ SessionType(s) /\ CommittedOrders /\ MirrorLoaded
      /\ Control(s) /\ SeenApart(s) /\ Written(s) /\ Replacing(s)
  BY DEF IntakeInv, TypeInv, SessionInv
<1>2. CommittedType'
  <2>1. orders' \in [OrderId -> Row \union {None}]
    <3>1. \A o \in OrderId : OrderSeen(s, o) \in Row \union {None}
      BY <1>1 DEF OrderSeen, CommittedType, SessionType
    <3> QED
      BY <3>1 DEF Commit, Published
  <2>2. mirror' \subseteq listed' /\ beside' \subseteq listed' /\ listed' \subseteq Entries
    BY <1>1, Committing DEF RegisterSeen, Replacing, CommittedType, SessionType
  <2>3. loaded' \in Export \union {None} /\ started' \in 0 .. MaxCommands
    BY <1>1, Committing DEF Commit, CommittedType
  <2> QED
    BY <2>1, <2>2, <2>3, Committing DEF CommittedType
<1>3. CommittedOrders'
  <2>1. \A o \in OrderId : orders'[o] # None => SourcedRow(listed \union tx[s].put, orders'[o])
    BY <1>1, Committing DEF OrderSeen, Written, CommittedOrders, SourcedRow, ListedFor
  <2>2. \A o, p \in OrderId : o # p /\ orders'[o] # None /\ orders'[p] # None => Apart(orders'[o], orders'[p])
    BY <1>1, Committing DEF SeenApart, OrdersSeen
  <2> QED
    BY <2>1, <2>2, Committing DEF CommittedOrders, SourcedRow, ListedFor
<1>4. MirrorLoaded'
  <2>1. CASE tx[s].work \in Export
    <3>1. /\ tx[s].put = RowsOf[tx[s].work]
          /\ mirror \ tx[s].gone \subseteq tx[s].late
      BY <1>1, <2>1, Committing DEF Replacing, DeleteStarted, Deleting
    <3>2. loaded' = tx[s].work /\ loaded' # None /\ beside' = tx[s].late
      BY <2>1, Committing, FileAssumption
    <3>3. mirror' = (mirror \ tx[s].gone) \union tx[s].put
      BY Committing DEF RegisterSeen
    <3> QED
      BY <3>1, <3>2, <3>3 DEF MirrorLoaded
  <2>2. CASE tx[s].work \notin Export
    <3>1. tx[s].put = {} /\ tx[s].gone = {}
      BY <1>1, <2>2 DEF Replacing
    <3> QED
      BY <1>1, <2>2, <3>1, Committing DEF MirrorLoaded, RegisterSeen
  <2> QED
    BY <2>1, <2>2
<1>5. SessionType(s)'
  BY Committing DEF SessionType, Shaped, Idle, Place
<1>6. Control(s)' /\ Allowed(s)' /\ Replacing(s)' /\ Inserted(s)'
  BY Committing, FileAssumption DEF Idle, Control, Allowed, Replacing, DeleteStarted, Inserted,
                                    Syncing, Submitting, Matching, Deleting
<1>7. SeenApart(s)' /\ Written(s)'
  <2>1. \A o \in OrderId : tx'[s].wrote[o] = None
    BY Committing DEF Idle
  <2> QED
    BY <1>3, <2>1 DEF SeenApart, Written, OrdersSeen, OrderSeen, CommittedOrders
<1> QED
  BY <1>2, <1>3, <1>4, <1>5, <1>6, <1>7 DEF SessionInv

LEMMA CommitForOthers ==
    ASSUME IntakeInv, NEW s \in Session, Commit(s), NEW t \in Session \ {s}
    PROVE  SessionType(t)' /\ SessionInv(t)'
<1>1. /\ SessionType(t) /\ Control(t) /\ Allowed(t) /\ SeenApart(t) /\ Written(t)
      /\ Replacing(t) /\ Inserted(t) /\ PairInv(s, t) /\ SeenApart(s) /\ Replacing(s)
  BY DEF IntakeInv, TypeInv, SessionInv
<1>0. /\ Shaped(tx'[t])
      /\ tx'[t].at = tx[t].at /\ tx'[t].work = tx[t].work /\ tx'[t].queue = tx[t].queue
      /\ tx'[t].sn = tx[t].sn /\ tx'[t].snap = tx[t].snap \ tx[s].gone
      /\ tx'[t].gone = tx[t].gone /\ tx'[t].put = tx[t].put /\ tx'[t].held = tx[t].held
      /\ tx'[t].wrote = tx[t].wrote
      /\ tx'[t].late = IF DeleteStarted(t) THEN tx[t].late \union tx[s].put ELSE tx[t].late
  BY CommittingAmong
<1>2. SessionType(t)'
  BY <1>0, <1>1 DEF SessionType
<1>3. OrdersSeen(t) \subseteq OrdersSeen(t)' /\ OrdersSeen(t) \subseteq OrderId
  BY CommittedRow DEF OrdersSeen
<1>4. Control(t)'
  <2>1. AlreadyLoaded(t) => AlreadyLoaded(t)'
    <3>1. \A o \in OrdersSeen(t) : OrderSeen(t, o)'.mail = OrderSeen(t, o).mail
      BY CommittedRow DEF OrdersSeen
    <3> QED
      BY <1>0, <1>3, <3>1 DEF AlreadyLoaded
  <2>2. Current(t)' = Current(t)
    BY <1>0 DEF Current
  <2> QED
    BY <1>0, <1>1, <1>3, <2>1, <2>2 DEF Control
<1>5. Allowed(t)'
  <2>1. Current(t)' = Current(t)
    BY <1>0 DEF Current
  <2>2. listed' = listed \union tx[s].put
    BY Committing
  <2> QED
    BY <1>0, <1>1, <2>1, <2>2 DEF Allowed, ListedFor
<1>6. SeenApart(t)'
  <2> SUFFICES ASSUME NEW o \in OrderId, NEW p \in OrderId, o # p,
                      OrderSeen(t, o)' # None, OrderSeen(t, p)' # None
               PROVE  Apart(OrderSeen(t, o)', OrderSeen(t, p)')
    BY DEF SeenApart, OrdersSeen, Apart
  <2> DEFINE a == OrderSeen(t, o)'
             b == OrderSeen(t, p)'
  <2>1. /\ a = IF tx[t].wrote[o] # None THEN tx[t].wrote[o] ELSE OrderSeen(s, o)
        /\ b = IF tx[t].wrote[p] # None THEN tx[t].wrote[p] ELSE OrderSeen(s, p)
    BY CommittedRow
  <2>2. CASE tx[t].wrote[o] = None /\ tx[t].wrote[p] = None
    BY <1>1, <2>1, <2>2 DEF SeenApart, OrdersSeen
  <2>3. CASE tx[t].wrote[o] # None /\ tx[t].wrote[p] # None
    BY <1>1, <2>1, <2>3 DEF SeenApart, OrdersSeen, OrderSeen
  <2>4. CASE tx[t].wrote[o] # None /\ tx[t].wrote[p] = None
    <3>1. CASE tx[s].wrote[p] # None
      BY <1>1, <2>1, <2>4, <3>1 DEF PairInv, WritesApart, OrderSeen, Apart
    <3>2. CASE tx[s].wrote[p] = None
      BY <1>1, <2>1, <2>4, <3>2 DEF SeenApart, OrdersSeen, OrderSeen
    <3> QED
      BY <3>1, <3>2
  <2>5. CASE tx[t].wrote[o] = None /\ tx[t].wrote[p] # None
    <3>1. CASE tx[s].wrote[o] # None
      BY <1>1, <2>1, <2>5, <3>1 DEF PairInv, WritesApart, OrderSeen, Apart
    <3>2. CASE tx[s].wrote[o] = None
      BY <1>1, <2>1, <2>5, <3>2 DEF SeenApart, OrdersSeen, OrderSeen
    <3> QED
      BY <3>1, <3>2
  <2> QED
    BY <2>2, <2>3, <2>4, <2>5
<1>7. Written(t)'
  <2>1. \A o \in OrderId : tx[t].wrote[o] # None => orders'[o] = orders[o]
    BY CommittedRow
  <2>2. listed' = listed \union tx[s].put
    BY Committing
  <2> QED
    BY <1>0, <1>1, <2>1, <2>2 DEF Written, SourcedRow, ListedFor
<1>8. Replacing(t)'
  <2>1. mirror' = (mirror \ tx[s].gone) \union tx[s].put /\ listed' = listed \union tx[s].put
    BY Committing DEF RegisterSeen
  <2>2. tx'[t].snap \union tx'[t].gone \subseteq mirror'
    <3>1. tx[t].gone \intersect tx[s].gone = {} /\ tx[t].snap \union tx[t].gone \subseteq mirror
      BY <1>1 DEF PairInv, ReplacedByOne, Replacing
    <3> QED
      BY <1>0, <2>1, <3>1
  <2>3. tx'[t].late \subseteq listed'
    BY <1>0, <1>1, <2>1 DEF Replacing
  <2>4. DeleteStarted(t) => mirror' \ (tx'[t].snap \union tx'[t].gone) \subseteq tx'[t].late
    <3> SUFFICES ASSUME DeleteStarted(t)
                 PROVE  mirror' \ (tx'[t].snap \union tx'[t].gone) \subseteq tx'[t].late
      OBVIOUS
    <3>1. mirror \ (tx[t].snap \union tx[t].gone) \subseteq tx[t].late
      BY <1>1 DEF Replacing
    <3>2. /\ tx'[t].snap = tx[t].snap \ tx[s].gone /\ tx'[t].gone = tx[t].gone
          /\ tx'[t].late = tx[t].late \union tx[s].put
      BY <1>0
    <3> QED
      BY <2>1, <3>1, <3>2
  <2>5. DeleteStarted(t)' <=> DeleteStarted(t)
    BY <1>0 DEF DeleteStarted
  <2> QED
    BY <1>0, <1>1, <2>2, <2>3, <2>4, <2>5 DEF Replacing
<1>9. Inserted(t)'
  BY <1>0, <1>1, Committing DEF PairInv, Inserted, InsertedByOne
<1> QED
  BY <1>2, <1>4, <1>5, <1>6, <1>7, <1>8, <1>9 DEF SessionInv

LEMMA CommitKeeps ==
    ASSUME IntakeInv, NEW s \in Session, Commit(s)
    PROVE  IntakeInv'
<1>1. \A t \in Session : SessionType(t)' /\ SessionInv(t)'
  BY CommitForAll, CommitForOthers
<1>2. ASSUME NEW t \in Session, NEW u \in Session, t # u
      PROVE  PairInv(t, u)'
  <2>1. CASE t = s \/ u = s
    <3>1. /\ tx'[s].gone = {} /\ tx'[s].put = {} /\ tx'[s].held = {}
          /\ \A o \in OrderId : tx'[s].wrote[o] = None
      BY Committing DEF Idle
    <3> QED
      BY <2>1, <3>1 DEF PairInv, WritesApart, ReplacedByOne, InsertedByOne
  <2>2. CASE t # s /\ u # s
    <3>1. PairInv(t, u)
      BY <1>2 DEF IntakeInv
    <3>2. /\ tx'[t].gone = tx[t].gone /\ tx'[t].put = tx[t].put
          /\ tx'[t].held = tx[t].held /\ tx'[t].wrote = tx[t].wrote
      BY <2>2, CommittingAmong
    <3>3. /\ tx'[u].gone = tx[u].gone /\ tx'[u].put = tx[u].put
          /\ tx'[u].held = tx[u].held /\ tx'[u].wrote = tx[u].wrote
      BY <2>2, CommittingAmong
    <3> QED
      BY <3>1, <3>2, <3>3 DEF PairInv, WritesApart, ReplacedByOne, InsertedByOne
  <2> QED
    BY <2>1, <2>2
<1> QED
  BY <1>1, <1>2, CommitForAll DEF IntakeInv, TypeInv

-----------------------------------------------------------------------------
(* A person changes the status of an order that no transaction has locked. *)

LEMMA ChangeStatusKeeps ==
    ASSUME IntakeInv, NEW o \in OrderId, NEW to \in Status, ChangeStatus(o, to)
    PROVE  IntakeInv'
<1>1. CommittedType /\ CommittedOrders /\ MirrorLoaded
  BY DEF IntakeInv, TypeInv
<1>2. /\ orders[o] # None /\ \A t \in Session : tx[t].wrote[o] = None
      /\ orders' = [orders EXCEPT ![o].status = to]
      /\ mirror' = mirror /\ shared' = shared /\ tx' = tx
      /\ loaded' = loaded /\ beside' = beside /\ listed' = listed
      /\ started < MaxCommands /\ started' = started + 1
  BY DEF ChangeStatus
<1>3. /\ orders'[o] = [orders[o] EXCEPT !.status = to] /\ orders[o] \in Row
      /\ \A x \in OrderId \ {o} : orders'[x] = orders[x]
  BY <1>1, <1>2 DEF CommittedType
<1>4. /\ orders'[o] \in Row /\ orders'[o] # None
      /\ orders'[o].mail = orders[o].mail /\ orders'[o].sn = orders[o].sn
  BY <1>3, FileAssumption DEF Row
<1>5. CommittedType'
  <2>1. orders' \in [OrderId -> Row \union {None}]
    BY <1>1, <1>2, <1>3, <1>4 DEF CommittedType
  <2> QED
    BY <1>1, <1>2, <2>1, BoundAssumption DEF CommittedType
<1>6. \A x \in OrderId : /\ orders'[x] # None <=> orders[x] # None
                         /\ orders[x] # None => /\ orders'[x].mail = orders[x].mail
                                                /\ orders'[x].sn = orders[x].sn
  BY <1>2, <1>3, <1>4
<1>7. CommittedOrders' /\ MirrorLoaded'
  BY <1>1, <1>2, <1>6 DEF CommittedOrders, MirrorLoaded, SourcedRow, ListedFor, Apart
<1>8. ASSUME NEW t \in Session
      PROVE  SessionType(t)' /\ SessionInv(t)'
  <2>1. /\ SessionType(t) /\ Control(t) /\ Allowed(t) /\ SeenApart(t) /\ Written(t)
        /\ Replacing(t) /\ Inserted(t)
    BY DEF IntakeInv, TypeInv, SessionInv
  <2>2. ASSUME NEW x \in OrderId
        PROVE  /\ OrderSeen(t, x)' # None <=> OrderSeen(t, x) # None
               /\ OrderSeen(t, x) # None => /\ OrderSeen(t, x)'.mail = OrderSeen(t, x).mail
                                            /\ OrderSeen(t, x)'.sn = OrderSeen(t, x).sn
    BY <1>2, <1>6 DEF OrderSeen
  <2>3. OrdersSeen(t)' = OrdersSeen(t) /\ OrdersSeen(t) \subseteq OrderId
    BY <2>2 DEF OrdersSeen
  <2>4. \A x \in OrdersSeen(t) : /\ OrderSeen(t, x)'.mail = OrderSeen(t, x).mail
                                 /\ OrderSeen(t, x)'.sn = OrderSeen(t, x).sn
    BY <2>2 DEF OrdersSeen
  <2>5. Control(t)'
    <3>1. AlreadyLoaded(t)' <=> AlreadyLoaded(t)
      BY <1>2, <2>3, <2>4 DEF AlreadyLoaded
    <3> QED
      BY <1>2, <2>1, <2>3, <3>1 DEF Control, Current
  <2>6. SeenApart(t)'
    BY <2>1, <2>3, <2>4 DEF SeenApart, Apart
  <2>7. Written(t)'
    BY <1>2, <1>3, <2>1 DEF Written
  <2>8. SessionType(t)' /\ Allowed(t)' /\ Replacing(t)' /\ Inserted(t)'
    BY <1>2, <2>1 DEF SessionType, Allowed, Current, Replacing, DeleteStarted, Inserted
  <2> QED
    BY <2>5, <2>6, <2>7, <2>8 DEF SessionInv
<1>9. \A s, t \in Session : s # t => PairInv(s, t)'
  BY <1>2 DEF IntakeInv, PairInv, WritesApart, ReplacedByOne, InsertedByOne
<1> QED
  BY <1>5, <1>7, <1>8, <1>9 DEF IntakeInv, TypeInv

-----------------------------------------------------------------------------
(* The invariant is inductive. *)

LEMMA InitialInv == Init => IntakeInv
<1> SUFFICES ASSUME Init PROVE IntakeInv
  OBVIOUS
<1>1. CommittedType /\ CommittedOrders /\ MirrorLoaded
  BY BoundAssumption DEF Init, CommittedType, CommittedOrders, MirrorLoaded
<1>2. ASSUME NEW s \in Session
      PROVE  /\ Shaped(tx[s]) /\ tx[s].at = "idle" /\ tx[s].work = None /\ tx[s].queue = {}
             /\ tx[s].sn = None /\ tx[s].wrote = [o \in OrderId |-> None]
             /\ tx[s].snap = {} /\ tx[s].gone = {} /\ tx[s].put = {} /\ tx[s].late = {}
             /\ tx[s].held = {}
  BY DEF Init, Idle, Shaped
<1>3. ASSUME NEW s \in Session
      PROVE  SessionType(s) /\ SessionInv(s)
  <2>1. SessionType(s)
    BY <1>2 DEF SessionType, Place
  <2>2. Control(s) /\ Allowed(s) /\ Replacing(s) /\ Inserted(s)
    BY <1>2, FileAssumption DEF Control, Allowed, Replacing, DeleteStarted, Inserted,
                                Syncing, Submitting, Matching, Deleting
  <2>3. SeenApart(s) /\ Written(s)
    BY <1>2 DEF Init, SeenApart, Written, OrdersSeen, OrderSeen
  <2> QED
    BY <2>1, <2>2, <2>3 DEF SessionInv
<1>4. \A s, t \in Session : PairInv(s, t)
  BY <1>2 DEF PairInv, WritesApart, ReplacedByOne, InsertedByOne
<1> QED
  BY <1>1, <1>3, <1>4 DEF IntakeInv, TypeInv

LEMMA StepKeeps ==
    ASSUME IntakeInv, NEW s \in Session, Step(s)
    PROVE  IntakeInv'
<1>1. CASE Fail(s)
  BY <1>1, FailKeeps
<1>2. CASE ~Fail(s)
  BY <1>2, SnapshotKeeps, DeleteMirrorKeeps, InsertRowsKeeps, ListPendingKeeps, FindBestKeeps,
     PickSnKeeps, LockOrderKeeps, RunTriggersKeeps, WriteSnKeeps, UpsertEmailKeeps,
     LookForOrderKeeps, AttachKeeps, CheckGivenSnKeeps, InsertOrderKeeps, CommitKeeps DEF Step
<1> QED
  BY <1>1, <1>2

LEMMA StutterKeeps ==
    ASSUME IntakeInv, UNCHANGED vars
    PROVE  IntakeInv'
<1>1. CommittedType' /\ CommittedOrders' /\ MirrorLoaded'
  BY DEF vars, IntakeInv, TypeInv, CommittedType, CommittedOrders, MirrorLoaded
<1>2. ASSUME NEW s \in Session
      PROVE  SessionType(s)' /\ SessionInv(s)'
  <2>1. SessionType(s) /\ SessionInv(s) /\ UNCHANGED vars
    BY DEF IntakeInv, TypeInv
  <2>2. SessionType(s)' /\ Control(s)' /\ Allowed(s)'
    BY <2>1 DEF vars, SessionType, SessionInv, Control, Allowed, Current, AlreadyLoaded, OrdersSeen, OrderSeen
  <2>3. SeenApart(s)' /\ Written(s)' /\ Replacing(s)' /\ Inserted(s)'
    BY <2>1 DEF vars, SessionInv, SeenApart, Written, OrdersSeen, OrderSeen, Replacing, DeleteStarted,
                  Inserted
  <2> QED
    BY <2>2, <2>3 DEF SessionInv
<1>3. \A s, t \in Session : s # t => PairInv(s, t)'
  BY DEF vars, IntakeInv, PairInv, WritesApart, ReplacedByOne, InsertedByOne
<1> QED
  BY <1>1, <1>2, <1>3 DEF IntakeInv, TypeInv

LEMMA Inductive == IntakeInv /\ [Next]_vars => IntakeInv'
<1> SUFFICES ASSUME IntakeInv, [Next]_vars PROVE IntakeInv'
  OBVIOUS
<1>1. ASSUME NEW s \in Session, NEW e \in Export, StartSync(s, e)
      PROVE  IntakeInv'
  BY <1>1, StartSyncKeeps
<1>2. ASSUME NEW s \in Session, NEW m \in Mail, StartSubmit(s, m)
      PROVE  IntakeInv'
  BY <1>2, StartSubmitKeeps
<1>3. ASSUME NEW s \in Session, NEW o \in OrderId, StartMatch(s, o) \/ \E sn \in Sns : StartChoose(s, o, sn)
      PROVE  IntakeInv'
  BY <1>3, StartAssignKeeps
<1>4. ASSUME NEW s \in Session, Step(s)
      PROVE  IntakeInv'
  BY <1>4, StepKeeps
<1>5. ASSUME NEW s \in Session, BreakDeadlock(s) \/ Rollback(s)
      PROVE  IntakeInv'
  BY <1>5, EndsInFail, FailKeeps
<1>6. ASSUME NEW o \in OrderId, NEW to \in Status, ChangeStatus(o, to)
      PROVE  IntakeInv'
  BY <1>6, ChangeStatusKeeps
<1> QED
  BY <1>1, <1>2, <1>3, <1>4, <1>5, <1>6, StutterKeeps DEF Next

LEMMA IntakeInvariant == Spec => []IntakeInv
BY InitialInv, Inductive, PTL DEF Spec

-----------------------------------------------------------------------------
(* The theorems. *)

(* Every row is well formed, the mirror only has rows that were listed,    *)
(* and no transaction inserts an attachment that is there: load-register,  *)
(* load-order and assign-sn keep the tables consistent with each other.    *)
THEOREM TypeCorrect == Spec => []TypeOK
<1>1. IntakeInv => TypeOK
  <2> SUFFICES ASSUME IntakeInv PROVE TypeOK
    OBVIOUS
  <2>1. CommittedType
    BY DEF IntakeInv, TypeInv
  <2>2. ASSUME NEW s \in Session
        PROVE  /\ tx[s].at \in Place /\ tx[s].queue \subseteq OrderId /\ tx[s].sn \in Sns \union {None}
               /\ tx[s].snap \union tx[s].gone \subseteq mirror /\ tx[s].held \intersect shared = {}
    BY DEF IntakeInv, TypeInv, SessionInv, SessionType, Replacing, Inserted
  <2> QED
    BY <2>1, <2>2 DEF TypeOK, CommittedType
<1> QED
  BY <1>1, IntakeInvariant, PTL

(* However many people load the same email at once, a submission becomes   *)
(* one order (create_sales_order).                                         *)
THEOREM OneOrder == Spec => []OneOrderPerSubmission
<1>1. IntakeInv => OneOrderPerSubmission
  BY DEF IntakeInv, CommittedOrders, Apart, OneOrderPerSubmission
<1> QED
  BY <1>1, IntakeInvariant, PTL

(* No two orders have an SN in common, however many people match, choose   *)
(* and submit at once (assign_sn_from_register, assign_sn).                *)
THEOREM OneSn == Spec => []OneOrderPerSn
<1>1. IntakeInv => OneOrderPerSn
  BY DEF IntakeInv, CommittedOrders, Apart, OneOrderPerSn
<1> QED
  BY <1>1, IntakeInvariant, PTL

(* However syncs overlap, and whatever their exports have in common, the   *)
(* last one to commit has put in of each SN the first row of its export    *)
(* that can be trusted, and nothing else is left than what other syncs     *)
(* committed after its DELETE had started (load_register).                 *)
THEOREM MirrorIsReplaced == Spec => []MirrorReplaced
<1>1. IntakeInv => MirrorReplaced
  BY ExportRows DEF IntakeInv, TypeInv, CommittedType, MirrorLoaded, MirrorReplaced
<1> QED
  BY <1>1, IntakeInvariant, PTL

(* An SN that an order has was on the Register for its customer: nobody    *)
(* can make one up (tg_sn_must_be_on_register).                            *)
THEOREM NeverInvented == Spec => []SourcedFromRegister
<1>1. IntakeInv => SourcedFromRegister
  BY DEF IntakeInv, CommittedOrders, SourcedRow, ListedFor, SourcedFromRegister
<1> QED
  BY <1>1, IntakeInvariant, PTL

(* Who loads a submission and succeeds leaves its order behind, also when  *)
(* somebody else was loading it (create_sales_order).                      *)
THEOREM NothingLost == Spec => NoSubmissionLost
<1>1. ASSUME IntakeInv, NEW s \in Session, Commit(s), tx[s].work \in Mail
      PROVE  \E o \in OrderId : /\ orders'[o] # None
                                /\ SubmissionKey(orders'[o].mail) = SubmissionKey(tx[s].work)
  <2>1. AlreadyLoaded(s)
    BY <1>1, Committing DEF IntakeInv, SessionInv, Control
  <2> QED
    BY <1>1, <2>1, Committing DEF AlreadyLoaded, OrdersSeen
<1>2. IntakeInv => \A s \in Session : Commit(s) /\ tx[s].work \in Mail =>
          \E o \in OrderId : /\ orders'[o] # None
                             /\ SubmissionKey(orders'[o].mail) = SubmissionKey(tx[s].work)
  BY <1>1
<1> QED
  BY <1>2, IntakeInvariant, PTL DEF NoSubmissionLost

(* Which steps change what is committed. *)
LEMMA WhoCommits ==
    ASSUME [Next]_vars
    PROVE  \/ UNCHANGED orders
           \/ \E s \in Session : Commit(s)
           \/ \E o \in OrderId, to \in Status : ChangeStatus(o, to)
<1>1. ASSUME NEW s \in Session, Step(s), ~Commit(s)
      PROVE  UNCHANGED orders
  BY <1>1 DEF Step, Snapshot, DeleteMirror, InsertRows, ListPending, FindBest, PickSn, LockOrder,
              RunTriggers, WriteSn, UpsertEmail, LookForOrder, Attach, CheckGivenSn, InsertOrder,
              Fail, Becomes, committed
<1>2. ASSUME NEW s \in Session,
             \/ \E e \in Export : StartSync(s, e)
             \/ \E m \in Mail : StartSubmit(s, m)
             \/ \E o \in OrderId : StartMatch(s, o) \/ \E sn \in Sns : StartChoose(s, o, sn)
             \/ BreakDeadlock(s) \/ Rollback(s)
      PROVE  UNCHANGED orders
  BY <1>2, EndsInFail DEF StartSync, StartSubmit, StartMatch, StartChoose, Starts,
                          Fail, Becomes, committed
<1> QED
  BY <1>1, <1>2 DEF Next, vars

(* A match that began before the order was approved or cancelled does not  *)
(* write its SN afterwards (lock_commercials).                             *)
THEOREM LockedSnStays == Spec => LockedKeepsSn
<1> DEFINE Kept == \A o \in OrderId : orders[o] # None /\ orders[o].status # "open" =>
                      orders'[o].sn = orders[o].sn
<1>1. ASSUME IntakeInv, NEW s \in Session, Commit(s), NEW o \in OrderId,
             orders[o] # None, orders[o].status # "open"
      PROVE  orders'[o].sn = orders[o].sn
  <2>1. tx[s].wrote[o] # None => Keeps(orders[o], tx[s].wrote[o])
    BY <1>1 DEF IntakeInv, SessionInv, Written
  <2> QED
    BY <1>1, <2>1, Committing DEF OrderSeen, Keeps
<1>2. ASSUME IntakeInv, NEW x \in OrderId, NEW to \in Status, ChangeStatus(x, to), NEW o \in OrderId
      PROVE  orders'[o].sn = orders[o].sn
  <2>1. orders' = [orders EXCEPT ![x].status = to] /\ orders \in [OrderId -> Row \union {None}]
        /\ orders[x] # None
    BY <1>2 DEF ChangeStatus, IntakeInv, TypeInv, CommittedType
  <2>2. orders'[o] = IF o = x THEN [orders[x] EXCEPT !.status = to] ELSE orders[o]
    BY <2>1
  <2> QED
    BY <2>1, <2>2 DEF Row
<1>3. IntakeInv /\ [Next]_vars => Kept
  BY <1>1, <1>2, WhoCommits
<1> QED
  BY <1>3, IntakeInvariant, PTL DEF Spec, LockedKeepsSn

=============================================================================

------------------------ MODULE ApprovalRace_proofs ------------------------
(***************************************************************************)
(* Proofs about overlapping transactions on one order, for every number of *)
(* sessions, lines and statuses gone through.  The runs check the same on  *)
(* three sessions and three lines.                                         *)
(***************************************************************************)
EXTENDS ApprovalRace, TLAPS

-----------------------------------------------------------------------------
(* The inductive invariant. *)

Running(s) == tx[s].command # "none"

Approves(s) == tx[s].command = "status" /\ tx[s].value = "approved"

(* Each command writes one row, a value of the column's kind, and goes     *)
(* through the statements of its own triggers only.                        *)
CommandShape(s) ==
    /\ Running(s) => tx[s].row \in Row
    /\ ~Running(s) => tx[s] = Idle
    /\ tx[s].command = "status" => tx[s].row = "order" /\ tx[s].value \in Status
    /\ tx[s].command = "header" => tx[s].row = "order" /\ tx[s].value \in BOOLEAN
    /\ tx[s].command \in {"edit", "link"} => tx[s].value \in BOOLEAN
    /\ tx[s].command = "check" => tx[s].value \in Outcome
    /\ tx[s].at \in {"posting", "exceptions", "checks"} => Approves(s)
    /\ tx[s].at = "linking" => tx[s].command = "link"
    /\ tx[s].posts # {} => Approves(s) \/ tx[s].command = "link"

TypeInv ==
    /\ TypeOK
    /\ history # <<>>
    /\ tx = [s \in Session |->
               [command |-> tx[s].command, row |-> tx[s].row, value |-> tx[s].value,
                at |-> tx[s].at, posts |-> tx[s].posts]]
    /\ \A s \in Session : CommandShape(s)

(* Whoever runs a command holds the lock of the row it writes, so no two   *)
(* sessions write the same row.                                            *)
LocksHeld == \A s \in Session : Running(s) => holder[tx[s].row] = s

(* What a command found when it started, or passed, still is so.           *)
StillTrue ==
    \A s \in Session :
        /\ tx[s].command = "status" => <<status, tx[s].value>> \in Transition
        /\ tx[s].command = "header" => status \notin Locked
        /\ Approves(s) /\ tx[s].at \in {"checks", "ready"} => reasoned

(* Uncommitted movements are of lines without one, each of one session.    *)
PostsApart ==
    \A s \in Session : \A n \in tx[s].posts :
        /\ booked[n] = 0
        /\ \A t \in Session \ {s} : n \notin tx[t].posts

Approved == \E i \in 1 .. Len(history) : history[i] = "approved"

(* A processed order, a movement and a link that posts all come after an   *)
(* approval.                                                               *)
ApprovalFirst ==
    /\ status \in Processed => Approved
    /\ \A n \in LineNo : booked[n] > 0 => Approved
    /\ \A s \in Session : tx[s].command = "link" /\ tx[s].posts # {} => Approved

-----------------------------------------------------------------------------
(* The steps, by what they do to the sessions.                             *)

(* The UPDATE of a command that may start. *)
Begins(s, c, r, v, at) ==
    /\ Starts(s, c, r, v, at)
    /\ c # "none" /\ c \in Command /\ r \in Row /\ at \in Place
    /\ c = "status" => r = "order" /\ v \in Status /\ <<status, v>> \in Transition
    /\ c = "header" => r = "order" /\ v \in BOOLEAN /\ status \notin Locked
    /\ c \in {"edit", "link"} => v \in BOOLEAN
    /\ c = "check" => v \in Outcome
    /\ at \in {"posting", "exceptions", "checks"} => c = "status" /\ v = "approved"
    /\ c = "status" /\ v = "approved" => at = "posting"
    /\ at = "linking" => c = "link"

(* A statement between the first and the commit: only the session moves.   *)
Advances(s, posts, at) ==
    /\ Running(s)
    /\ tx' = [tx EXCEPT ![s] = [command |-> tx[s].command, row |-> tx[s].row,
                                value |-> tx[s].value, at |-> at, posts |-> posts]]
    /\ UNCHANGED <<committed, holder>>

Moves(s, posts, at) ==
    /\ Advances(s, posts, at)
    /\ posts \subseteq LineNo /\ at \in {"exceptions", "checks", "ready"}
    /\ at \in {"exceptions", "checks"} => Approves(s)
    /\ posts # {} => Approves(s) \/ tx[s].command = "link"
    /\ \/ posts = tx[s].posts
       \/ /\ \A n \in posts : Insertable(s, n)
          /\ tx[s].command = "link" => status \in Processed
    /\ Approves(s) /\ at \in {"checks", "ready"} => reasoned \/ tx[s].at = "checks"

LEMMA InitRace ==
    ASSUME Init
    PROVE  /\ TypeInv /\ LocksHeld /\ StillTrue /\ PostsApart /\ ApprovalFirst
           /\ HistoryIsAWalk /\ BookedOnce
<1>1. history \in Seq(Status) /\ history = <<"received">> /\ Len(history) = 1
  BY DEF Init, Status
<1>2. TypeInv
  BY <1>1, RaceAssumption DEF Init, TypeInv, TypeOK, CommandShape, Running, Approves, Idle, Status,
     Outcome, Row, Command, Place
<1>3. LocksHeld /\ StillTrue /\ PostsApart
  BY DEF Init, LocksHeld, StillTrue, PostsApart, Running, Approves, Idle
<1>4. ApprovalFirst
  BY DEF Init, ApprovalFirst, Processed, Locked, Idle
<1>5. HistoryIsAWalk /\ BookedOnce
  BY <1>1 DEF Init, HistoryIsAWalk, BookedOnce
<1> QED
  BY <1>2, <1>3, <1>4, <1>5

(* What a session begins with. *)
LEMMA Begun ==
    ASSUME TypeInv, NEW s \in Session, NEW c, NEW r, NEW v, NEW at, Starts(s, c, r, v, at)
    PROVE  /\ tx[s] = Idle
           /\ tx'[s] = [command |-> c, row |-> r, value |-> v, at |-> at, posts |-> {}]
           /\ \A t \in Session \ {s} : tx'[t] = tx[t]
           /\ tx' = [t \in Session |-> tx'[t]]
BY DEF Starts, TypeInv

LEMMA Advanced ==
    ASSUME TypeInv, NEW s \in Session, NEW posts, NEW at, Advances(s, posts, at)
    PROVE  /\ tx'[s] = [command |-> tx[s].command, row |-> tx[s].row, value |-> tx[s].value,
                        at |-> at, posts |-> posts]
           /\ \A t \in Session \ {s} : tx'[t] = tx[t]
           /\ tx' = [t \in Session |-> tx'[t]]
BY DEF Advances, TypeInv

LEMMA Ended ==
    ASSUME TypeInv, NEW s \in Session, Ends(s)
    PROVE  /\ tx'[s] = Idle
           /\ \A t \in Session \ {s} : tx'[t] = tx[t]
           /\ tx' = [t \in Session |-> tx'[t]]
BY DEF Ends, TypeInv

(* The statements in between, as Advances. *)
LEMMA InBetween ==
    ASSUME TypeInv, NEW s \in Session,
           PostOnApproval(s) \/ GateExceptions(s) \/ GateChecks(s) \/ FinishLink(s)
    PROVE  \E posts, at : Moves(s, posts, at)
<1>1. Running(s) /\ CommandShape(s)
  BY DEF TypeInv, CommandShape, Idle, PostOnApproval, GateExceptions, GateChecks, FinishLink
<1>2. tx = [t \in Session |-> tx[t]] /\ tx[s].posts \subseteq LineNo
  BY DEF TypeInv, TypeOK
<1>3. tx[s] = [command |-> tx[s].command, row |-> tx[s].row, value |-> tx[s].value,
               at |-> tx[s].at, posts |-> tx[s].posts]
  BY DEF TypeInv
<1>4. ASSUME NEW at
      PROVE  [tx EXCEPT ![s].at = at] =
                [tx EXCEPT ![s] = [command |-> tx[s].command, row |-> tx[s].row,
                                   value |-> tx[s].value, at |-> at, posts |-> tx[s].posts]]
  <2>1. [tx[s] EXCEPT !.at = at] =
           [command |-> tx[s].command, row |-> tx[s].row, value |-> tx[s].value,
            at |-> at, posts |-> tx[s].posts]
    BY <1>3
  <2> QED
    BY <2>1, Zenon
<1>5. ASSUME NEW at, PostArr(s, at), UNCHANGED <<committed, holder>>
      PROVE  \E posts \in SUBSET LineNo :
                Advances(s, posts, at) /\ \A n \in posts : Insertable(s, n)
  <2> DEFINE new == {n \in SeesLinked(s) : booked[n] = 0}
  <2>1. new \in SUBSET LineNo
    BY DEF SeesLinked
  <2>2. /\ \A n \in new : Insertable(s, n)
        /\ tx' = [tx EXCEPT ![s].posts = new, ![s].at = at]
    BY <1>5 DEF PostArr
  <2> HIDE DEF new
  <2>3. [tx EXCEPT ![s].posts = new, ![s].at = at] =
           [tx EXCEPT ![s] = [command |-> tx[s].command, row |-> tx[s].row,
                              value |-> tx[s].value, at |-> at, posts |-> new]]
    <3>1. [[tx EXCEPT ![s].posts = new] EXCEPT ![s].at = at] =
             [tx EXCEPT ![s] = [[tx[s] EXCEPT !.posts = new] EXCEPT !.at = at]]
      BY <1>2
    <3>2. [[tx[s] EXCEPT !.posts = new] EXCEPT !.at = at] =
             [command |-> tx[s].command, row |-> tx[s].row, value |-> tx[s].value,
              at |-> at, posts |-> new]
      <4>1. [tx[s] EXCEPT !.posts = new] =
               [command |-> tx[s].command, row |-> tx[s].row, value |-> tx[s].value,
                at |-> tx[s].at, posts |-> new]
        BY <1>3
      <4>2. [[command |-> tx[s].command, row |-> tx[s].row, value |-> tx[s].value,
               at |-> tx[s].at, posts |-> new] EXCEPT !.at = at] =
               [command |-> tx[s].command, row |-> tx[s].row, value |-> tx[s].value,
                at |-> at, posts |-> new]
        OBVIOUS
      <4> QED
        BY <4>1, <4>2, Zenon
    <3> QED
      BY <3>1, <3>2, Zenon
  <2>4. Advances(s, new, at)
    BY <1>1, <1>5, <2>2, <2>3 DEF Advances
  <2> QED
    BY <2>1, <2>2, <2>4
<1>6. CASE PostOnApproval(s)
  <2>1. PostArr(s, "exceptions") /\ UNCHANGED <<committed, holder>> /\ Approves(s)
    BY <1>1, <1>6 DEF PostOnApproval, CommandShape
  <2> QED
    BY <1>5, <2>1 DEF Approves, Moves
<1>7. CASE GateExceptions(s)
  <2>1. Advances(s, tx[s].posts, "checks") /\ reasoned /\ Approves(s)
    BY <1>1, <1>4, <1>7 DEF GateExceptions, NoExceptions, CommandShape, Advances
  <2> QED
    BY <1>1, <1>2, <2>1 DEF Moves, CommandShape
<1>8. CASE GateChecks(s)
  <2>1. Advances(s, tx[s].posts, "ready") /\ tx[s].at = "checks" /\ Approves(s)
    BY <1>1, <1>4, <1>8 DEF GateChecks, CommandShape, Advances
  <2> QED
    BY <1>1, <1>2, <2>1 DEF Moves, CommandShape
<1>9. CASE FinishLink(s)
  <2>1. tx[s].command = "link" /\ ~Approves(s)
    BY <1>1, <1>9 DEF FinishLink, CommandShape, Approves
  <2>2. CASE PostsOnLink /\ PostArr(s, "ready")
    BY <1>5, <1>9, <2>1, <2>2 DEF FinishLink, PostsOnLink, Moves
  <2>3. CASE tx' = [tx EXCEPT ![s].at = "ready"]
    <3>1. Advances(s, tx[s].posts, "ready")
      BY <1>1, <1>4, <1>9, <2>3 DEF FinishLink, Advances
    <3> QED
      BY <1>1, <1>2, <2>1, <3>1 DEF Moves, CommandShape
  <2> QED
    BY <1>9, <2>2, <2>3 DEF FinishLink
<1> QED
  BY <1>6, <1>7, <1>8, <1>9

-----------------------------------------------------------------------------
(* Types. *)

LEMMA CommandShapes ==
    ASSUME TypeInv, NEW s \in Session
    PROVE  CommandShape(s) /\ tx[s].at \in Place /\ tx[s].command \in Command
           /\ tx[s].row \in Row \union {None} /\ tx[s].posts \subseteq LineNo
BY DEF TypeInv, TypeOK

(* A session that begins. *)
LEMMA BeginsType ==
    ASSUME TypeInv, NEW s \in Session, NEW c, NEW r, NEW v, NEW at, Begins(s, c, r, v, at)
    PROVE  TypeInv'
<1>0. tx'[s] = [command |-> c, row |-> r, value |-> v, at |-> at, posts |-> {}]
  BY DEF Begins, Starts, TypeInv
<1>1. UNCHANGED committed /\ Starts(s, c, r, v, at)
  BY DEF Begins, Starts
<1>2. \A t \in Session : CommandShape(t)'
  <2>1. CommandShape(s)'
    <3>1. /\ tx'[s].command = c /\ tx'[s].row = r /\ tx'[s].value = v
          /\ tx'[s].at = at /\ tx'[s].posts = {}
      BY <1>0
    <3> QED
      BY <3>1 DEF CommandShape, Running, Approves, Begins
  <2>2. ASSUME NEW t \in Session \ {s}
        PROVE  CommandShape(t)'
    <3>1. tx'[t] = tx[t]
      BY <1>1, Begun
    <3> QED
      BY <3>1, CommandShapes DEF CommandShape, Running, Approves, Idle
  <2> QED
    BY <2>1, <2>2
<1>3. \A t \in Session : /\ tx'[t].command \in Command /\ tx'[t].at \in Place
                         /\ tx'[t].row \in Row \union {None} /\ tx'[t].posts \subseteq LineNo
  <2>1. /\ tx'[s].command = c /\ tx'[s].row = r /\ tx'[s].at = at /\ tx'[s].posts = {}
    BY <1>0
  <2>2. \A t \in Session \ {s} : tx'[t] = tx[t]
    BY <1>1, Begun
  <2> QED
    BY <2>1, <2>2, CommandShapes DEF Begins
<1>4. holder' \in [Row -> Session \union {None}]
  BY DEF Begins, Starts, TypeInv, TypeOK
<1>5. \A t \in Session : tx'[t] = [command |-> tx'[t].command, row |-> tx'[t].row, value |-> tx'[t].value,
                                   at |-> tx'[t].at, posts |-> tx'[t].posts]
  BY <1>1, Begun DEF TypeInv
<1>6. tx' = [t \in Session |-> [command |-> tx'[t].command, row |-> tx'[t].row, value |-> tx'[t].value,
                               at |-> tx'[t].at, posts |-> tx'[t].posts]]
  BY <1>1, <1>5, Begun
<1> QED
  BY <1>1, <1>2, <1>3, <1>4, <1>6 DEF TypeInv, TypeOK, committed

(* A session that goes on. *)
LEMMA MovesType ==
    ASSUME TypeInv, NEW s \in Session, NEW posts, NEW at, Moves(s, posts, at)
    PROVE  TypeInv'
<1>0. tx'[s] = [command |-> tx[s].command, row |-> tx[s].row, value |-> tx[s].value,
                at |-> at, posts |-> posts]
  BY DEF Moves, Advances, TypeInv
<1>1. UNCHANGED <<committed, holder>> /\ Advances(s, posts, at) /\ Running(s)
  BY DEF Moves, Advances
<1>2. \A t \in Session \ {s} : tx'[t] = tx[t]
  BY <1>1, Advanced
<1>3. \A t \in Session : CommandShape(t)'
  <2>1. CommandShape(s)'
    <3>1. /\ tx'[s].command = tx[s].command /\ tx'[s].row = tx[s].row /\ tx'[s].value = tx[s].value
          /\ tx'[s].at = at /\ tx'[s].posts = posts
      BY <1>0
    <3> QED
      BY <1>1, <3>1, CommandShapes DEF CommandShape, Running, Approves, Moves
  <2>2. ASSUME NEW t \in Session \ {s}
        PROVE  CommandShape(t)'
    BY <1>2, CommandShapes DEF CommandShape, Running, Approves, Idle
  <2> QED
    BY <2>1, <2>2
<1>4. \A t \in Session : /\ tx'[t].command \in Command /\ tx'[t].at \in Place
                         /\ tx'[t].row \in Row \union {None} /\ tx'[t].posts \subseteq LineNo
  <2>1. /\ tx'[s].command = tx[s].command /\ tx'[s].row = tx[s].row
        /\ tx'[s].at = at /\ tx'[s].posts = posts
    BY <1>0
  <2>2. at \in Place /\ posts \subseteq LineNo
    BY DEF Moves, Place
  <2> QED
    BY <1>2, <2>1, <2>2, CommandShapes
<1>5. \A t \in Session : tx'[t] = [command |-> tx'[t].command, row |-> tx'[t].row, value |-> tx'[t].value,
                                   at |-> tx'[t].at, posts |-> tx'[t].posts]
  BY <1>0, <1>2 DEF TypeInv
<1>6. tx' = [t \in Session |-> [command |-> tx'[t].command, row |-> tx'[t].row, value |-> tx'[t].value,
                               at |-> tx'[t].at, posts |-> tx'[t].posts]]
  BY <1>1, <1>5, Advanced
<1> QED
  BY <1>1, <1>3, <1>4, <1>6 DEF TypeInv, TypeOK, committed

(* A session that ends. *)
LEMMA EndsType ==
    ASSUME TypeInv, NEW s \in Session, Running(s), Ends(s)
    PROVE  /\ \A t \in Session : CommandShape(t)'
           /\ \A t \in Session : /\ tx'[t].command \in Command /\ tx'[t].at \in Place
                                    /\ tx'[t].row \in Row \union {None} /\ tx'[t].posts \subseteq LineNo
           /\ holder' \in [Row -> Session \union {None}]
           /\ tx' = [t \in Session |-> [command |-> tx'[t].command, row |-> tx'[t].row,
                         value |-> tx'[t].value, at |-> tx'[t].at, posts |-> tx'[t].posts]]
<1>1. tx'[s] = Idle /\ \A t \in Session \ {s} : tx'[t] = tx[t]
  BY Ended
<1>2. \A t \in Session : CommandShape(t)'
  <2>1. CommandShape(s)'
    BY <1>1 DEF CommandShape, Running, Approves, Idle
  <2> QED
    BY <1>1, <2>1, CommandShapes DEF CommandShape, Running, Approves, Idle
<1>3. \A t \in Session : /\ tx'[t].command \in Command /\ tx'[t].at \in Place
                         /\ tx'[t].row \in Row \union {None} /\ tx'[t].posts \subseteq LineNo
  BY <1>1, CommandShapes DEF Idle, Command, Place
<1>4. holder' \in [Row -> Session \union {None}]
  BY DEF Ends, TypeInv, TypeOK
<1>5. \A t \in Session : tx'[t] = [command |-> tx'[t].command, row |-> tx'[t].row, value |-> tx'[t].value,
                                   at |-> tx'[t].at, posts |-> tx'[t].posts]
  BY <1>1 DEF TypeInv, Idle
<1>6. tx' = [t \in Session |-> [command |-> tx'[t].command, row |-> tx'[t].row, value |-> tx'[t].value,
                               at |-> tx'[t].at, posts |-> tx'[t].posts]]
  BY <1>5, Ended
<1> QED
  BY <1>2, <1>3, <1>4, <1>6

LEMMA RollbackType ==
    ASSUME TypeInv, NEW s \in Session, Running(s), Ends(s), UNCHANGED committed
    PROVE  TypeInv'
BY EndsType DEF TypeInv, TypeOK, committed

(* What a commit does to the committed rows. *)
LEMMA CommitRows ==
    ASSUME TypeInv, NEW s \in Session, Commit(s)
    PROVE  /\ Running(s) /\ Ends(s)
           /\ tx[s].command # "status" => status' = status /\ history' = history
           /\ tx[s].command = "status" => status' = tx[s].value /\ history' = Append(history, tx[s].value)
           /\ tx[s].command # "header" => reasoned' = reasoned
           /\ \A n \in LineNo : n \in tx[s].posts => booked'[n] = booked[n] + 1
           /\ \A n \in LineNo : n \notin tx[s].posts => booked'[n] = booked[n]
<1>1. Running(s)
  BY CommandShapes DEF Commit, CommandShape, Running, Idle
<1> QED
  BY <1>1 DEF Commit, Written

LEMMA CommitType ==
    ASSUME TypeInv, NEW s \in Session, Commit(s)
    PROVE  TypeInv'
<1>1. Running(s) /\ Ends(s) /\ CommandShape(s) /\ tx[s].posts \subseteq LineNo
  BY CommitRows, CommandShapes
<1>2. status' \in Status /\ history' \in Seq(Status) /\ history' # <<>>
  <2>1. history \in Seq(Status) /\ history # <<>> /\ status \in Status
    BY DEF TypeInv, TypeOK
  <2>2. CASE tx[s].command = "status"
    <3>1. status' = tx[s].value /\ history' = Append(history, tx[s].value) /\ tx[s].value \in Status
      BY <1>1, <2>2, CommitRows DEF CommandShape
    <3>2. Append(history, tx[s].value) \in Seq(Status) /\ Len(Append(history, tx[s].value)) = Len(history) + 1
      BY <2>1, <3>1
    <3>3. Len(history) \in Nat /\ Len(<<>>) = 0
      BY <2>1
    <3> QED
      BY <3>1, <3>2, <3>3
  <2> QED
    BY <2>1, <2>2, CommitRows
<1>3. reasoned' \in BOOLEAN
  BY <1>1 DEF Commit, Written, CommandShape, TypeInv, TypeOK
<1>4. outcome' \in Outcome
  BY <1>1 DEF Commit, Written, CommandShape, TypeInv, TypeOK
<1>5. sound' \in [LineNo -> BOOLEAN] /\ linked' \in [LineNo -> BOOLEAN]
  BY <1>1 DEF Commit, Written, WrittenTo, CommandShape, TypeInv, TypeOK
<1>6. booked' \in [LineNo -> Nat]
  BY DEF Commit, TypeInv, TypeOK
<1> QED
  BY <1>1, <1>2, <1>3, <1>4, <1>5, <1>6, EndsType DEF TypeInv, TypeOK

-----------------------------------------------------------------------------
(* Every step is one of five. *)

LEMMA StepKinds ==
    ASSUME TypeInv, [Next]_vars
    PROVE  \/ UNCHANGED vars
           \/ \E s \in Session : \E c, r, v, at : Begins(s, c, r, v, at)
           \/ \E s \in Session : \E posts, at : Moves(s, posts, at)
           \/ \E s \in Session : Commit(s)
           \/ \E s \in Session : Running(s) /\ Ends(s) /\ UNCHANGED committed
<1> SUFFICES ASSUME NEW s \in Session,
                    \/ \E to \in Status : StartStatus(s, to)
                    \/ \E v \in BOOLEAN : StartHeader(s, v)
                    \/ \E n \in LineNo, v \in BOOLEAN : StartEdit(s, n, v)
                    \/ \E n \in LineNo : StartLink(s, n)
                    \/ \E v \in Outcome : StartCheck(s, v)
                    \/ PostOnApproval(s) \/ GateExceptions(s) \/ GateChecks(s) \/ FinishLink(s)
                    \/ Rollback(s)
             PROVE  \/ \E c, r, v, at : Begins(s, c, r, v, at)
                    \/ \E posts, at : Moves(s, posts, at)
                    \/ Running(s) /\ Ends(s) /\ UNCHANGED committed
  BY DEF Next
<1>1. ASSUME NEW to \in Status, StartStatus(s, to)
      PROVE  \E c, r, v, at : Begins(s, c, r, v, at)
  <2>1. Begins(s, "status", "order", to, IF to = "approved" THEN "posting" ELSE "ready")
    BY <1>1 DEF StartStatus, Begins, Command, Row, Place
  <2> QED
    BY <2>1
<1>2. ASSUME NEW v \in BOOLEAN, StartHeader(s, v)
      PROVE  \E c, r, w, at : Begins(s, c, r, w, at)
  <2>1. Begins(s, "header", "order", v, "ready")
    BY <1>2 DEF StartHeader, Begins, Command, Row, Place
  <2> QED
    BY <2>1
<1>3. ASSUME NEW n \in LineNo, NEW v \in BOOLEAN, StartEdit(s, n, v)
      PROVE  \E c, r, w, at : Begins(s, c, r, w, at)
  <2>1. Begins(s, "edit", n, v, "ready")
    BY <1>3 DEF StartEdit, Begins, Command, Row, Place
  <2> QED
    BY <2>1
<1>4. ASSUME NEW n \in LineNo, StartLink(s, n)
      PROVE  \E c, r, v, at : Begins(s, c, r, v, at)
  <2>1. Begins(s, "link", n, TRUE, "linking")
    BY <1>4 DEF StartLink, Begins, Command, Row, Place
  <2> QED
    BY <2>1
<1>5. ASSUME NEW v \in Outcome, StartCheck(s, v)
      PROVE  \E c, r, w, at : Begins(s, c, r, w, at)
  <2>1. Begins(s, "check", "check", v, "ready")
    BY <1>5 DEF StartCheck, Begins, Command, Row, Place
  <2> QED
    BY <2>1
<1>6. ASSUME Rollback(s)
      PROVE  Running(s) /\ Ends(s) /\ UNCHANGED committed
  BY <1>6, CommandShapes DEF Rollback, CommandShape
<1> QED
  BY <1>1, <1>2, <1>3, <1>4, <1>5, <1>6, InBetween

(* The state of every session and row stays of its kind, whatever overlaps.*)
LEMMA TypeStep == TypeInv /\ [Next]_vars => TypeInv'
<1> SUFFICES ASSUME TypeInv, [Next]_vars PROVE TypeInv'
  OBVIOUS
<1>1. CASE UNCHANGED vars
  <2>1. /\ status' = status /\ reasoned' = reasoned /\ sound' = sound /\ linked' = linked
        /\ outcome' = outcome /\ booked' = booked /\ history' = history /\ holder' = holder
        /\ tx' = tx
    BY <1>1 DEF vars
  <2>2. ASSUME NEW t \in Session
        PROVE  CommandShape(t)'
    BY <2>1, CommandShapes DEF CommandShape, Running, Approves
  <2> QED
    BY <2>1, <2>2 DEF TypeInv, TypeOK
<1> QED
  BY <1>1, StepKinds, BeginsType, MovesType, CommitType, RollbackType

(* Nothing is visible to others before the commit. *)
LEMMA CommitOnly ==
    ASSUME TypeInv, [Next]_vars
    PROVE  \/ /\ status' = status /\ history' = history
              /\ reasoned' = reasoned /\ booked' = booked
           \/ \E s \in Session : Commit(s)
<1>1. UNCHANGED committed \/ \E s \in Session : Commit(s)
  <2>1. \A s, c, r, v, at : Begins(s, c, r, v, at) => UNCHANGED committed
    BY DEF Begins, Starts
  <2>2. \A s, posts, at : Moves(s, posts, at) => UNCHANGED committed
    BY DEF Moves, Advances
  <2>3. UNCHANGED vars => UNCHANGED committed
    BY DEF vars, committed
  <2> QED
    BY <2>1, <2>2, <2>3, StepKinds, Zenon
<1> QED
  BY <1>1 DEF committed

-----------------------------------------------------------------------------
(* Row locks. *)

LEMMA LocksStep == TypeInv /\ LocksHeld /\ [Next]_vars => LocksHeld'
<1> SUFFICES ASSUME TypeInv, LocksHeld, [Next]_vars PROVE LocksHeld'
  OBVIOUS
<1> USE DEF LocksHeld, Running
<1>1. CASE UNCHANGED vars
  BY <1>1 DEF vars
<1>2. ASSUME NEW s \in Session, NEW c, NEW r, NEW v, NEW at, Begins(s, c, r, v, at)
      PROVE  LocksHeld'
  <2>1. /\ tx'[s].row = r /\ \A t \in Session \ {s} : tx'[t] = tx[t]
    BY <1>2 DEF Begins, Starts, TypeInv
  <2>2. holder[r] = None /\ holder' = [holder EXCEPT ![r] = s] /\ r \in Row
    BY <1>2 DEF Begins, Starts, RowFree
  <2>3. ASSUME NEW t \in Session \ {s}, tx[t].command # "none"
        PROVE  tx[t].row \in Row /\ tx[t].row # r
    BY <2>2, <2>3, CommandShapes, RaceAssumption DEF CommandShape
  <2>4. holder \in [Row -> Session \union {None}]
    BY DEF TypeInv, TypeOK
  <2>5. holder'[r] = s /\ \A x \in Row \ {r} : holder'[x] = holder[x]
    BY <2>2, <2>4
  <2> QED
    BY <2>1, <2>3, <2>5
<1>3. ASSUME NEW s \in Session, NEW posts, NEW at, Moves(s, posts, at)
      PROVE  LocksHeld'
  BY <1>3, Advanced DEF Moves, Advances
<1>4. ASSUME NEW s \in Session, Running(s), Ends(s)
      PROVE  LocksHeld'
  <2>1. tx'[s] = Idle /\ \A t \in Session \ {s} : tx'[t] = tx[t]
    BY <1>4, Ended
  <2>2. holder[tx[s].row] = s /\ holder' = [holder EXCEPT ![tx[s].row] = None]
    BY <1>4 DEF Ends
  <2>3. ASSUME NEW t \in Session \ {s}, tx[t].command # "none"
        PROVE  tx[t].row \in Row /\ tx[t].row # tx[s].row
    BY <2>2, <2>3, CommandShapes DEF CommandShape
  <2>4. holder \in [Row -> Session \union {None}]
    BY DEF TypeInv, TypeOK
  <2>5. \A x \in Row \ {tx[s].row} : holder'[x] = holder[x]
    BY <2>2, <2>4
  <2>6. tx'[s].command = "none"
    BY <2>1 DEF Idle
  <2> QED
    BY <2>1, <2>3, <2>5, <2>6
<1> QED
  BY <1>1, <1>2, <1>3, <1>4, StepKinds, CommitRows

(* Two sessions never write the order at the same time. *)
LEMMA OneWriter ==
    ASSUME TypeInv, LocksHeld, NEW s \in Session, NEW t \in Session,
           tx[s].command \in {"status", "header"}, tx[t].command \in {"status", "header"}
    PROVE  s = t
BY CommandShapes DEF LocksHeld, Running, CommandShape

-----------------------------------------------------------------------------
(* What a command found holds until it ends. *)

LEMMA StillTrueStep == TypeInv /\ LocksHeld /\ StillTrue /\ [Next]_vars => StillTrue'
<1> SUFFICES ASSUME TypeInv, LocksHeld, StillTrue, [Next]_vars PROVE StillTrue'
  OBVIOUS
<1> DEFINE Good(t) == /\ tx[t].command = "status" => <<status, tx[t].value>> \in Transition
                      /\ tx[t].command = "header" => status \notin Locked
                      /\ Approves(t) /\ tx[t].at \in {"checks", "ready"} => reasoned
<1> SUFFICES ASSUME NEW t \in Session PROVE Good(t)'
  BY DEF StillTrue
<1>0. Good(t)
  BY DEF StillTrue
<1> USE DEF Approves
<1>1. CASE UNCHANGED vars
  BY <1>0, <1>1 DEF vars
<1>2. ASSUME NEW s \in Session, NEW c, NEW r, NEW v, NEW at, Begins(s, c, r, v, at)
      PROVE  Good(t)'
  <2>1. status' = status /\ reasoned' = reasoned
    BY <1>2 DEF Begins, Starts, committed
  <2>2. CASE t = s
    <3>1. /\ tx'[t].command = c /\ tx'[t].value = v /\ tx'[t].at = at
      BY <1>2, <2>2 DEF Begins, Starts, TypeInv
    <3> QED
      BY <1>2, <2>1, <3>1 DEF Begins
  <2>3. CASE t # s
    BY <1>0, <1>2, <2>1, <2>3 DEF Begins, Starts, TypeInv
  <2> QED
    BY <2>2, <2>3
<1>3. ASSUME NEW s \in Session, NEW posts, NEW at, Moves(s, posts, at)
      PROVE  Good(t)'
  <2>1. status' = status /\ reasoned' = reasoned
    BY <1>3 DEF Moves, Advances, committed
  <2>2. CASE t = s
    <3>1. tx'[t].command = tx[t].command /\ tx'[t].value = tx[t].value /\ tx'[t].at = at
      BY <1>3, <2>2 DEF Moves, Advances, TypeInv
    <3> QED
      BY <1>0, <1>3, <2>1, <2>2, <3>1 DEF Moves
  <2>3. CASE t # s
    BY <1>0, <1>3, <2>1, <2>3, Advanced DEF Moves
  <2> QED
    BY <2>2, <2>3
<1>4. ASSUME NEW s \in Session, Commit(s)
      PROVE  Good(t)'
  <2>1. tx'[s] = Idle /\ \A u \in Session \ {s} : tx'[u] = tx[u]
    BY <1>4, CommitRows, Ended
  <2>2. CASE t = s
    BY <2>1, <2>2 DEF Idle
  <2>3. CASE t # s /\ tx[t].command \in {"status", "header"}
    <3>1. tx[s].command \notin {"status", "header"}
      BY <2>3, OneWriter
    <3> QED
      BY <1>0, <1>4, <2>1, <2>3, <3>1, CommitRows
  <2>4. CASE t # s /\ tx[t].command \notin {"status", "header"}
    BY <2>1, <2>4
  <2> QED
    BY <2>2, <2>3, <2>4
<1>5. ASSUME NEW s \in Session, Ends(s), UNCHANGED committed
      PROVE  Good(t)'
  <2>1. tx'[s] = Idle /\ \A u \in Session \ {s} : tx'[u] = tx[u]
    BY <1>5, Ended
  <2> QED
    BY <1>0, <1>5, <2>1 DEF committed, Idle
<1> QED
  BY <1>1, <1>2, <1>3, <1>4, <1>5, StepKinds

-----------------------------------------------------------------------------
(* The properties. *)

LEMMA WalkStep ==
    TypeInv /\ StillTrue /\ HistoryIsAWalk /\ [Next]_vars => HistoryIsAWalk'
<1> SUFFICES ASSUME TypeInv, StillTrue, HistoryIsAWalk, [Next]_vars PROVE HistoryIsAWalk'
  OBVIOUS
<1>1. CASE UNCHANGED <<status, history>>
  BY <1>1 DEF HistoryIsAWalk
<1>2. ASSUME NEW s \in Session, Commit(s), tx[s].command = "status"
      PROVE  HistoryIsAWalk'
  <2> DEFINE to == tx[s].value
  <2>1. status' = to /\ history' = Append(history, to) /\ to \in Status /\ <<status, to>> \in Transition
    BY <1>2, CommitRows, CommandShapes DEF StillTrue, CommandShape
  <2>2. history \in Seq(Status) /\ Len(history) \in Nat \ {0}
    BY DEF TypeInv, TypeOK
  <2>3. /\ Len(history') = Len(history) + 1 /\ history'[Len(history) + 1] = to
        /\ \A i \in 1 .. Len(history) : history'[i] = history[i]
    BY <2>1, <2>2
  <2>4. ASSUME NEW i \in 2 .. Len(history')
        PROVE  <<history'[i - 1], history'[i]>> \in Transition
    <3>1. CASE i = Len(history) + 1
      <4>1. i - 1 = Len(history)
        BY <2>2, <3>1
      <4>2. history'[i - 1] = status
        BY <2>2, <2>3, <4>1 DEF HistoryIsAWalk
      <4> QED
        BY <2>1, <2>3, <3>1, <4>2
    <3>2. CASE i # Len(history) + 1
      <4>1. i \in 2 .. Len(history) /\ i - 1 \in 1 .. Len(history) /\ i \in 1 .. Len(history)
        BY <2>2, <2>3, <3>2
      <4> QED
        BY <2>3, <4>1 DEF HistoryIsAWalk
    <3> QED
      BY <3>1, <3>2
  <2> QED
    BY <2>1, <2>2, <2>3, <2>4 DEF HistoryIsAWalk
<1> QED
  BY <1>1, <1>2, CommitOnly, CommitRows

LEMMA HeaderSoundStep ==
    TypeInv /\ LocksHeld /\ StillTrue /\ ProcessedHeaderSound /\ [Next]_vars => ProcessedHeaderSound'
<1> SUFFICES ASSUME TypeInv, StillTrue, ProcessedHeaderSound, [Next]_vars PROVE ProcessedHeaderSound'
  OBVIOUS
<1>1. CASE UNCHANGED <<status, reasoned>>
  BY <1>1 DEF ProcessedHeaderSound
<1>2. ASSUME NEW s \in Session, Commit(s), tx[s].command = "status"
      PROVE  ProcessedHeaderSound'
  <2>1. /\ status' = tx[s].value /\ reasoned' = reasoned /\ tx[s].at = "ready"
        /\ <<status, tx[s].value>> \in Transition
    BY <1>2, CommitRows DEF StillTrue, Commit
  <2>2. CASE tx[s].value = "approved"
    <3>1. reasoned = TRUE
      BY <1>2, <2>1, <2>2 DEF StillTrue, Approves, TypeInv, TypeOK
    <3> QED
      BY <2>1, <3>1 DEF ProcessedHeaderSound
  <2>3. CASE tx[s].value \in Processed \ {"approved"}
    <3>1. tx[s].value \in {"provisioning", "invoiced", "closed"}
      BY <2>3 DEF Processed, Locked
    <3>2. status \in {"approved", "provisioning", "invoiced"}
      BY <2>1, <3>1 DEF Transition
    <3>3. status \in Processed
      BY <3>2 DEF Processed, Locked
    <3> QED
      BY <2>1, <3>3 DEF ProcessedHeaderSound
  <2> QED
    BY <2>1, <2>2, <2>3 DEF ProcessedHeaderSound
<1>3. ASSUME NEW s \in Session, Commit(s), tx[s].command = "header"
      PROVE  ProcessedHeaderSound'
  BY <1>3, CommitRows DEF StillTrue, ProcessedHeaderSound, Processed
<1> QED
  BY <1>1, <1>2, <1>3, CommitOnly, CommitRows

LEMMA PostsStep == TypeInv /\ PostsApart /\ [Next]_vars => PostsApart'
<1> SUFFICES ASSUME TypeInv, PostsApart, [Next]_vars,
                    NEW t \in Session, NEW n \in tx'[t].posts
             PROVE  /\ booked'[n] = 0
                    /\ \A u \in Session \ {t} : n \notin tx'[u].posts
  BY DEF PostsApart
<1>0. ASSUME NEW s \in Session, tx'[s].posts \subseteq tx[s].posts,
             \A u \in Session \ {s} : tx'[u] = tx[u], booked' = booked
      PROVE  /\ booked'[n] = 0
             /\ \A u \in Session \ {t} : n \notin tx'[u].posts
  BY <1>0 DEF PostsApart
<1>1. CASE UNCHANGED vars
  BY <1>1 DEF vars, PostsApart
<1>2. ASSUME NEW s \in Session, NEW c, NEW r, NEW v, NEW at, Begins(s, c, r, v, at)
      PROVE  /\ booked'[n] = 0
             /\ \A u \in Session \ {t} : n \notin tx'[u].posts
  <2>1. tx'[s].posts = {} /\ \A u \in Session \ {s} : tx'[u] = tx[u]
    BY <1>2 DEF Begins, Starts, TypeInv
  <2>2. booked' = booked
    BY <1>2 DEF Begins, Starts, committed
  <2> QED
    BY <1>0, <2>1, <2>2
<1>3. ASSUME NEW s \in Session, NEW posts, NEW at, Moves(s, posts, at)
      PROVE  /\ booked'[n] = 0
             /\ \A u \in Session \ {t} : n \notin tx'[u].posts
  <2>1. tx'[s].posts = posts /\ \A u \in Session \ {s} : tx'[u] = tx[u]
    BY <1>3 DEF Moves, Advances, TypeInv
  <2>2. booked' = booked
    BY <1>3 DEF Moves, Advances, committed
  <2>3. CASE posts = tx[s].posts
    BY <1>0, <2>1, <2>2, <2>3
  <2>4. CASE \A m \in posts : Insertable(s, m)
    <3>1. \A m \in posts : booked[m] = 0 /\ \A u \in Session \ {s} : m \notin tx[u].posts
      BY <2>4 DEF Insertable
    <3> QED
      BY <2>1, <2>2, <3>1 DEF PostsApart
  <2> QED
    BY <1>3, <2>3, <2>4 DEF Moves
<1>4. ASSUME NEW s \in Session, Commit(s)
      PROVE  /\ booked'[n] = 0
             /\ \A u \in Session \ {t} : n \notin tx'[u].posts
  <2>1. tx'[s].posts = {} /\ \A u \in Session \ {s} : tx'[u] = tx[u]
    BY <1>4, CommitRows, Ended DEF Idle
  <2>2. t # s /\ n \in tx[t].posts /\ n \notin tx[s].posts /\ n \in LineNo
    BY <2>1, CommandShapes DEF PostsApart
  <2>3. booked'[n] = booked[n]
    BY <1>4, <2>2, CommitRows
  <2> QED
    BY <2>1, <2>2, <2>3 DEF PostsApart
<1>5. ASSUME NEW s \in Session, Ends(s), UNCHANGED committed
      PROVE  /\ booked'[n] = 0
             /\ \A u \in Session \ {t} : n \notin tx'[u].posts
  <2>1. tx'[s].posts = {} /\ \A u \in Session \ {s} : tx'[u] = tx[u]
    BY <1>5, Ended DEF Idle
  <2>2. booked' = booked
    BY <1>5 DEF committed
  <2> QED
    BY <1>0, <2>1, <2>2
<1> QED
  BY <1>1, <1>2, <1>3, <1>4, <1>5, StepKinds

LEMMA BookedOnceStep == TypeInv /\ PostsApart /\ BookedOnce /\ [Next]_vars => BookedOnce'
<1> SUFFICES ASSUME TypeInv, PostsApart, BookedOnce, [Next]_vars, NEW n \in LineNo
             PROVE  booked'[n] <= 1
  BY DEF BookedOnce
<1>1. booked[n] \in Nat /\ booked[n] <= 1
  BY DEF BookedOnce, TypeInv, TypeOK
<1>2. ASSUME NEW s \in Session, Commit(s)
      PROVE  booked'[n] <= 1
  BY <1>1, <1>2, CommitRows DEF PostsApart
<1> QED
  BY <1>1, <1>2, CommitOnly

(* History is only added to. *)
LEMMA ApprovedStays ==
    ASSUME TypeInv, [Next]_vars, Approved
    PROVE  Approved'
<1>1. CASE history' = history
  BY <1>1 DEF Approved
<1>2. ASSUME NEW to, history' = Append(history, to)
      PROVE  Approved'
  <2>1. history \in Seq(Status)
    BY DEF TypeInv, TypeOK
  <2>2. PICK i \in 1 .. Len(history) : history[i] = "approved"
    BY DEF Approved
  <2>3. i \in 1 .. Len(history') /\ history'[i] = "approved"
    BY <1>2, <2>1, <2>2
  <2> QED
    BY <2>3 DEF Approved
<1> QED
  BY <1>1, <1>2, CommitOnly, CommitRows

LEMMA ApprovalStep ==
    TypeInv /\ StillTrue /\ ApprovalFirst /\ [Next]_vars => ApprovalFirst'
<1> SUFFICES ASSUME TypeInv, StillTrue, ApprovalFirst, [Next]_vars PROVE ApprovalFirst'
  OBVIOUS
<1>1. status' \in Processed => Approved'
  <2>1. CASE status' = status
    BY <2>1, ApprovedStays DEF ApprovalFirst
  <2>2. ASSUME NEW s \in Session, Commit(s), tx[s].command = "status", status' \in Processed
        PROVE  Approved'
    <3>1. /\ status' = tx[s].value /\ history' = Append(history, tx[s].value)
          /\ <<status, tx[s].value>> \in Transition
      BY <2>2, CommitRows DEF StillTrue
    <3>2. CASE tx[s].value = "approved"
      <4>1. history \in Seq(Status)
        BY DEF TypeInv, TypeOK
      <4>2. Len(history) + 1 \in 1 .. Len(history') /\ history'[Len(history) + 1] = "approved"
        BY <3>1, <3>2, <4>1
      <4> QED
        BY <4>2 DEF Approved
    <3>3. CASE tx[s].value # "approved"
      <4>1. tx[s].value \in {"provisioning", "invoiced", "closed"}
        BY <2>2, <3>1, <3>3 DEF Processed, Locked
      <4>2. status \in {"approved", "provisioning", "invoiced"}
        BY <3>1, <4>1 DEF Transition
      <4>3. status \in Processed
        BY <4>2 DEF Processed, Locked
      <4> QED
        BY <4>3, ApprovedStays DEF ApprovalFirst
    <3> QED
      BY <3>2, <3>3
  <2> QED
    BY <2>1, <2>2, CommitOnly, CommitRows
<1>2. ASSUME NEW n \in LineNo, booked'[n] > 0
      PROVE  Approved'
  <2>1. CASE booked'[n] = booked[n]
    BY <1>2, <2>1, ApprovedStays DEF ApprovalFirst
  <2>2. ASSUME NEW s \in Session, Commit(s), n \in tx[s].posts
        PROVE  Approved'
    <3>1. CASE tx[s].command = "link"
      BY <2>2, <3>1, ApprovedStays DEF ApprovalFirst
    <3>2. CASE Approves(s)
      <4>1. status' = "approved"
        BY <2>2, <3>2, CommitRows DEF Approves
      <4> QED
        BY <1>1, <4>1 DEF Processed, Locked
    <3> QED
      BY <2>2, <3>1, <3>2, CommandShapes DEF CommandShape
  <2> QED
    BY <2>1, <2>2, CommitOnly, CommitRows
<1>3. ASSUME NEW t \in Session, tx'[t].command = "link", tx'[t].posts # {}
      PROVE  Approved'
  <2>1. CASE tx'[t] = tx[t]
    BY <1>3, <2>1, ApprovedStays DEF ApprovalFirst
  <2>2. ASSUME NEW c, NEW r, NEW v, NEW at, Begins(t, c, r, v, at)
        PROVE  FALSE
    BY <1>3, <2>2 DEF Begins, Starts, TypeInv
  <2>3. ASSUME NEW posts, NEW at, Moves(t, posts, at)
        PROVE  Approved'
    <3>1. tx'[t].command = tx[t].command /\ tx'[t].posts = posts
      BY <2>3 DEF Moves, Advances, TypeInv
    <3> QED
      BY <1>3, <2>3, <3>1, ApprovedStays DEF Moves, ApprovalFirst
  <2>4. ASSUME Ends(t)
        PROVE  FALSE
    BY <1>3, <2>4, Ended DEF Idle
  <2>5. ASSUME NEW s \in Session \ {t},
               \/ \E c, r, v, at : Begins(s, c, r, v, at)
               \/ \E posts, at : Moves(s, posts, at)
               \/ Ends(s)
        PROVE  tx'[t] = tx[t]
    <3>1. CASE \E c, r, v, at : Begins(s, c, r, v, at)
      BY <3>1, <2>5 DEF Begins, Starts, TypeInv
    <3>2. CASE \E posts, at : Moves(s, posts, at)
      <4>1. \E row : tx' = [tx EXCEPT ![s] = row]
        BY <3>2, Zenon DEF Moves, Advances
      <4> QED
        BY <2>5, <4>1 DEF TypeInv
    <3>3. CASE Ends(s)
      BY <3>3, <2>5 DEF Ends, TypeInv
    <3> QED
      BY <2>5, <3>1, <3>2, <3>3
  <2> QED
    BY <2>1, <2>2, <2>3, <2>4, <2>5, StepKinds, CommitRows DEF vars
<1> QED
  BY <1>1, <1>2, <1>3 DEF ApprovalFirst

-----------------------------------------------------------------------------
(* The theorems. *)

RaceInv ==
    /\ TypeInv /\ LocksHeld /\ StillTrue /\ PostsApart /\ ApprovalFirst
    /\ HistoryIsAWalk /\ ProcessedHeaderSound /\ BookedOnce

LEMMA RaceInvInit == Init => RaceInv
BY InitRace DEF RaceInv, Init, ProcessedHeaderSound, Processed, Locked

LEMMA RaceInvStep == RaceInv /\ [Next]_vars => RaceInv'
BY TypeStep, LocksStep, StillTrueStep, PostsStep, ApprovalStep, WalkStep, HeaderSoundStep,
   BookedOnceStep DEF RaceInv

LEMMA RaceInvariant == Spec => []RaceInv
<1> QED
  BY RaceInvInit, RaceInvStep, PTL DEF Spec

(* Every value is of its kind (the columns' types and CHECKs), however     *)
(* many sessions there are.                                                *)
THEOREM TypeCorrect == Spec => []TypeOK
<1>1. RaceInv => TypeOK
  BY DEF RaceInv, TypeInv
<1> QED
  BY <1>1, RaceInvariant, PTL

(* change_status: status changes that overlap wait for the order's row, so *)
(* each is judged by the status it really follows.                         *)
THEOREM WalkUnbroken == Spec => []HistoryIsAWalk
<1>1. RaceInv => HistoryIsAWalk
  BY DEF RaceInv
<1> QED
  BY <1>1, RaceInvariant, PTL

(* The gate's verdict on the header is good for as long as the order is    *)
(* processed.                                                              *)
THEOREM HeaderStaysSound == Spec => []ProcessedHeaderSound
<1>1. RaceInv => ProcessedHeaderSound
  BY DEF RaceInv
<1> QED
  BY <1>1, RaceInvariant, PTL

(* The unique constraint on movements: approvals and links that overlap do *)
(* not book a line twice.                                                  *)
THEOREM NeverBookedTwice == Spec => []BookedOnce
<1>1. RaceInv => BookedOnce
  BY DEF RaceInv
<1> QED
  BY <1>1, RaceInvariant, PTL

(* tg_line_post_arr_on_link reads a status that may change before it       *)
(* commits; all the same only orders with an approval in their history     *)
(* book.                                                                   *)
THEOREM BookedAfterApproval == Spec => []BookedOnlyApproved
<1>1. RaceInv => BookedOnlyApproved
  BY DEF RaceInv, ApprovalFirst, Approved, BookedOnlyApproved
<1> QED
  BY <1>1, RaceInvariant, PTL

(* lock_commercials, although it runs before the commit: whoever changes   *)
(* the header commits while the order is still open.                       *)
THEOREM HeaderStaysFrozen == Spec => HeaderFrozen
<1>1. RaceInv /\ [Next]_vars => [reasoned' # reasoned => status \notin Locked]_vars
  <2> SUFFICES ASSUME RaceInv, [Next]_vars, reasoned' # reasoned PROVE status \notin Locked
    OBVIOUS
  <2>1. PICK s \in Session : Commit(s)
    BY CommitOnly DEF RaceInv
  <2>2. tx[s].command = "header"
    BY <2>1, CommitRows DEF RaceInv
  <2> QED
    BY <2>2 DEF RaceInv, StillTrue
<1> QED
  BY <1>1, RaceInvariant, PTL DEF Spec, HeaderFrozen

=============================================================================

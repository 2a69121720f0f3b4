----------------------- MODULE OrderWorkflow_proofs -----------------------
(***************************************************************************)
(* Proofs about the order workflow, for every number of orders, lines,     *)
(* checks, employees and contracts and every history length.               *)
(***************************************************************************)
EXTENDS OrderWorkflow, TLAPS

-----------------------------------------------------------------------------
(* Lemmas about the operators. *)

(* No line is the null line, so Used finds exactly the lines that exist.   *)
LEMMA LineFacts ==
    ASSUME NEW ls \in [LineNo -> Line \union {None}], NEW n \in Used(ls)
    PROVE  /\ n \in LineNo
           /\ ls[n] \in Line
           /\ ls[n].content \in Content
           /\ ls[n].contract \in Contract \union {None}
BY DEF Used, Line

(* Linking an ARR reference is an update of the line like any other.       *)
LEMMA LinkIsUpdate ==
    ASSUME TypeOK, NEW o \in Order, NEW n \in LineNo, NEW c \in Contract, LinkArrRef(o, n, c)
    PROVE  \E l \in Line : UpdateLine(o, n, l)
<1>1. lines[o][n] \in Line
  BY DEF LinkArrRef, TypeOK
<1>2. [lines[o][n] EXCEPT !.contract = c] \in Line
  BY <1>1 DEF Line
<1> QED
  BY <1>2 DEF LinkArrRef

(* Swapping a line's ARR reference changes no margin.                      *)
LEMMA MarginOfContent ==
    ASSUME NEW a, NEW b, Used(a) = Used(b),
           \A n \in Used(a) : a[n].content = b[n].content
    PROVE  OrderMargin(a) = OrderMargin(b)
<1>1. Margins(a) = Margins(b)
  BY DEF Margins
<1> QED
  BY <1>1 DEF OrderMargin

(* What approval or a link adds to the ledger are movements of the order's *)
(* own ARR lines that had none yet, one for each line.                     *)
LEMMA NewMovementsType ==
    ASSUME NEW o \in Order, NEW ls \in [LineNo -> Line \union {None}], header[o] \in Header
    PROVE  NewMovements(o, ls) \subseteq Movement
<1> SUFFICES ASSUME NEW n \in ArrLines(ls)
             PROVE  MovementOf(o, n, ls[n]) \in Movement
  BY DEF NewMovements
<1>1. n \in Used(ls) /\ ls[n].contract # None
  BY DEF ArrLines
<1>2. ls[n].content \in Content /\ ls[n].contract \in Contract /\ n \in LineNo
  BY <1>1, LineFacts
<1>3. ls[n].content.mrr \in Nat
  BY <1>2, DataAssumption DEF AllContents
<1>4. SignedMrr(header[o].type, ls[n].content.mrr) \in Int
  BY <1>3 DEF SignedMrr
<1> QED
  BY <1>2, <1>4 DEF MovementOf, Movement

-----------------------------------------------------------------------------
(* Type correctness. *)

LEMMA InitType == Init => TypeOK
BY DEF Init, TypeOK

LEMMA NextType == TypeOK /\ [Next]_vars => TypeOK'
<1> SUFFICES ASSUME TypeOK, [Next]_vars
             PROVE  TypeOK'
  OBVIOUS
<1> USE DEF TypeOK
<1>1. ASSUME NEW o \in Order, NEW h \in Header, NEW ls \in [LineNo -> Line \union {None}],
             NEW extra \in SUBSET CheckType, CreateSalesOrder(o, h, ls, extra)
      PROVE  TypeOK'
  <2>1. PendingCheck \in Check
    BY DEF PendingCheck, Check, CheckStatus
  <2>2. <<[from |-> None, to |-> "received"]>> \in Seq(Hop)
    BY DEF Hop, Status
  <2>3. status' \in [Order -> Status \union {"absent"}]
    BY <1>1 DEF CreateSalesOrder, Status
  <2>4. backing' \in [Order -> BOOLEAN]
    BY <1>1 DEF CreateSalesOrder
  <2>5. checks' \in [Order -> [CheckType -> Check \union {None}]]
    BY <1>1, <2>1 DEF CreateSalesOrder
  <2>6. history' \in [Order -> Seq(Hop)]
    BY <1>1, <2>2 DEF CreateSalesOrder
  <2> QED
    BY <1>1, <2>3, <2>4, <2>5, <2>6 DEF CreateSalesOrder
<1>2. ASSUME NEW o \in Order, NEW h \in Header, UpdateHeader(o, h)
      PROVE  TypeOK'
  BY <1>2 DEF UpdateHeader
<1>3. ASSUME NEW o \in Order, AssignSn(o)
      PROVE  TypeOK'
  <2>1. [header[o] EXCEPT !.sn = TRUE] \in Header
    BY <1>3, DataAssumption DEF AssignSn, Exists
  <2> QED
    BY <1>3, <2>1 DEF AssignSn
<1>4. ASSUME NEW o \in Order, NEW n \in LineNo, NEW l \in Line, InsertLine(o, n, l)
      PROVE  TypeOK'
  BY <1>4 DEF InsertLine
<1>5. ASSUME NEW o \in Order, NEW n \in LineNo, NEW l \in Line, UpdateLine(o, n, l)
      PROVE  TypeOK'
  <2>1. lines' \in [Order -> [LineNo -> Line \union {None}]]
    BY <1>5 DEF UpdateLine
  <2>2. header[o] \in Header
    BY <1>5 DEF UpdateLine, Exists
  <2>3. NewMovements(o, lines'[o]) \subseteq Movement
    BY <2>1, <2>2, NewMovementsType
  <2>4. ledger' \subseteq Movement
    BY <1>5, <2>3 DEF UpdateLine, PostArr
  <2> QED
    BY <1>5, <2>1, <2>4 DEF UpdateLine
<1>6. ASSUME NEW o \in Order, NEW n \in LineNo, NEW c \in Contract, LinkArrRef(o, n, c)
      PROVE  TypeOK'
  BY <1>5, <1>6, LinkIsUpdate
<1>7. ASSUME NEW o \in Order, NEW t \in CheckType, NEW by \in Employee \union {None},
             RaiseCheck(o, t, by) \/ RenameChecker(o, t, by)
      PROVE  TypeOK'
  <2>1. \A c \in Check : [c EXCEPT !.by = by] \in Check
    BY DEF Check
  <2>2. PendingCheck \in Check
    BY DEF PendingCheck, Check, CheckStatus
  <2>3. CASE RaiseCheck(o, t, by)
    BY <2>1, <2>2, <2>3 DEF RaiseCheck
  <2>4. CASE RenameChecker(o, t, by)
    <3>1. checks[o][t] \in Check
      BY <2>4 DEF RenameChecker
    <3>2. PICK c \in Check : checks' = [checks EXCEPT ![o][t] = c]
      BY <2>1, <2>4, <3>1 DEF RenameChecker
    <3>3. checks' \in [Order -> [CheckType -> Check \union {None}]]
      BY <3>2
    <3> QED
      BY <2>4, <3>3 DEF RenameChecker
  <2> QED
    BY <1>7, <2>3, <2>4
<1>8. ASSUME NEW o \in Order, NEW t \in CheckType, NEW s \in CheckStatus, NEW e \in Employee,
             RecordCheck(o, t, s, e)
      PROVE  TypeOK'
  <2>1. PendingCheck \in Check /\ [status |-> s, by |-> e] \in Check
    BY DEF PendingCheck, Check, CheckStatus
  <2>2. PICK c \in Check : checks' = [checks EXCEPT ![o][t] = c]
    BY <1>8, <2>1 DEF RecordCheck
  <2>3. checks' \in [Order -> [CheckType -> Check \union {None}]]
    BY <2>2
  <2> QED
    BY <1>8, <2>3 DEF RecordCheck
<1>9. ASSUME NEW o \in Order, NEW to \in Status, NEW e \in Employee, ChangeStatus(o, to, e)
      PROVE  TypeOK'
  <2>1. status[o] \in Status
    BY <1>9 DEF ChangeStatus, Transition, Status
  <2>2. header[o] \in Header
    BY <2>1 DEF Status
  <2>3. HopTo(o, to) \in Hop
    BY <2>1 DEF HopTo, Hop
  <2>4. history' \in [Order -> Seq(Hop)]
    BY <1>9, <2>3 DEF ChangeStatus
  <2>5. NewMovements(o, lines[o]) \subseteq Movement
    BY <2>2, NewMovementsType
  <2>6. ledger' \subseteq Movement
    BY <1>9, <2>5 DEF ChangeStatus, PostArr
  <2> QED
    BY <1>9, <2>2, <2>4, <2>6 DEF ChangeStatus
<1>10. ASSUME NEW o \in Order, BackingChanges(o)
       PROVE  TypeOK'
  BY <1>10 DEF BackingChanges
<1>11. CASE UNCHANGED vars
  BY <1>11 DEF vars
<1> QED
  BY <1>1, <1>2, <1>3, <1>4, <1>5, <1>6, <1>7, <1>8, <1>9, <1>10, <1>11 DEF Next

(* Every reachable state is well typed: in particular an order that exists *)
(* has a header, and every movement in the ledger names a real contract.   *)
THEOREM TypeCorrect == Spec => []TypeOK
<1> QED
  BY InitType, NextType, PTL DEF Spec

-----------------------------------------------------------------------------
(* A processed order stays clean.  The argument: the gate establishes it,  *)
(* no status outside the lock leads to a processed one but through the     *)
(* gate, and the only change the lock lets through keeps it.               *)

LEMMA LinkKeepsClean ==
    ASSUME NEW h, NEW ls \in [LineNo -> Line \union {None}], NEW n \in Used(ls), NEW l \in Line,
           OnlyLinks(ls[n], l), ContractFits(l.contract, h.customer), Clean(h, ls)
    PROVE  Clean(h, [ls EXCEPT ![n] = l])
<1> DEFINE new == [ls EXCEPT ![n] = l]
<1>1. n \in LineNo /\ l # None
  BY DataAssumption, LineFacts DEF Line
<1>2. Used(new) = Used(ls)
  BY <1>1 DEF Used
<1>3. \A k \in Used(ls) : new[k].content = ls[k].content
  BY <1>1 DEF OnlyLinks, Used
<1>4. OrderMargin(new) = OrderMargin(ls)
  <2> HIDE DEF new
  <2> QED
    BY <1>2, <1>3, MarginOfContent
<1>5. ASSUME NEW k \in Used(new)
      PROVE  LineClean(h, new[k])
  <2>1. LineClean(h, ls[k]) /\ k \in LineNo
    BY <1>2 DEF Clean, Used
  <2>2. CASE k = n
    BY <1>1, <2>1, <2>2 DEF LineClean, OnlyLinks
  <2>3. CASE k # n
    BY <1>1, <2>1, <2>3
  <2> QED
    BY <2>2, <2>3
<1> HIDE DEF new
<1>6. Clean(h, new)
  BY <1>2, <1>4, <1>5 DEF Clean
<1> QED
  BY <1>6 DEF new

LEMMA InitClean == Init => ProcessedOrderClean
BY DEF Init, ProcessedOrderClean, Processed

LEMMA NextClean ==
    TypeOK /\ ProcessedOrderClean /\ [Next]_vars => ProcessedOrderClean'
<1> SUFFICES ASSUME TypeOK, ProcessedOrderClean, [Next]_vars,
                    NEW p \in Order, Processed(p)'
             PROVE  Clean(header'[p], lines'[p])
  BY DEF ProcessedOrderClean
<1> USE DEF TypeOK
<1>0. Processed(p) => Clean(header[p], lines[p])
  BY DEF ProcessedOrderClean
<1>1. ASSUME NEW o \in Order, NEW h \in Header, NEW ls \in [LineNo -> Line \union {None}],
             NEW extra \in SUBSET CheckType, CreateSalesOrder(o, h, ls, extra)
      PROVE  Clean(header'[p], lines'[p])
  BY <1>0, <1>1 DEF CreateSalesOrder, Processed
<1>2. ASSUME NEW o \in Order, NEW h \in Header, UpdateHeader(o, h)
      PROVE  Clean(header'[p], lines'[p])
  BY <1>0, <1>2 DEF UpdateHeader, Locked, LinesLocked, Processed
<1>3. ASSUME NEW o \in Order, AssignSn(o)
      PROVE  Clean(header'[p], lines'[p])
  BY <1>0, <1>3 DEF AssignSn, Locked, LinesLocked, Processed
<1>4. ASSUME NEW o \in Order, NEW n \in LineNo, NEW l \in Line, InsertLine(o, n, l)
      PROVE  Clean(header'[p], lines'[p])
  BY <1>0, <1>4 DEF InsertLine, Locked, LinesLocked, Processed
<1>5. ASSUME NEW o \in Order, NEW n \in LineNo, NEW l \in Line, UpdateLine(o, n, l)
      PROVE  Clean(header'[p], lines'[p])
  <2>1. Processed(p) /\ header' = header
    BY <1>5 DEF UpdateLine, Processed
  <2>2. CASE p = o
    <3>1. OnlyLinks(lines[o][n], l)
      BY <1>5, <2>1, <2>2 DEF UpdateLine, Locked, LinesLocked, Processed
    <3>2. n \in Used(lines[o]) /\ ContractFits(l.contract, header[o].customer)
      BY <1>5 DEF UpdateLine, Used
    <3>3. lines'[o] = [lines[o] EXCEPT ![n] = l]
      BY <1>5 DEF UpdateLine
    <3>4. lines[o] \in [LineNo -> Line \union {None}]
      OBVIOUS
    <3>5. Clean(header[o], lines[o])
      BY <1>0, <2>1, <2>2
    <3>6. Clean(header[o], [lines[o] EXCEPT ![n] = l])
      <4> HIDE DEF TypeOK
      <4> QED
        BY <3>1, <3>2, <3>4, <3>5, LinkKeepsClean
    <3> QED
      BY <2>1, <2>2, <3>3, <3>6
  <2>3. CASE p # o
    <3>1. lines'[p] = lines[p]
      BY <1>5, <2>3 DEF UpdateLine
    <3> QED
      BY <1>0, <2>1, <3>1
  <2> QED
    BY <2>2, <2>3
<1>6. ASSUME NEW o \in Order, NEW n \in LineNo, NEW c \in Contract, LinkArrRef(o, n, c)
      PROVE  Clean(header'[p], lines'[p])
  BY <1>5, <1>6, LinkIsUpdate
<1>7. ASSUME NEW o \in Order, NEW t \in CheckType, NEW by \in Employee \union {None},
             RaiseCheck(o, t, by) \/ RenameChecker(o, t, by)
      PROVE  Clean(header'[p], lines'[p])
  BY <1>0, <1>7 DEF RaiseCheck, RenameChecker, Processed
<1>8. ASSUME NEW o \in Order, NEW t \in CheckType, NEW s \in CheckStatus, NEW e \in Employee,
             RecordCheck(o, t, s, e)
      PROVE  Clean(header'[p], lines'[p])
  BY <1>0, <1>8 DEF RecordCheck, Processed
<1>9. ASSUME NEW o \in Order, NEW to \in Status, NEW e \in Employee, ChangeStatus(o, to, e)
      PROVE  Clean(header'[p], lines'[p])
  <2>1. header' = header /\ lines' = lines
    BY <1>9 DEF ChangeStatus
  <2>2. CASE p = o /\ to = "approved"
    BY <1>9, <2>1, <2>2 DEF ChangeStatus, Gate
  <2>3. CASE p = o /\ to # "approved"
    BY <1>0, <1>9, <2>1, <2>3 DEF ChangeStatus, Transition, Processed
  <2>4. CASE p # o
    BY <1>0, <1>9, <2>1, <2>4 DEF ChangeStatus, Processed
  <2> QED
    BY <2>2, <2>3, <2>4
<1>10. ASSUME NEW o \in Order, BackingChanges(o)
       PROVE  Clean(header'[p], lines'[p])
  BY <1>0, <1>10 DEF BackingChanges, Processed
<1>11. CASE UNCHANGED vars
  BY <1>0, <1>11 DEF vars, Processed
<1> QED
  BY <1>1, <1>2, <1>3, <1>4, <1>5, <1>6, <1>7, <1>8, <1>9, <1>10, <1>11 DEF Next

(* An approved order stays free of every blocking exception its content    *)
(* decides, whatever is done to it until it is held or cancelled.          *)
THEOREM ProcessedStayClean == Spec => []ProcessedOrderClean
<1> QED
  BY InitClean, NextClean, TypeCorrect, PTL DEF Spec

-----------------------------------------------------------------------------
(* The ledger.  Only two actions touch it, both through PostArr.           *)

(* A movement is posted for an order that is processed after the step.     *)
LEMMA PostedWhenProcessed ==
    ASSUME TypeOK, [Next]_vars, ledger' # ledger
    PROVE  \E o \in Order : Processed(o)' /\ ledger' = ledger \union NewMovements(o, lines'[o])
<1>1. ASSUME NEW o \in Order, NEW n \in LineNo, NEW l \in Line, UpdateLine(o, n, l)
      PROVE  Processed(o)' /\ ledger' = ledger \union NewMovements(o, lines'[o])
  BY <1>1 DEF UpdateLine, PostsOnLink, PostArr, Processed, LinesLocked
<1>2. ASSUME NEW o \in Order, NEW n \in LineNo, NEW c \in Contract, LinkArrRef(o, n, c)
      PROVE  \E l \in Line : UpdateLine(o, n, l)
  BY <1>2, LinkIsUpdate
<1>3. ASSUME NEW o \in Order, NEW to \in Status, NEW e \in Employee, ChangeStatus(o, to, e)
      PROVE  Processed(o)' /\ ledger' = ledger \union NewMovements(o, lines'[o])
  BY <1>3 DEF ChangeStatus, PostArr, Processed, TypeOK
<1> QED
  BY <1>1, <1>2, <1>3 DEF Next, CreateSalesOrder, UpdateHeader, AssignSn, InsertLine, RaiseCheck,
     RenameChecker, RecordCheck, BackingChanges, vars

LEMMA NextOneMovement ==
    TypeOK /\ LedgerOneMovementPerLine /\ [Next]_vars => LedgerOneMovementPerLine'
<1> SUFFICES ASSUME TypeOK, LedgerOneMovementPerLine, [Next]_vars,
                    NEW m1 \in ledger', NEW m2 \in ledger',
                    m1.order = m2.order, m1.line = m2.line
             PROVE  m1 = m2
  BY DEF LedgerOneMovementPerLine
<1>1. CASE ledger' = ledger
  BY <1>1 DEF LedgerOneMovementPerLine
<1>2. CASE ledger' # ledger
  <2>1. PICK o \in Order : ledger' = ledger \union NewMovements(o, lines'[o])
    BY <1>2, PostedWhenProcessed
  <2>2. ASSUME NEW m \in NewMovements(o, lines'[o])
        PROVE  /\ m.order = o
               /\ ~Posted(o, m.line)
               /\ m = MovementOf(o, m.line, lines'[o][m.line])
    BY DEF NewMovements, MovementOf
  <2>3. ASSUME NEW m \in ledger
        PROVE  Posted(m.order, m.line)
    BY DEF Posted
  <2> QED
    BY <2>1, <2>2, <2>3 DEF LedgerOneMovementPerLine
<1> QED
  BY <1>1, <1>2

(* No line is ever booked into ARR twice, however often its order is held, *)
(* approved again and linked.                                              *)
THEOREM OneMovementPerLine == Spec => []LedgerOneMovementPerLine
<1>1. Init => LedgerOneMovementPerLine
  BY DEF Init, LedgerOneMovementPerLine
<1> QED
  BY <1>1, NextOneMovement, TypeCorrect, PTL DEF Spec

-----------------------------------------------------------------------------
(* A decided check names somebody, whoever that is.                        *)

DecidedNamed ==
    \A o \in Order, t \in CheckType :
        checks[o][t] # None /\ checks[o][t].status # "pending" => checks[o][t].by # None

LEMMA NextDecidedNamed ==
    TypeOK /\ DecidedNamed /\ [Next]_vars => DecidedNamed'
<1> DEFINE Named(c) == c # None /\ c.status # "pending" => c.by # None
<1> SUFFICES ASSUME TypeOK, DecidedNamed, [Next]_vars,
                    NEW p \in Order, NEW u \in CheckType
             PROVE  Named(checks'[p][u])
  BY DEF DecidedNamed
<1>0. Named(checks[p][u])
  BY DEF DecidedNamed
<1>a. /\ Named(None) /\ Named(PendingCheck)
      /\ \A by \in Employee \union {None} : Named([PendingCheck EXCEPT !.by = by])
  BY DEF PendingCheck
<1> HIDE DEF Named
<1> USE DEF TypeOK
<1>1. ASSUME NEW o \in Order, NEW h \in Header, NEW ls \in [LineNo -> Line \union {None}],
             NEW extra \in SUBSET CheckType, CreateSalesOrder(o, h, ls, extra)
      PROVE  Named(checks'[p][u])
  <2>1. checks'[p][u] \in {checks[p][u], PendingCheck, None}
    BY <1>1 DEF CreateSalesOrder
  <2> QED
    BY <1>0, <1>a, <2>1
<1>2. ASSUME NEW o \in Order, NEW t \in CheckType, NEW by \in Employee \union {None},
             RaiseCheck(o, t, by)
      PROVE  Named(checks'[p][u])
  <2>1. checks'[p][u] \in {checks[p][u], [PendingCheck EXCEPT !.by = by]}
    BY <1>2 DEF RaiseCheck
  <2> QED
    BY <1>0, <1>a, <2>1
<1>3. ASSUME NEW o \in Order, NEW t \in CheckType, NEW by \in Employee \union {None},
             RenameChecker(o, t, by)
      PROVE  Named(checks'[p][u])
  <2> DEFINE renamed == [checks[o][t] EXCEPT !.by = by]
  <2>1. Named(renamed)
    <3>1. checks[o][t] \in Check /\ (checks[o][t].status # "pending" => by # None)
      BY <1>3 DEF RenameChecker
    <3>2. renamed.status = checks[o][t].status /\ renamed.by = by
      BY <3>1 DEF Check
    <3> QED
      BY <3>1, <3>2 DEF Named
  <2>2. checks'[p][u] \in {checks[p][u], renamed}
    BY <1>3 DEF RenameChecker
  <2> QED
    BY <1>0, <2>1, <2>2
<1>4. ASSUME NEW o \in Order, NEW t \in CheckType, NEW s \in CheckStatus, NEW e \in Employee,
             RecordCheck(o, t, s, e)
      PROVE  Named(checks'[p][u])
  <2>1. Named([status |-> s, by |-> e])
    BY CheckAssumption DEF Named
  <2>2. PICK c : Named(c) /\ checks' = [checks EXCEPT ![o][t] = c]
    BY <1>4, <1>a, <2>1 DEF RecordCheck
  <2>3. checks'[p][u] \in {checks[p][u], c}
    BY <2>2
  <2> QED
    BY <1>0, <2>2, <2>3
<1>5. CASE UNCHANGED checks
  BY <1>0, <1>5
<1>6. CASE Next /\ checks' # checks
  <2>1. ASSUME NEW o \in Order, NEW n \in LineNo
        PROVE  /\ \A l \in Line : ~InsertLine(o, n, l)
               /\ \A l \in Line : ~UpdateLine(o, n, l)
               /\ \A c \in Contract : ~LinkArrRef(o, n, c)
    BY <1>6 DEF InsertLine, UpdateLine, LinkArrRef
  <2>2. ASSUME NEW o \in Order
        PROVE  /\ \A h \in Header : ~UpdateHeader(o, h)
               /\ ~AssignSn(o)
               /\ \A to \in Status, e \in Employee : ~ChangeStatus(o, to, e)
               /\ ~BackingChanges(o)
    BY <1>6 DEF UpdateHeader, AssignSn, ChangeStatus, BackingChanges
  <2> QED
    BY <1>1, <1>2, <1>3, <1>4, <1>6, <2>1, <2>2 DEF Next
<1> QED
  BY <1>5, <1>6 DEF vars

LEMMA AlwaysNamed == Spec => []DecidedNamed
<1>1. Init => DecidedNamed
  BY DEF Init, DecidedNamed
<1> QED
  BY <1>1, NextDecidedNamed, TypeCorrect, PTL DEF Spec

(* The gate reads outcomes only; that each of them names an employee comes *)
(* from the invariant.                                                     *)
LEMMA StepDecided ==
    ASSUME TypeOK, DecidedNamed, [Next]_vars,
           NEW p \in Order, status[p] # "approved", status'[p] = "approved",
           NEW t \in CheckType, checks[p][t] # None
    PROVE  checks[p][t].status \in Resolved /\ checks[p][t].by \in Employee
<1>1. PICK e \in Employee : Gate(p, e)
  <2> USE DEF TypeOK
  <2>1. ASSUME NEW o \in Order, NEW to \in Status, NEW e \in Employee, ChangeStatus(o, to, e)
        PROVE  Gate(p, e)
    BY <2>1 DEF ChangeStatus
  <2>2. ASSUME NEW o \in Order, NEW h \in Header, NEW ls \in [LineNo -> Line \union {None}],
               NEW extra \in SUBSET CheckType
        PROVE  ~CreateSalesOrder(o, h, ls, extra)
    BY DEF CreateSalesOrder
  <2>3. status' # status
    OBVIOUS
  <2>4. ASSUME NEW o \in Order, NEW n \in LineNo
        PROVE  /\ \A l \in Line : ~InsertLine(o, n, l)
               /\ \A l \in Line : ~UpdateLine(o, n, l)
               /\ \A c \in Contract : ~LinkArrRef(o, n, c)
    BY <2>3 DEF InsertLine, UpdateLine, LinkArrRef
  <2>5. ASSUME NEW o \in Order
        PROVE  /\ \A h \in Header : ~UpdateHeader(o, h)
               /\ ~AssignSn(o)
               /\ \A u \in CheckType, by \in Employee \union {None} :
                     ~RaiseCheck(o, u, by) /\ ~RenameChecker(o, u, by)
               /\ \A u \in CheckType, s \in CheckStatus, e \in Employee : ~RecordCheck(o, u, s, e)
               /\ ~BackingChanges(o)
    BY <2>3 DEF UpdateHeader, AssignSn, RaiseCheck, RenameChecker, RecordCheck, BackingChanges
  <2> HIDE DEF TypeOK
  <2>6. PICK o \in Order, to \in Status, e \in Employee : ChangeStatus(o, to, e)
    BY <2>2, <2>3, <2>4, <2>5 DEF Next, vars
  <2> QED
    BY <2>1, <2>6
<1>2. checks[p][t].status \in Resolved
  BY <1>1 DEF Gate, AllResolved
<1>3. checks[p][t] \in Check
  BY DEF TypeOK
<1>4. checks[p][t].by # None
  BY <1>2 DEF DecidedNamed, Resolved
<1> QED
  BY <1>2, <1>3, <1>4 DEF Check

(* At the moment of approval every check of the order is decided and names *)
(* an employee.                                                            *)
THEOREM ApprovalsDecided == Spec => ApprovalDecided
<1>1. TypeOK /\ DecidedNamed /\ [Next]_vars =>
        [\A o \in Order : status[o] # "approved" /\ status'[o] = "approved" =>
            \A t \in CheckType : checks[o][t] # None =>
                checks[o][t].status \in Resolved /\ checks[o][t].by \in Employee]_vars
  BY StepDecided
<1> QED
  BY <1>1, AlwaysNamed, TypeCorrect, PTL DEF Spec, ApprovalDecided

-----------------------------------------------------------------------------
(* The status history. *)

(* What one step can do to the status and the history of an order.         *)
Stays(p) == status'[p] = status[p] /\ history'[p] = history[p]

IsCreated(p) ==
    /\ status[p] = "absent"
    /\ status'[p] = "received"
    /\ history'[p] = <<[from |-> None, to |-> "received"]>>

Moves(p) ==
    /\ <<status[p], status'[p]>> \in Transition
    /\ history'[p] = Append(history[p], HopTo(p, status'[p]))

LEMMA HistoryStep ==
    ASSUME TypeOK, [Next]_vars, NEW p \in Order
    PROVE  Stays(p) \/ IsCreated(p) \/ Moves(p)
<1>1. ASSUME NEW o \in Order, NEW h \in Header, NEW ls \in [LineNo -> Line \union {None}],
             NEW extra \in SUBSET CheckType, CreateSalesOrder(o, h, ls, extra)
      PROVE  Stays(p) \/ IsCreated(p)
  BY <1>1 DEF CreateSalesOrder, TypeOK, Stays, IsCreated
<1>2. ASSUME NEW o \in Order, NEW to \in Status, NEW e \in Employee, ChangeStatus(o, to, e)
      PROVE  Stays(p) \/ Moves(p)
  BY <1>2 DEF ChangeStatus, TypeOK, Stays, Moves
<1>3. CASE UNCHANGED <<status, history>>
  BY <1>3 DEF Stays
<1>4. ASSUME NEW o \in Order, NEW n \in LineNo,
             \/ \E l \in Line : InsertLine(o, n, l) \/ UpdateLine(o, n, l)
             \/ \E c \in Contract : LinkArrRef(o, n, c)
      PROVE  UNCHANGED <<status, history>>
  BY <1>4 DEF InsertLine, UpdateLine, LinkArrRef
<1>5. ASSUME NEW o \in Order,
             \/ \E h \in Header : UpdateHeader(o, h)
             \/ AssignSn(o)
             \/ \E t \in CheckType, by \in Employee \union {None} :
                   RaiseCheck(o, t, by) \/ RenameChecker(o, t, by)
             \/ \E t \in CheckType, s \in CheckStatus, e \in Employee : RecordCheck(o, t, s, e)
             \/ BackingChanges(o)
      PROVE  UNCHANGED <<status, history>>
  BY <1>5 DEF UpdateHeader, AssignSn, RaiseCheck, RenameChecker, RecordCheck, BackingChanges
<1> QED
  BY <1>1, <1>2, <1>3, <1>4, <1>5 DEF Next, vars

LEMMA NextChained == TypeOK /\ HistoryChained /\ [Next]_vars => HistoryChained'
<1> DEFINE Chain(h) == \A i \in 2..Len(h) : /\ h[i].from = h[i - 1].to
                                            /\ <<h[i].from, h[i].to>> \in Transition
           Ends(s, h) == /\ Len(h) > 0
                         /\ h[1] = [from |-> None, to |-> "received"]
                         /\ h[Len(h)].to = s
<1> SUFFICES ASSUME TypeOK, HistoryChained, [Next]_vars, NEW p \in Order
             PROVE  (status'[p] # "absent" => Ends(status'[p], history'[p])) /\ Chain(history'[p])
  BY DEF HistoryChained, Exists
<1>1. (status[p] # "absent" => Ends(status[p], history[p])) /\ Chain(history[p])
  BY DEF HistoryChained, Exists
<1>2. history[p] \in Seq(Hop) /\ status'[p] \in Status \union {"absent"}
  BY NextType DEF TypeOK
<1>3. CASE Stays(p)
  BY <1>1, <1>3 DEF Stays
<1>4. CASE IsCreated(p)
  BY <1>4 DEF IsCreated
<1>5. CASE Moves(p)
  <2> DEFINE h == history[p]
             new == Append(h, HopTo(p, status'[p]))
  <2>1. Ends(status[p], h) /\ Chain(h)
    BY <1>1, <1>5 DEF Moves, Transition
  <2>2. /\ Len(h) \in Nat /\ Len(new) = Len(h) + 1
        /\ \A i \in 1..Len(h) : new[i] = h[i]
        /\ new[Len(h) + 1] = HopTo(p, status'[p])
    BY <1>2
  <2>3. HopTo(p, status'[p]).from = status[p] /\ HopTo(p, status'[p]).to = status'[p]
    BY DEF HopTo
  <2>4. ASSUME NEW i \in 2..Len(new)
        PROVE  /\ new[i].from = new[i - 1].to
               /\ <<new[i].from, new[i].to>> \in Transition
    <3> HIDE DEF new, h
    <3>1. CASE i = Len(h) + 1
      <4>1. Len(h) \in 1..Len(h) /\ i - 1 = Len(h)
        BY <2>1, <2>2, <3>1
      <4>2. new[i - 1] = h[Len(h)] /\ new[i] = HopTo(p, status'[p])
        BY <2>2, <3>1, <4>1
      <4> QED
        BY <1>5, <2>1, <2>3, <4>2 DEF Moves
    <3>2. CASE i # Len(h) + 1
      <4>1. i \in 2..Len(h) /\ i \in 1..Len(h) /\ i - 1 \in 1..Len(h)
        BY <2>2, <3>2
      <4> QED
        BY <2>1, <2>2, <4>1
    <3> QED
      BY <3>1, <3>2
  <2>5. Ends(status'[p], new)
    <3> HIDE DEF new, h
    <3> QED
      BY <2>1, <2>2, <2>3
  <2> QED
    BY <1>5, <2>4, <2>5 DEF Moves
<1> QED
  BY <1>3, <1>4, <1>5, HistoryStep

(* The history of every order is one unbroken walk through the permitted   *)
(* transitions, ending in the status the order has.                        *)
THEOREM HistoryUnbroken == Spec => []HistoryChained
<1>1. Init => HistoryChained
  BY DEF Init, HistoryChained, Exists
<1> QED
  BY <1>1, NextChained, TypeCorrect, PTL DEF Spec

(* A held order is received and validated again before it is approved:     *)
(* this needs nothing but the unbroken walk, for on_hold leads only to     *)
(* received or to the dead end of cancelled, and approved is only reached  *)
(* from validated.                                                         *)
LEMMA ChainedRevalidates == TypeOK /\ HistoryChained => HeldOrdersRevalidated
<1> SUFFICES ASSUME TypeOK, HistoryChained, NEW o \in Order,
                    NEW i \in 1..Len(history[o]), NEW j \in 1..Len(history[o]),
                    i < j, history[o][i].to = "on_hold", history[o][j].to = "approved"
             PROVE  \E k, m \in i..j : /\ k < m
                                       /\ history[o][k].to = "received"
                                       /\ history[o][m].to = "validated"
  BY DEF HeldOrdersRevalidated
<1> DEFINE h == history[o]
<1>1. Len(h) \in Nat /\ i \in 1..Len(h) /\ j \in 1..Len(h)
  BY DEF TypeOK
<1>2. ASSUME NEW n \in 2..Len(h)
      PROVE  h[n].from = h[n - 1].to /\ <<h[n].from, h[n].to>> \in Transition
  BY DEF HistoryChained
<1> HIDE DEF h
<1>3. h[i + 1].from = "on_hold" /\ <<h[i + 1].from, h[i + 1].to>> \in Transition
  <2>1. i + 1 \in 2..Len(h) /\ (i + 1) - 1 = i
    BY <1>1
  <2> QED
    BY <1>2, <2>1 DEF h
<1>4. h[j - 1].to = "validated"
  <2>1. j \in 2..Len(h)
    BY <1>1
  <2> QED
    BY <1>2, <2>1 DEF h, Transition
<1>5. h[i + 1].to \in {"received", "cancelled"}
  BY <1>3 DEF Transition
<1>6. i + 1 < j
  BY <1>5 DEF h
<1>7. h[i + 1].to # "cancelled"
  <2>1. i + 2 \in 2..Len(h) /\ (i + 2) - 1 = i + 1
    BY <1>1, <1>6
  <2>2. h[i + 2].from = h[i + 1].to /\ <<h[i + 2].from, h[i + 2].to>> \in Transition
    BY <1>2, <2>1
  <2> QED
    BY <2>2 DEF Transition
<1>8. i + 1 < j - 1
  BY <1>4, <1>5, <1>6, <1>7
<1> QED
  BY <1>4, <1>5, <1>7, <1>8 DEF h

(* However often it is held, an order is approved again only after it has  *)
(* been received and validated again.                                      *)
THEOREM HeldRevalidated == Spec => []HeldOrdersRevalidated
<1> QED
  BY ChainedRevalidates, HistoryUnbroken, TypeCorrect, PTL

-----------------------------------------------------------------------------
(* What the ledger holds was approved once.  The property alone is not     *)
(* inductive: a late link posts because of the status the order has now,   *)
(* so the history of a processed order must be known to hold an approval,  *)
(* and an order that does not exist must be known to have no history.      *)

ApprovedOnce(h) == \E i \in 1..Len(h) : h[i].to = "approved"

ApprovalsOnRecord ==
    \A o \in Order : /\ status[o] = "absent" => history[o] = <<>>
                     /\ Processed(o) => ApprovedOnce(history[o])

LEMMA ApprovedOnceGrows ==
    ASSUME NEW h \in Seq(Hop), NEW hop \in Hop,
           ApprovedOnce(h) \/ hop.to = "approved"
    PROVE  ApprovedOnce(Append(h, hop))
<1>1. Len(Append(h, hop)) = Len(h) + 1 /\ Len(h) \in Nat
  OBVIOUS
<1>2. CASE hop.to = "approved"
  <2>1. Append(h, hop)[Len(h) + 1] = hop /\ Len(h) + 1 \in 1..Len(Append(h, hop))
    BY <1>1
  <2> QED
    BY <1>2, <2>1 DEF ApprovedOnce
<1>3. CASE ApprovedOnce(h)
  <2>1. PICK i \in 1..Len(h) : h[i].to = "approved"
    BY <1>3 DEF ApprovedOnce
  <2>2. Append(h, hop)[i] = h[i] /\ i \in 1..Len(Append(h, hop))
    BY <1>1
  <2> QED
    BY <2>1, <2>2 DEF ApprovedOnce
<1> QED
  BY <1>2, <1>3

LEMMA MovesToHop ==
    ASSUME TypeOK, NEW p \in Order, Moves(p)
    PROVE  HopTo(p, status'[p]) \in Hop /\ status[p] # "absent" /\ history[p] \in Seq(Hop)
BY DEF TypeOK, Moves, Transition, HopTo, Hop, Status

LEMMA NextApprovalsOnRecord ==
    TypeOK /\ ApprovalsOnRecord /\ [Next]_vars => ApprovalsOnRecord'
<1> SUFFICES ASSUME TypeOK, ApprovalsOnRecord, [Next]_vars, NEW p \in Order
             PROVE  /\ status'[p] = "absent" => history'[p] = <<>>
                    /\ Processed(p)' => ApprovedOnce(history'[p])
  BY DEF ApprovalsOnRecord
<1>1. CASE Stays(p)
  BY <1>1 DEF Stays, ApprovalsOnRecord, Processed
<1>2. CASE IsCreated(p)
  BY <1>2 DEF IsCreated, Processed
<1>3. CASE Moves(p)
  <2>1. status'[p] # "absent"
    BY <1>3 DEF Moves, Transition
  <2>2. Processed(p)' => Processed(p) \/ HopTo(p, status'[p]).to = "approved"
    BY <1>3 DEF Moves, Transition, Processed, HopTo
  <2>3. Processed(p) => ApprovedOnce(history[p])
    BY DEF ApprovalsOnRecord
  <2>4. Processed(p)' => ApprovedOnce(Append(history[p], HopTo(p, status'[p])))
    BY <1>3, <2>2, <2>3, MovesToHop, ApprovedOnceGrows
  <2> QED
    BY <1>3, <2>1, <2>4 DEF Moves
<1> QED
  BY <1>1, <1>2, <1>3, HistoryStep

LEMMA NextOnlyApproved ==
    TypeOK /\ ApprovalsOnRecord /\ LedgerOnlyApproved /\ [Next]_vars => LedgerOnlyApproved'
<1> SUFFICES ASSUME TypeOK, ApprovalsOnRecord, LedgerOnlyApproved, [Next]_vars, NEW m \in ledger'
             PROVE  ApprovedOnce(history'[m.order])
  BY DEF LedgerOnlyApproved, ApprovedOnce
<1>1. CASE m \in ledger
  <2>1. ApprovedOnce(history[m.order]) /\ m.order \in Order
    BY <1>1 DEF LedgerOnlyApproved, ApprovedOnce, TypeOK, Movement
  <2>2. CASE Stays(m.order)
    BY <2>1, <2>2 DEF Stays
  <2>3. CASE IsCreated(m.order)
    <3>1. history[m.order] = <<>>
      BY <2>1, <2>3 DEF IsCreated, ApprovalsOnRecord
    <3> QED
      BY <2>1, <3>1 DEF ApprovedOnce
  <2>4. CASE Moves(m.order)
    <3>1. ApprovedOnce(Append(history[m.order], HopTo(m.order, status'[m.order])))
      BY <2>1, <2>4, MovesToHop, ApprovedOnceGrows
    <3> QED
      BY <2>4, <3>1 DEF Moves
  <2> QED
    BY <2>1, <2>2, <2>3, <2>4, HistoryStep
<1>2. CASE m \notin ledger
  <2>1. PICK o \in Order : Processed(o)' /\ ledger' = ledger \union NewMovements(o, lines'[o])
    BY <1>2, PostedWhenProcessed
  <2>2. m.order = o
    BY <1>2, <2>1 DEF NewMovements, MovementOf
  <2>3. ApprovalsOnRecord'
    BY NextApprovalsOnRecord
  <2> QED
    BY <2>1, <2>2, <2>3 DEF ApprovalsOnRecord
<1> QED
  BY <1>1, <1>2

(* ARR is only ever booked for orders that have been approved.             *)
THEOREM OnlyApprovedBooked == Spec => []LedgerOnlyApproved
<1>1. Init => ApprovalsOnRecord /\ LedgerOnlyApproved
  BY DEF Init, ApprovalsOnRecord, LedgerOnlyApproved, Processed
<1> QED
  BY <1>1, NextApprovalsOnRecord, NextOnlyApproved, TypeCorrect, PTL DEF Spec

-----------------------------------------------------------------------------
(* Nothing recurring goes missing. *)

(* An order is processed after a step because nothing about it changed, or *)
(* because the step approved it or linked a line of it and posted its ARR. *)
LEMMA ProcessedStep ==
    ASSUME TypeOK, [Next]_vars, NEW p \in Order, Processed(p)'
    PROVE  /\ header'[p] = header[p]
           /\ \/ Processed(p) /\ lines'[p] = lines[p]
              \/ ledger' = ledger \union NewMovements(p, lines'[p])
<1> DEFINE Goal == /\ header'[p] = header[p]
                   /\ \/ Processed(p) /\ lines'[p] = lines[p]
                      \/ ledger' = ledger \union NewMovements(p, lines'[p])
<1> USE DEF TypeOK
<1>1. ASSUME NEW o \in Order, NEW h \in Header, NEW ls \in [LineNo -> Line \union {None}],
             NEW extra \in SUBSET CheckType, CreateSalesOrder(o, h, ls, extra)
      PROVE  Goal
  BY <1>1 DEF CreateSalesOrder, Processed
<1>2. ASSUME NEW o \in Order, NEW h \in Header, UpdateHeader(o, h)
      PROVE  Goal
  BY <1>2 DEF UpdateHeader, Locked, LinesLocked, Processed
<1>3. ASSUME NEW o \in Order, AssignSn(o)
      PROVE  Goal
  BY <1>3 DEF AssignSn, Locked, LinesLocked, Processed
<1>4. ASSUME NEW o \in Order, NEW n \in LineNo, NEW l \in Line, InsertLine(o, n, l)
      PROVE  Goal
  BY <1>4 DEF InsertLine, Locked, LinesLocked, Processed
<1>5. ASSUME NEW o \in Order, NEW n \in LineNo, NEW l \in Line, UpdateLine(o, n, l)
      PROVE  Goal
  <2>1. header' = header /\ Processed(p)
    BY <1>5 DEF UpdateLine, Processed
  <2>2. CASE p = o
    <3>1. PostsOnLink(o, lines[o][n], l)
      BY <1>5, <2>1, <2>2 DEF UpdateLine, OnlyLinks, PostsOnLink, Locked, LinesLocked, Processed
    <3> QED
      BY <1>5, <2>1, <2>2, <3>1 DEF UpdateLine, PostArr
  <2>3. CASE p # o
    BY <1>5, <2>1, <2>3 DEF UpdateLine
  <2> QED
    BY <2>2, <2>3
<1>6. ASSUME NEW o \in Order, NEW n \in LineNo, NEW c \in Contract, LinkArrRef(o, n, c)
      PROVE  Goal
  BY <1>5, <1>6, LinkIsUpdate
<1>7. ASSUME NEW o \in Order, NEW t \in CheckType, NEW by \in Employee \union {None},
             RaiseCheck(o, t, by) \/ RenameChecker(o, t, by)
      PROVE  Goal
  BY <1>7 DEF RaiseCheck, RenameChecker, Processed
<1>8. ASSUME NEW o \in Order, NEW t \in CheckType, NEW s \in CheckStatus, NEW e \in Employee,
             RecordCheck(o, t, s, e)
      PROVE  Goal
  BY <1>8 DEF RecordCheck, Processed
<1>9. ASSUME NEW o \in Order, NEW to \in Status, NEW e \in Employee, ChangeStatus(o, to, e)
      PROVE  Goal
  <2>1. header' = header /\ lines' = lines
    BY <1>9 DEF ChangeStatus
  <2>2. CASE p = o /\ to = "approved"
    BY <1>9, <2>1, <2>2 DEF ChangeStatus, PostArr
  <2>3. CASE ~(p = o /\ to = "approved")
    BY <1>9, <2>1, <2>3 DEF ChangeStatus, Transition, Processed
  <2> QED
    BY <2>2, <2>3
<1>10. ASSUME NEW o \in Order, BackingChanges(o)
       PROVE  Goal
  BY <1>10 DEF BackingChanges, Processed
<1>11. CASE UNCHANGED vars
  BY <1>11 DEF vars, Processed
<1> QED
  BY <1>1, <1>2, <1>3, <1>4, <1>5, <1>6, <1>7, <1>8, <1>9, <1>10, <1>11 DEF Next

LEMMA NextAccounted ==
    TypeOK /\ ProcessedArrAccounted /\ [Next]_vars => ProcessedArrAccounted'
<1> SUFFICES ASSUME TypeOK, ProcessedArrAccounted, [Next]_vars,
                    NEW p \in Order, Processed(p)', Posts(header'[p].type),
                    NEW n \in ArrLines(lines'[p])
             PROVE  Posted(p, n)'
  BY DEF ProcessedArrAccounted
<1>1. ledger \subseteq ledger'
  BY PostedWhenProcessed
<1>2. header'[p] = header[p]
  BY ProcessedStep
<1>3. CASE Processed(p) /\ lines'[p] = lines[p]
  BY <1>1, <1>2, <1>3 DEF ProcessedArrAccounted, Posted
<1>4. CASE ledger' = ledger \union NewMovements(p, lines'[p])
  <2>1. CASE Posted(p, n)
    BY <1>1, <2>1 DEF Posted
  <2>2. CASE ~Posted(p, n)
    <3>1. MovementOf(p, n, lines'[p][n]) \in ledger'
      BY <1>2, <1>4, <2>2 DEF NewMovements
    <3>2. MovementOf(p, n, lines'[p][n]).order = p /\ MovementOf(p, n, lines'[p][n]).line = n
      BY DEF MovementOf
    <3> QED
      BY <3>1, <3>2 DEF Posted
  <2> QED
    BY <2>1, <2>2
<1> QED
  BY <1>3, <1>4, ProcessedStep

(* Every recurring line with an ARR reference on a processed order has its *)
(* movement, whether the reference came before approval or after it.       *)
THEOREM ArrAccounted == Spec => []ProcessedArrAccounted
<1>1. Init => ProcessedArrAccounted
  BY DEF Init, ProcessedArrAccounted, Processed
<1> QED
  BY <1>1, NextAccounted, TypeCorrect, PTL DEF Spec

-----------------------------------------------------------------------------
(* The workflow implements CommercialTerms: each action is, on the phase   *)
(* and the terms of its order, one action of CommercialTerms or a stutter. *)

Phase == [o \in Order |-> PhaseOf(status[o])]
Terms == [o \in Order |-> TermsOf(header[o], lines[o])]
AllTerms == [header : Header, contents : [LineNo -> Content \union {None}]]

LEMMA TermsType ==
    ASSUME NEW h \in Header, NEW ls \in [LineNo -> Line \union {None}]
    PROVE  TermsOf(h, ls) \in AllTerms
<1>1. ASSUME NEW n \in LineNo
      PROVE  ContentOf(ls[n]) \in Content \union {None}
  BY DEF ContentOf, Line
<1> QED
  BY <1>1 DEF TermsOf, AllTerms

(* A link leaves the terms as they are.                                    *)
LEMMA LinkKeepsTerms ==
    ASSUME NEW h, NEW ls \in [LineNo -> Line \union {None}], NEW n \in LineNo, NEW l \in Line,
           ls[n] # None, OnlyLinks(ls[n], l)
    PROVE  TermsOf(h, [ls EXCEPT ![n] = l]) = TermsOf(h, ls)
<1> DEFINE new == [ls EXCEPT ![n] = l]
<1>1. l # None
  BY DataAssumption DEF Line
<1>2. ASSUME NEW k \in LineNo
      PROVE  ContentOf(new[k]) = ContentOf(ls[k])
  <2>1. CASE k = n
    BY <1>1, <2>1 DEF ContentOf, OnlyLinks
  <2>2. CASE k # n
    BY <2>2
  <2> QED
    BY <2>1, <2>2
<1> QED
  BY <1>2 DEF TermsOf

(* A change of an unlocked order amends its draft.                         *)
LEMMA ChangeAmends ==
    ASSUME TypeOK, NEW o \in Order, Exists(o), ~Locked(o), status' = status,
           NEW h \in Header, NEW ls \in [LineNo -> Line \union {None}],
           header' = [header EXCEPT ![o] = h], lines' = [lines EXCEPT ![o] = ls]
    PROVE  CT!Next
<1>1. Phase[o] = "draft"
  BY DEF Phase, PhaseOf, TypeOK, Status, Exists, Locked, LinesLocked
<1>2. Phase' = Phase
  BY DEF Phase
<1>3. Terms' = [Terms EXCEPT ![o] = TermsOf(h, ls)]
  BY DEF Terms, TypeOK
<1>4. TermsOf(h, ls) \in AllTerms
  BY TermsType
<1>5. CT!Amend(o, TermsOf(h, ls))
  BY <1>1, <1>2, <1>3 DEF CT!Amend, Phase, Terms
<1> QED
  BY <1>4, <1>5 DEF CT!Next, AllTerms

LEMMA NextImplements == TypeOK /\ [Next]_vars => [CT!Next]_(CT!vars)
<1> SUFFICES ASSUME TypeOK, [Next]_vars
             PROVE  CT!Next \/ UNCHANGED CT!vars
  OBVIOUS
<1>0. ASSUME UNCHANGED <<status, header, lines>>
      PROVE  UNCHANGED CT!vars
  BY <1>0 DEF CT!vars
<1>a. \A o \in Order : lines[o] \in [LineNo -> Line \union {None}]
  BY DEF TypeOK
<1>b. \A o \in Order : Exists(o) => header[o] \in Header
  BY DEF TypeOK, Exists
<1>1. ASSUME NEW o \in Order, NEW h \in Header, NEW ls \in [LineNo -> Line \union {None}],
             NEW extra \in SUBSET CheckType, CreateSalesOrder(o, h, ls, extra)
      PROVE  CT!Next
  <2>1. Phase[o] = "none" /\ Phase' = [Phase EXCEPT ![o] = "draft"]
    <3>1. PhaseOf("absent") = "none" /\ PhaseOf("received") = "draft"
      BY DEF PhaseOf
    <3>2. status[o] = "absent" /\ status' = [status EXCEPT ![o] = "received"]
      BY <1>1 DEF CreateSalesOrder
    <3> QED
      BY <3>1, <3>2 DEF Phase, TypeOK
  <2>2. Terms' = [Terms EXCEPT ![o] = TermsOf(h, ls)]
    BY <1>1 DEF CreateSalesOrder, Terms, TypeOK
  <2>3. CT!Open(o, TermsOf(h, ls))
    BY <2>1, <2>2 DEF CT!Open, Phase, Terms
  <2> QED
    BY <2>3, TermsType DEF CT!Next, AllTerms
<1>2. ASSUME NEW o \in Order, NEW h \in Header, UpdateHeader(o, h)
      PROVE  CT!Next
  <2>1. lines' = [lines EXCEPT ![o] = lines[o]]
    BY <1>2 DEF UpdateHeader, TypeOK
  <2> QED
    BY <1>2, <1>a, <2>1, ChangeAmends DEF UpdateHeader
<1>3. ASSUME NEW o \in Order, AssignSn(o)
      PROVE  CT!Next
  <2>1. [header[o] EXCEPT !.sn = TRUE] \in Header
    BY <1>3, <1>b, DataAssumption DEF AssignSn
  <2>2. UpdateHeader(o, [header[o] EXCEPT !.sn = TRUE])
    BY <1>3 DEF AssignSn, UpdateHeader
  <2> QED
    BY <1>2, <2>1, <2>2
<1>4. ASSUME NEW o \in Order, NEW n \in LineNo, NEW l \in Line, InsertLine(o, n, l)
      PROVE  CT!Next
  <2>1. header' = [header EXCEPT ![o] = header[o]]
    BY <1>4 DEF InsertLine, TypeOK
  <2>2. lines' = [lines EXCEPT ![o] = [lines[o] EXCEPT ![n] = l]]
    BY <1>4 DEF InsertLine
  <2>3. [lines[o] EXCEPT ![n] = l] \in [LineNo -> Line \union {None}]
    BY <1>a
  <2> QED
    BY <1>4, <1>b, <2>1, <2>2, <2>3, ChangeAmends DEF InsertLine
<1>5. ASSUME NEW o \in Order, NEW n \in LineNo, NEW l \in Line, UpdateLine(o, n, l)
      PROVE  CT!Next \/ UNCHANGED CT!vars
  <2>1. header' = [header EXCEPT ![o] = header[o]] /\ header' = header /\ status' = status
    BY <1>5 DEF UpdateLine, TypeOK
  <2>2. lines' = [lines EXCEPT ![o] = [lines[o] EXCEPT ![n] = l]]
    BY <1>5 DEF UpdateLine
  <2>3. [lines[o] EXCEPT ![n] = l] \in [LineNo -> Line \union {None}]
    BY <1>a
  <2>4. CASE Locked(o)
    <3>1. TermsOf(header[o], [lines[o] EXCEPT ![n] = l]) = TermsOf(header[o], lines[o])
      BY <1>5, <1>a, <2>4, LinkKeepsTerms DEF UpdateLine
    <3>2. Terms' = Terms
      BY <2>1, <2>2, <3>1 DEF Terms, TypeOK
    <3> QED
      BY <2>1, <3>2 DEF CT!vars, Terms
  <2>5. CASE ~Locked(o)
    BY <1>5, <1>b, <2>1, <2>2, <2>3, <2>5, ChangeAmends DEF UpdateLine
  <2> QED
    BY <2>4, <2>5
<1>6. ASSUME NEW o \in Order, NEW n \in LineNo, NEW c \in Contract, LinkArrRef(o, n, c)
      PROVE  CT!Next \/ UNCHANGED CT!vars
  BY <1>5, <1>6, LinkIsUpdate
<1>7. ASSUME NEW o \in Order, NEW to \in Status, NEW e \in Employee, ChangeStatus(o, to, e)
      PROVE  CT!Next \/ UNCHANGED CT!vars
  <2>1. Terms' = Terms
    BY <1>7 DEF ChangeStatus, Terms
  <2>2. Phase' = [Phase EXCEPT ![o] = PhaseOf(to)] /\ Phase[o] = PhaseOf(status[o])
    BY <1>7 DEF ChangeStatus, Phase, TypeOK
  <2>3. \/ PhaseOf(to) = PhaseOf(status[o])
        \/ PhaseOf(status[o]) = "draft" /\ PhaseOf(to) = "binding"
        \/ PhaseOf(status[o]) = "binding" /\ PhaseOf(to) = "draft"
        \/ PhaseOf(status[o]) \in {"draft", "binding"} /\ PhaseOf(to) = "void"
    BY <1>7 DEF ChangeStatus, Transition, PhaseOf
  <2>4. CASE PhaseOf(to) = PhaseOf(status[o])
    <3>1. Phase' = Phase
      BY <2>2, <2>4 DEF Phase
    <3> QED
      BY <2>1, <3>1 DEF CT!vars, Phase, Terms
  <2>5. CASE PhaseOf(status[o]) = "draft" /\ PhaseOf(to) = "binding"
    <3>1. CT!Bind(o)
      BY <2>1, <2>2, <2>5 DEF CT!Bind, Phase, Terms
    <3> QED
      BY <3>1 DEF CT!Next
  <2>6. CASE PhaseOf(status[o]) = "binding" /\ PhaseOf(to) = "draft"
    <3>1. CT!Release(o)
      BY <2>1, <2>2, <2>6 DEF CT!Release, Phase, Terms
    <3> QED
      BY <3>1 DEF CT!Next
  <2>7. CASE PhaseOf(status[o]) \in {"draft", "binding"} /\ PhaseOf(to) = "void"
    <3>1. CT!Void(o)
      BY <2>1, <2>2, <2>7 DEF CT!Void, Phase, Terms
    <3> QED
      BY <3>1 DEF CT!Next
  <2> QED
    BY <2>3, <2>4, <2>5, <2>6, <2>7
<1>8. ASSUME NEW o \in Order,
             \/ \E t \in CheckType, by \in Employee \union {None} :
                   RaiseCheck(o, t, by) \/ RenameChecker(o, t, by)
             \/ \E t \in CheckType, s \in CheckStatus, e \in Employee : RecordCheck(o, t, s, e)
             \/ BackingChanges(o)
      PROVE  UNCHANGED CT!vars
  BY <1>0, <1>8 DEF RaiseCheck, RenameChecker, RecordCheck, BackingChanges
<1>9. CASE UNCHANGED vars
  BY <1>0, <1>9 DEF vars
<1> QED
  BY <1>1, <1>2, <1>3, <1>4, <1>5, <1>6, <1>7, <1>8, <1>9 DEF Next

(* The order workflow implements the abstract promise about commercial     *)
(* terms: binding terms change only after a release, void ones never.      *)
THEOREM WorkflowImplementsTerms == Spec => ImplementsTerms
<1>1. Init => CT!Init
  BY DEF Init, CT!Init, PhaseOf
<1> QED
  BY <1>1, NextImplements, TypeCorrect, PTL DEF Spec, CT!Spec, ImplementsTerms

=============================================================================

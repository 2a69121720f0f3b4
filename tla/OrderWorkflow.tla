--------------------------- MODULE OrderWorkflow ---------------------------
(***************************************************************************)
(* The life of a sales order as the database enforces it: the status       *)
(* workflow, the approval gate, the lock on commercial content, the checks *)
(* and the ARR ledger that approval and linking post to.                   *)
(*                                                                         *)
(* Every action is one committed transaction on its own: the SQL statement *)
(* with all the triggers it fires.  What happens when two of them overlap  *)
(* is the subject of module ApprovalRace.  A statement the triggers reject *)
(* rolls back and changes nothing, so it is simply not enabled.            *)
(***************************************************************************)
EXTENDS Integers, Sequences, Functions

CONSTANTS
    Order,            \* sales_order rows that may come to exist
    LineNo,           \* line numbers of an order
    Customer,
    Contract,         \* arr_contract rows, master data
    ContractCustomer, \* arr_contract.customer_id
    Header,           \* the commercial header fields an order may have
    Content,          \* the commercial content a line may have
    CheckType,        \* rows of check_type
    AlwaysRaised,     \* the checks every new order gets
    Employee,         \* employees; those who act are identified and active
    MayApprove, MayWaive, MayApproveLoss,  \* employee_permission
    MaxHistory,       \* bound on the status changes of an order
    None              \* SQL NULL, and a row that does not exist

(***************************************************************************)
(* A header is what lock_commercials freezes, abstracted to what the rules *)
(* read: reason is TRUE when margin_exception_reason is given, sn when     *)
(* sn_ref is.  Line content is everything validate_line freezes but the    *)
(* ARR contract: coded is TRUE when the line has its GL codes and service  *)
(* category and is no marked-up tax line, explained when margin_rationale  *)
(* is given, and mrr = 0 stands for no monthly revenue and no monthly cost.*)
(***************************************************************************)
OrderType == {"NEW_ORDER", "VOLUME", "RENEWAL", "CHURN", "LAST_ORDER"}
AllHeaders == [customer : Customer, type : OrderType, reason : BOOLEAN, sn : BOOLEAN]
AllContents == [arr : BOOLEAN, mrr : Nat, margin : Int, explained : BOOLEAN, coded : BOOLEAN]

ASSUME DataAssumption ==
    /\ Header \subseteq AllHeaders
    /\ \A h \in Header : [h EXCEPT !.sn = TRUE] \in Header
    /\ Content \subseteq AllContents
    /\ ContractCustomer \in [Contract -> Customer]
    /\ None \notin Contract
    /\ None \notin [content : Content, contract : Contract \union {None}]

ASSUME CheckAssumption ==
    /\ "margin_approval" \in CheckType
    /\ AlwaysRaised \subseteq CheckType
    /\ MayApprove \subseteq Employee
    /\ MayWaive \subseteq Employee
    /\ MayApproveLoss \subseteq Employee
    /\ None \notin Employee
    /\ None \notin [status : {"pending", "passed", "failed", "waived", "not_applicable"},
                    by : Employee \union {None}]

ASSUME HistoryAssumption == MaxHistory \in Nat

VARIABLES
    status,   \* sales_order.status_code, "absent" before the order is created
    header,   \* the commercial header fields
    lines,    \* sales_order_line, by order and line number
    backing,  \* TRUE while no blocking rule fires on data outside the order's content
    checks,   \* sales_order_check, by order and check type
    history,  \* sales_order_status_history, oldest first
    ledger    \* arr_movement

vars == <<status, header, lines, backing, checks, history, ledger>>

-----------------------------------------------------------------------------
(* Reference data. *)

Status == {"received", "validated", "approved", "provisioning", "invoiced",
           "closed", "on_hold", "cancelled"}

LinesLocked == {"approved", "provisioning", "invoiced", "closed", "cancelled"}

(* Mutant: a held order may go straight back to where approval is open. *)
TransitionHoldToValidated ==
    {<<"received", "validated">>, <<"received", "on_hold">>, <<"validated", "approved">>,
     <<"approved", "on_hold">>, <<"on_hold", "validated">>}

Transition ==
    {<<"received", "validated">>, <<"received", "on_hold">>, <<"received", "cancelled">>,
     <<"validated", "approved">>, <<"validated", "received">>,
     <<"validated", "on_hold">>, <<"validated", "cancelled">>,
     <<"approved", "provisioning">>, <<"approved", "on_hold">>, <<"approved", "cancelled">>,
     <<"provisioning", "invoiced">>, <<"provisioning", "on_hold">>,
     <<"invoiced", "closed">>,
     <<"on_hold", "received">>, <<"on_hold", "cancelled">>}

CheckStatus == {"pending", "passed", "failed", "waived", "not_applicable"}
Resolved == {"passed", "waived", "not_applicable"}

Line == [content : Content, contract : Contract \union {None}]
Check == [status : CheckStatus, by : Employee \union {None}]
Hop == [from : Status \union {None}, to : Status]
Movement == [order : Order, line : LineNo, contract : Contract, mrr : Int]

TypeOK ==
    /\ status \in [Order -> Status \union {"absent"}]
    /\ header \in [Order -> Header \union {None}]
    /\ lines \in [Order -> [LineNo -> Line \union {None}]]
    /\ backing \in [Order -> BOOLEAN]
    /\ checks \in [Order -> [CheckType -> Check \union {None}]]
    /\ history \in [Order -> Seq(Hop)]
    /\ ledger \subseteq Movement
    /\ \A o \in Order : status[o] # "absent" => header[o] \in Header

Init ==
    /\ status = [o \in Order |-> "absent"]
    /\ header = [o \in Order |-> None]
    /\ lines = [o \in Order |-> [n \in LineNo |-> None]]
    /\ backing = [o \in Order |-> FALSE]
    /\ checks = [o \in Order |-> [t \in CheckType |-> None]]
    /\ history = [o \in Order |-> <<>>]
    /\ ledger = {}

-----------------------------------------------------------------------------
(* The blocking exception rules that read only an order's own content. *)

Used(ls) == {n \in LineNo : ls[n] # None}

Margins(ls) == [n \in Used(ls) |-> ls[n].content.margin]
OrderMargin(ls) == SumFunction(Margins(ls))

ContractFits(c, customer) == c # None => ContractCustomer[c] = customer

LineClean(h, l) ==
    /\ l.content.coded                          \* NO_GL_CODE, NO_SERVICE_CATEGORY, TAX_LINE_MARKED_UP
    /\ l.content.margin < 0 => l.content.explained \/ h.reason     \* LOSS_LINE_NO_RATIONALE
    /\ ContractFits(l.contract, h.customer)     \* ARR_CONTRACT_OTHER_CUSTOMER

Clean(h, ls) ==
    /\ Used(ls) # {}                            \* NO_LINES
    /\ h.sn                                     \* SN_NOT_ASSIGNED
    /\ \A n \in Used(ls) : LineClean(h, ls[n])
    /\ OrderMargin(ls) < 0 => h.reason          \* ORDER_LOSS_NO_RATIONALE

NoCheckFailed(cs) == \A t \in CheckType : cs[t] # None => cs[t].status # "failed"

(* Mutant: only failed checks count as unresolved, as the rule catalogue does. *)
AllResolvedButPending(cs) == NoCheckFailed(cs)

AllResolved(cs) == \A t \in CheckType : cs[t] # None => cs[t].status \in Resolved

(* What tg_sales_order_status demands before 'approved'. *)
Gate(o, e) ==
    /\ e \in MayApprove
    /\ Clean(header[o], lines[o])
    /\ backing[o]
    /\ NoCheckFailed(checks[o])
    /\ AllResolved(checks[o])

-----------------------------------------------------------------------------
(* post_arr_movements: one movement for each ARR line with a contract; a   *)
(* line that has one already keeps it.  The table's CHECK is tested before *)
(* the conflict, so a zero movement fails the whole statement either way.  *)

Posts(type) == type # "LAST_ORDER"

(* Mutant: an ARR line is posted before it has its ARR reference. *)
ArrLinesUnlinked(ls) == {n \in Used(ls) : ls[n].content.arr}

ArrLines(ls) == {n \in Used(ls) : ls[n].content.arr /\ ls[n].contract # None}

SignedMrr(type, mrr) == IF type = "CHURN" THEN -mrr ELSE mrr

MovementOf(o, n, l) == [order |-> o, line |-> n, contract |-> l.contract,
                        mrr |-> SignedMrr(header[o].type, l.content.mrr)]

(* Mutant: the conflict is looked for on the contract as well as on the line. *)
PostedOnContract(o, n) ==
    \E m \in ledger : m.order = o /\ m.line = n /\ m.contract = lines[o][n].contract

Posted(o, n) == \E m \in ledger : m.order = o /\ m.line = n

PostingAllowed(o, ls) ==
    Posts(header[o].type) =>
        \A n \in ArrLines(ls) : ls[n].content.mrr # 0 \/ header[o].type = "RENEWAL"

NewMovements(o, ls) ==
    {MovementOf(o, n, ls[n]) :
        n \in {k \in ArrLines(ls) : Posts(header[o].type) /\ ~Posted(o, k)}}

PostArr(o, ls) ==
    /\ PostingAllowed(o, ls)
    /\ ledger' = ledger \union NewMovements(o, ls)

-----------------------------------------------------------------------------
(* create_sales_order: header, lines and checks of one submission in one   *)
(* transaction.  The submitter may ask for further checks (extra); sn says *)
(* whether the submission named an SN or the Register had a unique match.  *)

LossMaking(ls) == \E n \in Used(ls) : ls[n].content.margin < 0

RequiredChecks(ls) ==
    AlwaysRaised \union (IF LossMaking(ls) THEN {"margin_approval"} ELSE {})

PendingCheck == [status |-> "pending", by |-> None]

CreateSalesOrder(o, h, ls, extra) ==
    /\ status[o] = "absent"
    /\ Used(ls) # {}
    /\ \A n \in Used(ls) : ContractFits(ls[n].contract, h.customer)
    /\ status' = [status EXCEPT ![o] = "received"]
    /\ header' = [header EXCEPT ![o] = h]
    /\ lines' = [lines EXCEPT ![o] = ls]
    /\ \E b \in BOOLEAN : backing' = [backing EXCEPT ![o] = b]
    /\ checks' = [checks EXCEPT ![o] =
                    [t \in CheckType |-> IF t \in RequiredChecks(ls) \union extra
                                         THEN PendingCheck ELSE None]]
    /\ history' = [history EXCEPT ![o] = <<[from |-> None, to |-> "received"]>>]
    /\ UNCHANGED ledger

Exists(o) == status[o] # "absent"

(* Mutant: the lock is lifted when the order is cancelled. *)
LockedUntilCancelled(o) == status[o] \in LinesLocked \ {"cancelled"}

Locked(o) == status[o] \in LinesLocked

(* An UPDATE of commercial header fields. *)
UpdateHeader(o, h) ==
    /\ Exists(o)
    /\ ~Locked(o)
    /\ header' = [header EXCEPT ![o] = h]
    /\ UNCHANGED <<status, lines, backing, checks, history, ledger>>

(* assign_sn and assign_pending_sns, when the Register settles the SN. *)
AssignSn(o) ==
    /\ Exists(o)
    /\ ~Locked(o)
    /\ ~header[o].sn
    /\ header' = [header EXCEPT ![o].sn = TRUE]
    /\ UNCHANGED <<status, lines, backing, checks, history, ledger>>

(* An INSERT of a further line. *)
InsertLine(o, n, l) ==
    /\ Exists(o)
    /\ ~Locked(o)
    /\ lines[o][n] = None
    /\ ContractFits(l.contract, header[o].customer)
    /\ lines' = [lines EXCEPT ![o][n] = l]
    /\ UNCHANGED <<status, header, backing, checks, history, ledger>>

(* Mutant: the exemption for linking does not compare the rest of the row. *)
LinksAndEdits(old, new) ==
    /\ old.contract = None
    /\ new.contract # None

(* The one update validate_line lets through on a locked line. *)
OnlyLinks(old, new) ==
    /\ old.contract = None
    /\ new.contract # None
    /\ new.content = old.content

(* Mutant: linking posts whatever the order's status. *)
PostsOnAnyLink(o, old, new) == old.contract = None /\ new.contract # None

(* Mutant: linking posts only while the order is exactly 'approved'. *)
PostsOnApprovedLink(o, old, new) ==
    /\ old.contract = None
    /\ new.contract # None
    /\ status[o] = "approved"

(* tg_line_post_arr_on_link: the order is already processed. *)
PostsOnLink(o, old, new) ==
    /\ old.contract = None
    /\ new.contract # None
    /\ status[o] \in LinesLocked \ {"cancelled"}

(* An UPDATE of a line; linking a contract on a processed order posts its ARR. *)
UpdateLine(o, n, l) ==
    /\ Exists(o)
    /\ lines[o][n] # None
    /\ Locked(o) => OnlyLinks(lines[o][n], l)
    /\ ContractFits(l.contract, header[o].customer)
    /\ lines' = [lines EXCEPT ![o][n] = l]
    /\ \/ /\ PostsOnLink(o, lines[o][n], l)
          /\ PostArr(o, lines'[o])
       \/ /\ ~PostsOnLink(o, lines[o][n], l)
          /\ UNCHANGED ledger
    /\ UNCHANGED <<status, header, backing, checks, history>>

(* link_arr_ref: the service refuses a line that is not ARR or is linked.  *)
LinkArrRef(o, n, c) ==
    /\ Exists(o)
    /\ lines[o][n] # None
    /\ lines[o][n].content.arr
    /\ lines[o][n].contract = None
    /\ UpdateLine(o, n, [lines[o][n] EXCEPT !.contract = c])

(* A check added to an existing order.  It can only start pending; whom it *)
(* names, anybody or nobody, is not examined.                              *)
RaiseCheck(o, t, by) ==
    /\ Exists(o)
    /\ checks[o][t] = None
    /\ checks' = [checks EXCEPT ![o][t] = [PendingCheck EXCEPT !.by = by]]
    /\ UNCHANGED <<status, header, lines, backing, history, ledger>>

(* An UPDATE that leaves the outcome as it is passes the trigger at once:  *)
(* it may put any name on the check, but for the table's CHECK, which      *)
(* wants one on a decided check.                                           *)
RenameChecker(o, t, by) ==
    /\ Exists(o)
    /\ checks[o][t] # None
    /\ checks[o][t].status # "pending" => by # None
    /\ checks' = [checks EXCEPT ![o][t].by = by]
    /\ UNCHANGED <<status, header, lines, backing, history, ledger>>

Authorised(e, t, s) ==
    /\ e \in Employee
    /\ s = "waived" => e \in MayWaive
    /\ t = "margin_approval" /\ s \in {"passed", "waived"} => e \in MayApproveLoss

(* record_check: a changed outcome is recorded against the acting employee. *)
RecordCheck(o, t, s, e) ==
    /\ Exists(o)
    /\ checks[o][t] # None
    /\ checks[o][t].status # s
    /\ \/ /\ s = "pending"
          /\ checks' = [checks EXCEPT ![o][t] = PendingCheck]
       \/ /\ s # "pending"
          /\ Authorised(e, t, s)
          /\ checks' = [checks EXCEPT ![o][t] = [status |-> s, by |-> e]]
    /\ UNCHANGED <<status, header, lines, backing, history, ledger>>

(* Mutant: the history row is written from the new row alone. *)
HopFromItself(o, to) == [from |-> to, to |-> to]

(* tg_sales_order_history: one row for each change of status. *)
HopTo(o, to) == [from |-> status[o], to |-> to]

(* change_status, with the AFTER triggers of the same statement.  Approval *)
(* also passes the account to the order's salesperson, which nothing here  *)
(* reads: Ownership!TakeAccountForOrder.                                   *)
ChangeStatus(o, to, e) ==
    /\ <<status[o], to>> \in Transition
    /\ Len(history[o]) < MaxHistory
    /\ to = "approved" => Gate(o, e)
    /\ status' = [status EXCEPT ![o] = to]
    /\ history' = [history EXCEPT ![o] = Append(@, HopTo(o, to))]
    /\ IF to = "approved" THEN PostArr(o, lines[o]) ELSE UNCHANGED ledger
    /\ UNCHANGED <<header, lines, backing, checks>>

(* Credit terms, the supplier's account, the signed document or the totals *)
(* the email stated change; no lock covers any of them.                    *)
BackingChanges(o) ==
    /\ Exists(o)
    /\ backing' = [backing EXCEPT ![o] = ~@]
    /\ UNCHANGED <<status, header, lines, checks, history, ledger>>

Next ==
    \E o \in Order :
        \/ \E h \in Header, ls \in [LineNo -> Line \union {None}], extra \in SUBSET CheckType :
              CreateSalesOrder(o, h, ls, extra)
        \/ \E h \in Header : UpdateHeader(o, h)
        \/ AssignSn(o)
        \/ \E n \in LineNo, l \in Line : InsertLine(o, n, l) \/ UpdateLine(o, n, l)
        \/ \E n \in LineNo, c \in Contract : LinkArrRef(o, n, c)
        \/ \E t \in CheckType, by \in Employee \union {None} :
              RaiseCheck(o, t, by) \/ RenameChecker(o, t, by)
        \/ \E t \in CheckType, s \in CheckStatus, e \in Employee : RecordCheck(o, t, s, e)
        \/ \E to \in Status, e \in Employee : ChangeStatus(o, to, e)
        \/ BackingChanges(o)

Spec == Init /\ [][Next]_vars

-----------------------------------------------------------------------------
(* Safety. *)

Processed(o) == status[o] \in {"approved", "provisioning", "invoiced", "closed"}

(* An order that was approved stays free of every blocking exception its   *)
(* own content decides, through provisioning, invoicing and closing and    *)
(* through ARR linking: the gate, the lock on header and lines and the     *)
(* customer check on a late link together leave no way round.              *)
ProcessedOrderClean == \A o \in Order : Processed(o) => Clean(header[o], lines[o])

(* The status history of an order is one unbroken walk through the         *)
(* permitted transitions, from its creation to the status it has now.      *)
HistoryChained ==
    \A o \in Order :
        LET h == history[o] IN
        /\ Exists(o) => /\ Len(h) > 0
                        /\ h[1] = [from |-> None, to |-> "received"]
                        /\ h[Len(h)].to = status[o]
        /\ \A i \in 2..Len(h) : /\ h[i].from = h[i - 1].to
                                /\ <<h[i].from, h[i].to>> \in Transition

(* A held order is received and validated again before it is approved      *)
(* ("on_hold always returns to 'received' so a held order is re-validated  *)
(* before approval"), however often it is held.                            *)
HeldOrdersRevalidated ==
    \A o \in Order : \A i, j \in 1..Len(history[o]) :
        /\ i < j
        /\ history[o][i].to = "on_hold"
        /\ history[o][j].to = "approved"
        => \E k, m \in i..j : /\ k < m
                              /\ history[o][k].to = "received"
                              /\ history[o][m].to = "validated"

(* Whatever was done to an order's checks before, at the moment it becomes *)
(* approved each of them is decided and names an employee.                 *)
ApprovalDecided ==
    [][\A o \in Order : status[o] # "approved" /\ status'[o] = "approved" =>
          \A t \in CheckType : checks[o][t] # None =>
              checks[o][t].status \in Resolved /\ checks[o][t].by \in Employee]_vars

(* However often an order is held, re-approved and linked, a line is       *)
(* booked into ARR at most once.                                           *)
LedgerOneMovementPerLine ==
    \A m1, m2 \in ledger : m1.order = m2.order /\ m1.line = m2.line => m1 = m2

(* Nothing is booked for an order that has never been approved.            *)
LedgerOnlyApproved ==
    \A m \in ledger : \E i \in 1..Len(history[m.order]) : history[m.order][i].to = "approved"

(* Every recurring line of a processed order that has its ARR reference is *)
(* in the ledger, whether the reference came before approval or after it:  *)
(* v_arr_ref_outstanding, which lists the lines without a reference, is    *)
(* then all the MRR that is missing.                                       *)
ProcessedArrAccounted ==
    \A o \in Order : Processed(o) /\ Posts(header[o].type) =>
        \A n \in ArrLines(lines[o]) : Posted(o, n)

(* The README's claim that ARR is exact: what is booked for a line of a    *)
(* processed order is what the line says.  It does not hold of the code.   *)
ArrLedgerExact ==
    \A o \in Order : Processed(o) /\ Posts(header[o].type) =>
        \A n \in ArrLines(lines[o]) : MovementOf(o, n, lines[o][n]) \in ledger

(* checks.py: "any sale below cost needs CFO approval".  It does not hold  *)
(* of the code, which raises the check only when the order is created.     *)
LossesApproved ==
    \A o \in Order : Processed(o) /\ LossMaking(lines[o]) =>
        checks[o]["margin_approval"] # None

(* 0003: "every outcome is recorded against the acting employee (nobody    *)
(* can record a check in someone else's name); waivers and loss approvals  *)
(* are privileged", so that a privileged outcome is in the name of         *)
(* somebody entitled to it.  It does not hold of the code, which lets an   *)
(* UPDATE rename the checker when the outcome stays.                       *)
CheckOutcomeOwned ==
    \A o \in Order, t \in CheckType :
        LET c == checks[o][t] IN
        c # None =>
            /\ c.status = "waived" => c.by \in MayWaive
            /\ t = "margin_approval" /\ c.status \in {"passed", "waived"}
                  => c.by \in MayApproveLoss

-----------------------------------------------------------------------------
(* Refinement: the workflow implements CommercialTerms. *)

PhaseOf(s) ==
    CASE s = "absent" -> "none"
      [] s \in {"received", "validated", "on_hold"} -> "draft"
      [] s \in {"approved", "provisioning", "invoiced", "closed"} -> "binding"
      [] s = "cancelled" -> "void"

ContentOf(l) == IF l = None THEN None ELSE l.content

TermsOf(h, ls) == [header |-> h, contents |-> [n \in LineNo |-> ContentOf(ls[n])]]

CT == INSTANCE CommercialTerms WITH
        Terms <- [header : Header, contents : [LineNo -> Content \union {None}]],
        NoTerms <- TermsOf(None, [n \in LineNo |-> None]),
        phase <- [o \in Order |-> PhaseOf(status[o])],
        terms <- [o \in Order |-> TermsOf(header[o], lines[o])]

(* From approval on, the commercial header and the content of the lines    *)
(* change only after the order has been put on hold, and never once it is  *)
(* cancelled.                                                              *)
ImplementsTerms == CT!Spec

=============================================================================

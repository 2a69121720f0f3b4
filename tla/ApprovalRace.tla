---------------------------- MODULE ApprovalRace ----------------------------
(***************************************************************************)
(* Transactions on one order that overlap.  Module OrderWorkflow takes     *)
(* every command as one step; here a command runs as the database runs it  *)
(* at READ COMMITTED: each statement of its triggers sees what is          *)
(* committed when the statement starts and what its own transaction wrote, *)
(* writers of the same row wait for each other, and nothing is visible to  *)
(* others before the commit.  Every command is one transaction             *)
(* (db.unit_of_work) and may fail or lose its connection at any step.      *)
(*                                                                         *)
(* Every line here is an ARR line of an order type that posts.             *)
(***************************************************************************)
EXTENDS Integers, Sequences

CONSTANTS
    Session,     \* connections that run commands
    LineNo,      \* lines of the order
    MaxHistory,  \* bound on the statuses an order goes through
    None

ASSUME RaceAssumption ==
    /\ None \notin Session
    /\ MaxHistory \in Nat

VARIABLES
    status,     \* committed sales_order.status_code
    reasoned,   \* committed header: TRUE when no blocking rule fires on it
    sound,      \* committed lines: TRUE when no blocking rule fires on the line
    linked,     \* committed lines: TRUE when arr_contract_id is set
    outcome,    \* committed outcome of the order's check
    booked,     \* number of committed arr_movement rows of each line
    history,    \* committed statuses, oldest first
    holder,     \* who holds the row lock of the order, the check and each line
    tx          \* what each session is doing

committed == <<status, reasoned, sound, linked, outcome, booked, history>>
vars == <<status, reasoned, sound, linked, outcome, booked, history, holder, tx>>

Status == {"received", "validated", "approved", "provisioning", "invoiced",
           "closed", "on_hold", "cancelled"}
Locked == {"approved", "provisioning", "invoiced", "closed", "cancelled"}
Processed == Locked \ {"cancelled"}

Transition ==
    {<<"received", "validated">>, <<"received", "on_hold">>, <<"received", "cancelled">>,
     <<"validated", "approved">>, <<"validated", "received">>,
     <<"validated", "on_hold">>, <<"validated", "cancelled">>,
     <<"approved", "provisioning">>, <<"approved", "on_hold">>, <<"approved", "cancelled">>,
     <<"provisioning", "invoiced">>, <<"provisioning", "on_hold">>,
     <<"invoiced", "closed">>,
     <<"on_hold", "received">>, <<"on_hold", "cancelled">>}

Outcome == {"pending", "passed", "failed"}
Row == {"order", "check"} \union LineNo

(* A session runs at most one command: what it writes to which row, the    *)
(* statement it executes next, and the lines whose ARR it has inserted.    *)
Command == {"none", "status", "header", "edit", "link", "check"}
Place == {"idle", "posting", "exceptions", "checks", "linking", "ready"}

Idle == [command |-> "none", row |-> None, value |-> None, at |-> "idle", posts |-> {}]

TypeOK ==
    /\ status \in Status
    /\ reasoned \in BOOLEAN
    /\ sound \in [LineNo -> BOOLEAN]
    /\ linked \in [LineNo -> BOOLEAN]
    /\ outcome \in Outcome
    /\ booked \in [LineNo -> Nat]
    /\ history \in Seq(Status)
    /\ holder \in [Row -> Session \union {None}]
    /\ \A s \in Session : /\ tx[s].command \in Command
                          /\ tx[s].at \in Place
                          /\ tx[s].row \in Row \union {None}
                          /\ tx[s].posts \subseteq LineNo

(* An order just received, complete but for its check and its ARR links.   *)
Init ==
    /\ status = "received"
    /\ reasoned = TRUE
    /\ sound = [n \in LineNo |-> TRUE]
    /\ linked = [n \in LineNo |-> FALSE]
    /\ outcome = "pending"
    /\ booked = [n \in LineNo |-> 0]
    /\ history = <<"received">>
    /\ holder = [r \in Row |-> None]
    /\ tx = [s \in Session |-> Idle]

-----------------------------------------------------------------------------
(* The UPDATE that starts a command takes the lock of the row it writes,   *)
(* waiting for whoever holds it; the BEFORE triggers then see the row as   *)
(* last committed.                                                         *)

(* Mutant: commands do not wait for one another. *)
NeverWaits(r) == TRUE

RowFree(r) == holder[r] = None

Starts(s, command, row, value, at) ==
    /\ tx[s] = Idle
    /\ RowFree(row)
    /\ holder' = [holder EXCEPT ![row] = s]
    /\ tx' = [tx EXCEPT ![s] = [command |-> command, row |-> row, value |-> value,
                                at |-> at, posts |-> {}]]
    /\ UNCHANGED committed

(* change_status: an approval goes through its AFTER triggers in the order *)
(* of their names, post_arr_on_approval before status_workflow.  The last, *)
(* take_account_on_approval, writes no row of this module.                 *)
StartStatus(s, to) ==
    /\ <<status, to>> \in Transition
    /\ Len(history) < MaxHistory
    /\ Starts(s, "status", "order", to, IF to = "approved" THEN "posting" ELSE "ready")

(* Mutant: lock_commercials is lost. *)
StartHeaderAnyStatus(s, v) == Starts(s, "header", "order", v, "ready")

(* An UPDATE of the commercial header, with lock_commercials. *)
StartHeader(s, v) ==
    /\ status \notin Locked
    /\ Starts(s, "header", "order", v, "ready")

(* An UPDATE of a line's content, with validate_line. *)
StartEdit(s, n, v) ==
    /\ status \notin Locked
    /\ Starts(s, "edit", n, v, "ready")

(* link_arr_ref: validate_line lets it through in every status. *)
StartLink(s, n) ==
    /\ ~linked[n]
    /\ Starts(s, "link", n, TRUE, "linking")

(* record_check *)
StartCheck(s, v) ==
    /\ v # outcome
    /\ Starts(s, "check", "check", v, "ready")

-----------------------------------------------------------------------------
(* post_arr_movements, run inside a session: it books the linked lines the *)
(* session sees that have no movement yet.  The unique constraint makes it *)
(* wait while another session holds an uncommitted movement of such a line.*)

SeesLinked(s) ==
    {n \in LineNo : linked[n] \/ (tx[s].command = "link" /\ tx[s].row = n)}

(* Mutant: a look at the table replaces the unique constraint. *)
InsertableAsSeen(s, n) == booked[n] = 0

(* ON CONFLICT (sales_order_line_id) DO NOTHING *)
Insertable(s, n) ==
    /\ booked[n] = 0
    /\ \A r \in Session \ {s} : n \notin tx[r].posts

PostArr(s, next) ==
    LET new == {n \in SeesLinked(s) : booked[n] = 0} IN
    /\ \A n \in new : Insertable(s, n)
    /\ tx' = [tx EXCEPT ![s].posts = new, ![s].at = next]

PostOnApproval(s) ==
    /\ tx[s].at = "posting"
    /\ PostArr(s, "exceptions")
    /\ UNCHANGED <<committed, holder>>

(* Mutant: the gate looks at the lines and the check, not at the header. *)
NoLineExceptions == (\A n \in LineNo : sound[n]) /\ outcome # "failed"

NoExceptions == reasoned /\ (\A n \in LineNo : sound[n]) /\ outcome # "failed"

(* The gate is two statements: blocking exceptions, then unresolved checks.*)
GateExceptions(s) ==
    /\ tx[s].at = "exceptions"
    /\ NoExceptions
    /\ tx' = [tx EXCEPT ![s].at = "checks"]
    /\ UNCHANGED <<committed, holder>>

GateChecks(s) ==
    /\ tx[s].at = "checks"
    /\ outcome = "passed"
    /\ tx' = [tx EXCEPT ![s].at = "ready"]
    /\ UNCHANGED <<committed, holder>>

(* Mutant: a link posts ARR whatever the status of the order. *)
PostsInAnyStatus == TRUE

PostsOnLink == status \in Processed

(* tg_line_post_arr_on_link, after the line is written. *)
FinishLink(s) ==
    /\ tx[s].at = "linking"
    /\ \/ PostsOnLink /\ PostArr(s, "ready")
       \/ ~PostsOnLink /\ tx' = [tx EXCEPT ![s].at = "ready"]
    /\ UNCHANGED <<committed, holder>>

-----------------------------------------------------------------------------
(* The end of a transaction. *)

Ends(s) ==
    /\ holder' = [holder EXCEPT ![tx[s].row] = None]
    /\ tx' = [tx EXCEPT ![s] = Idle]

(* Mutant: a status change writes the check, too. *)
WrittenByStatus(s, command, old) ==
    IF tx[s].command \in {command, "status"} /\ command \in {"status", "check"}
    THEN tx[s].value ELSE old

Written(s, command, old) == IF tx[s].command = command THEN tx[s].value ELSE old

WrittenTo(s, command, old) ==
    [n \in LineNo |-> IF tx[s].row = n THEN Written(s, command, old[n]) ELSE old[n]]

Commit(s) ==
    /\ tx[s].at = "ready"
    /\ status' = Written(s, "status", status)
    /\ history' = IF tx[s].command = "status" THEN Append(history, tx[s].value) ELSE history
    /\ reasoned' = Written(s, "header", reasoned)
    /\ outcome' = Written(s, "check", outcome)
    /\ sound' = WrittenTo(s, "edit", sound)
    /\ linked' = WrittenTo(s, "link", linked)
    /\ booked' = [n \in LineNo |-> IF n \in tx[s].posts THEN booked[n] + 1 ELSE booked[n]]
    /\ Ends(s)

(* A gate that finds something, a statement that fails, a lost connection. *)
Rollback(s) ==
    /\ tx[s] # Idle
    /\ Ends(s)
    /\ UNCHANGED committed

Next ==
    \E s \in Session :
        \/ \E to \in Status : StartStatus(s, to)
        \/ \E v \in BOOLEAN : StartHeader(s, v)
        \/ \E n \in LineNo, v \in BOOLEAN : StartEdit(s, n, v)
        \/ \E n \in LineNo : StartLink(s, n)
        \/ \E v \in Outcome : StartCheck(s, v)
        \/ PostOnApproval(s)
        \/ GateExceptions(s)
        \/ GateChecks(s)
        \/ FinishLink(s)
        \/ Commit(s)
        \/ Rollback(s)

Spec == Init /\ [][Next]_vars

-----------------------------------------------------------------------------
(* What the row lock and the unique constraint save. *)

(* However status changes overlap, each starts from the status the last    *)
(* one committed: the history is one walk through the transitions.         *)
HistoryIsAWalk ==
    /\ history[Len(history)] = status
    /\ \A i \in 2..Len(history) : <<history[i - 1], history[i]>> \in Transition

(* The commercial header really is frozen from approval on: its writers    *)
(* and the approval contend for the same row.                              *)
HeaderFrozen == [][reasoned' # reasoned => status \notin Locked]_vars

(* The gate's verdict on the header is good as long as the order is        *)
(* processed, although it was reached before the approval was visible.     *)
ProcessedHeaderSound == status \in Processed => reasoned

(* Approvals and links that overlap never book a line twice.               *)
BookedOnce == \A n \in LineNo : booked[n] <= 1

(* A link that overlaps a status change never books an order that was      *)
(* never approved.                                                         *)
BookedOnlyApproved ==
    (\E n \in LineNo : booked[n] > 0) => \E i \in 1..Len(history) : history[i] = "approved"

-----------------------------------------------------------------------------
(* What they do not save: a line is another row than its order. *)

(* docs/data-model.md: "From `approved` onwards, lines and commercial      *)
(* header fields are locked by the database".  An edit that read the       *)
(* status before the approval committed can commit after it.               *)
LinesFrozen == [][sound' # sound => status \notin Processed]_vars

(* migrations/sql/0004: "on approval, each ARR-bearing line creates one    *)
(* movement on its contract".  A link and an approval that miss each other *)
(* leave a processed line with its contract and no movement, and the       *)
(* outstanding report, which lists lines without a contract, is silent.    *)
LinkedLinesBooked ==
    status \in Processed => \A n \in LineNo : linked[n] => booked[n] > 0

=============================================================================

------------------------------- MODULE Intake -------------------------------
(***************************************************************************)
(* How orders, their shared attachments and their SNs get into the         *)
(* database: load-order, load-register and assign-sn, run by several       *)
(* people at once.  Every command is one transaction (db.unit_of_work) at  *)
(* READ COMMITTED: a statement sees what is committed when it starts and   *)
(* what its own transaction wrote; an insert waits for whoever is about to *)
(* insert or delete the same key, and an update for whoever wrote the row. *)
(***************************************************************************)
EXTENDS Register, Relation

CONSTANTS
    Session,   \* connections that run commands
    Mail,      \* submission files
    Content,   \* the submission in each file
    Export,    \* Register exports
    Sheet,     \* the header and the lines of each export
    Known,     \* the master data there is, as <<kind, key>>
    CspSkus, CannotOrder, DirectDebitDays,  \* master data that submissions are checked against
    MaxOrders,   \* bound on the orders that come to exist
    MaxCommands  \* bound on the commands that are started

INSTANCE Submission

OrderId == 1 .. MaxOrders

SubmissionKey(m) == <<Content[m].message, Content[m].sequence>>

RowsOf == [e \in Export |-> ParseRegister(Sheet[e].lines).rows]

(* The lines of an export come one after the other.                        *)
ASSUME SheetAssumption == \A e \in Export : Sheet[e].lines \in Seq(Range(Sheet[e].lines))

ASSUME BoundAssumption == MaxOrders \in Nat /\ MaxCommands \in Nat

VARIABLES
    mirror,  \* register_entry
    orders,  \* sales_order, by id
    shared,  \* keys in source_email, document and supplier_quote
    tx,      \* what each session is doing and has written
    loaded,  \* the export of the last sync that committed
    beside,  \* the rows that other syncs committed after its DELETE had started
    listed,  \* every row the mirror has ever held
    started  \* the number of commands started

committed == <<mirror, orders, shared, loaded, beside, listed>>
vars == <<mirror, orders, shared, tx, loaded, beside, listed, started>>

Status == {"open", "approved", "cancelled"}  \* open: the commercial content is not locked

Entries == UNION {RowsOf[e] : e \in Export}
Sns == SnsOf(Entries)

Row == [mail : Mail, sn : Sns \union {None}, status : Status,
        checks : {RequiredChecks(Content[m]) : m \in Mail}]

(* A file is read as a submission or as an export, and None is neither a   *)
(* file nor an order.                                                      *)
ASSUME FileAssumption == Mail \intersect Export = {} /\ None \notin Mail \union Export \union Row

(* What a session does next (at), the file it works on, the orders it has  *)
(* still to match, the best score and the SN found for the first of them,  *)
(* the attachments still to insert; then what it has read or written: the  *)
(* mirror when its DELETE started, the rows deleted and inserted, the rows *)
(* that others have committed since (late), the keys inserted and the      *)
(* orders locked or written.                                               *)
Idle == [at |-> "idle", work |-> None, queue |-> {}, best |-> 0, sn |-> None, todo |-> <<>>,
         snap |-> {}, gone |-> {}, put |-> {}, late |-> {}, held |-> {},
         wrote |-> [o \in OrderId |-> None]]

Place == {"idle", "snapshot", "delete", "rows", "list", "score", "pick", "lock", "triggers",
          "index", "email", "look", "attach", "order", "insert", "commit"}

TypeOK ==
    /\ mirror \subseteq Entries
    /\ orders \in [OrderId -> Row \union {None}]
    /\ loaded \in Export \union {None}
    /\ beside \subseteq listed
    /\ started \in 0 .. MaxCommands
    /\ mirror \subseteq listed
    /\ \A s \in Session : /\ tx[s].at \in Place
                          /\ tx[s].queue \subseteq OrderId
                          /\ tx[s].sn \in Sns \union {None}
                          /\ tx[s].snap \union tx[s].gone \subseteq mirror
                          /\ tx[s].held \intersect shared = {}

Init ==
    /\ mirror = {}
    /\ orders = [o \in OrderId |-> None]
    /\ shared = {}
    /\ tx = [s \in Session |-> Idle]
    /\ loaded = None
    /\ beside = {}
    /\ listed = {}
    /\ started = 0

-----------------------------------------------------------------------------
(* What a session sees. *)

RegisterSeen(s) == (mirror \ tx[s].gone) \union tx[s].put

OrderSeen(s, o) == IF tx[s].wrote[o] # None THEN tx[s].wrote[o] ELSE orders[o]

OrdersSeen(s) == {o \in OrderId : OrderSeen(s, o) # None}

SharedSeen(s) == shared \union tx[s].held

SnsUsed(s) == {OrderSeen(s, o).sn : o \in OrdersSeen(s)} \ {None}

-----------------------------------------------------------------------------
(* Who waits for whom. *)

Current(s) == Min(tx[s].queue)

(* The SNs a session is about to give or take away. *)
Claims(t) ==
    UNION {LET before == IF orders[o] = None THEN None ELSE orders[o].sn
               after == tx[t].wrote[o].sn
           IN IF before = after THEN {} ELSE {before, after} \ {None} :
           o \in {x \in OrderId : tx[t].wrote[x] # None}}

(* The submissions whose order a session has inserted. *)
Placing(t) == {SubmissionKey(tx[t].wrote[o].mail) :
                  o \in {x \in OrderId : tx[t].wrote[x] # None /\ orders[x] = None}}

EmailKey(m) == <<"email", Content[m].message>>

Holds(t, s) ==
    CASE tx[s].at = "delete" -> tx[t].gone \intersect tx[s].snap # {}
      [] tx[s].at = "rows"   -> SnsOf(tx[t].put \union tx[t].gone)
                                   \intersect SnsOf(RowsOf[tx[s].work]) # {}
      [] tx[s].at = "lock"   -> tx[t].wrote[Current(s)] # None
      [] tx[s].at = "index"  -> tx[s].sn \in Claims(t)
      [] tx[s].at = "email"  -> EmailKey(tx[s].work) \in tx[t].held
      [] tx[s].at = "attach" -> Head(tx[s].todo).key \in tx[t].held
      [] tx[s].at = "insert" -> \/ SubmissionKey(tx[s].work) \in Placing(t)
                                \/ Content[tx[s].work].sn \in Claims(t)
      [] OTHER               -> FALSE

(* Mutant: nobody waits, so that a key another session has inserted and    *)
(* not committed counts as free.                                           *)
WaitsForNobody(s) == {}

Blockers(s) == {t \in Session \ {s} : Holds(t, s)}

At(s, place) == tx[s].at = place /\ Blockers(s) = {}

Becomes(s, state) ==
    /\ tx' = [tx EXCEPT ![s] = state]
    /\ UNCHANGED <<committed, started>>

Starts(s, state) ==
    /\ tx[s] = Idle
    /\ started < MaxCommands
    /\ started' = started + 1
    /\ tx' = [tx EXCEPT ![s] = state]
    /\ UNCHANGED committed

(* Mutant: a command that fails leaves its transaction open. *)
FailedKeepsLocks(s) == [tx[s] EXCEPT !.at = "idle"]

(* Every error rolls the transaction back: nothing of it was ever visible. *)
Discarded(s) == Idle

Fail(s) == Becomes(s, Discarded(s))

-----------------------------------------------------------------------------
(* A command starts.  Files are read and validated before that: an export  *)
(* with another layout and a submission the models refuse end there.       *)

StartSync(s, e) ==
    /\ LayoutKnown(Sheet[e].header)
    /\ Starts(s, [Idle EXCEPT !.at = "snapshot", !.work = e])

StartSubmit(s, m) ==
    /\ ValidSubmission(Content[m])
    /\ Starts(s, [Idle EXCEPT !.at = "email", !.work = m])

(* assign-sn, without an SN and with one that a person has chosen. *)
StartMatch(s, o) ==
    /\ orders[o] # None
    /\ Starts(s, [Idle EXCEPT !.at = "score", !.queue = {o}])

StartChoose(s, o, sn) ==
    /\ orders[o] # None
    /\ Starts(s, [Idle EXCEPT !.at = "lock", !.queue = {o}, !.sn = sn])

-----------------------------------------------------------------------------
(* load_register: DELETE, then INSERT of every row.  The DELETE removes    *)
(* the rows that were there when it started, once whoever is deleting one  *)
(* of them has ended, and not what others have inserted meanwhile; the     *)
(* INSERT fails on an SN that is still there.                              *)

Snapshot(s) ==
    /\ At(s, "snapshot")
    /\ Becomes(s, [tx[s] EXCEPT !.at = "delete", !.snap = mirror])

(* Mutant: only the rows go that the export has anew. *)
DeleteNamed(s) ==
    LET named == {r \in tx[s].snap : r.sn \in SnsOf(RowsOf[tx[s].work])} IN
    /\ At(s, "delete")
    /\ Becomes(s, [tx[s] EXCEPT !.at = "rows", !.gone = @ \union named, !.snap = {}])

DeleteMirror(s) ==
    /\ At(s, "delete")
    /\ Becomes(s, [tx[s] EXCEPT !.at = "rows", !.gone = @ \union tx[s].snap, !.snap = {}])

InsertRows(s) ==
    /\ At(s, "rows")
    /\ IF SnsOf(RegisterSeen(s)) \intersect SnsOf(RowsOf[tx[s].work]) = {}
       THEN Becomes(s, [tx[s] EXCEPT !.at = "list", !.put = RowsOf[tx[s].work]])
       ELSE Fail(s)

(* assign_pending_sns: the orders still waiting for an SN, oldest first.   *)
Pending(s) == {o \in OrdersSeen(s) :
                  OrderSeen(s, o).sn = None /\ OrderSeen(s, o).status # "cancelled"}

ListPending(s) ==
    /\ At(s, "list")
    /\ Becomes(s, [tx[s] EXCEPT !.at = IF Pending(s) = {} THEN "commit" ELSE "score",
                                !.queue = Pending(s)])

-----------------------------------------------------------------------------
(* assign_sn_from_register, for the first order of the queue: it looks for *)
(* the best score, then whether exactly one row has it, then updates.      *)

MatchKey(o, s) ==
    LET sub == Content[OrderSeen(s, o).mail] IN
    [customer |-> sub.customer, title |-> sub.title, netSell |-> NetSell(sub),
     day |-> IF sub.signed # None THEN sub.signed ELSE sub.received]

CandidatesOf(s) ==
    IF OrderSeen(s, Current(s)).sn # None THEN {}
    ELSE Candidates(MatchKey(Current(s), s), RegisterSeen(s), SnsUsed(s))

ScoreOf(s, r) == Score(MatchKey(Current(s), s), r)

(* On to the next order, or to the end. *)
Advanced(s, state) ==
    LET rest == tx[s].queue \ {Current(s)} IN
    [state EXCEPT !.at = IF rest = {} THEN "commit" ELSE "score",
                  !.queue = rest, !.best = 0, !.sn = None]

FindBest(s) ==
    /\ At(s, "score")
    /\ IF CandidatesOf(s) = {}
       THEN Becomes(s, Advanced(s, tx[s]))
       ELSE Becomes(s, [tx[s] EXCEPT !.at = "pick",
                                     !.best = Max({ScoreOf(s, r) : r \in CandidatesOf(s)})])

PickSn(s) ==
    /\ At(s, "pick")
    /\ LET found == {r \in CandidatesOf(s) : ScoreOf(s, r) = tx[s].best} IN
       IF Cardinality(found) = 1
       THEN Becomes(s, [tx[s] EXCEPT !.at = "lock", !.sn = (CHOOSE r \in found : TRUE).sn])
       ELSE Becomes(s, Advanced(s, tx[s]))

-----------------------------------------------------------------------------
(* UPDATE sales_order SET sn_ref: the row is locked and read again as last *)
(* committed, the triggers run, then the unique index gets the SN.         *)

LockOrder(s) ==
    /\ At(s, "lock")
    /\ Becomes(s, [tx[s] EXCEPT !.at = "triggers",
                                !.wrote[Current(s)] = OrderSeen(s, Current(s))])

(* Mutant: a person may name any SN. *)
OnRegisterUnchecked(s, sn, customer) == TRUE

(* tg_sn_must_be_on_register *)
OnRegister(s, sn, customer) ==
    \E r \in RegisterSeen(s) : r.sn = sn /\ SameCustomer(r, customer)

(* Mutant: lock_commercials is lost. *)
NeverLocked(row) == FALSE

ContentLocked(row) == row.status # "open"

(* lock_commercials comes first; an SN the order has already needs nothing.*)
RunTriggers(s) ==
    /\ At(s, "triggers")
    /\ LET row == tx[s].wrote[Current(s)] IN
       IF \/ row.sn = tx[s].sn
          \/ ~ContentLocked(row) /\ OnRegister(s, tx[s].sn, Content[row.mail].customer)
       THEN Becomes(s, [tx[s] EXCEPT !.at = "index"])
       ELSE Fail(s)

SnFree(s, o, sn) == \A x \in OrdersSeen(s) \ {o} : OrderSeen(s, x).sn # sn

WriteSn(s) ==
    /\ At(s, "index")
    /\ IF SnFree(s, Current(s), tx[s].sn)
       THEN Becomes(s, Advanced(s, [tx[s] EXCEPT !.wrote[Current(s)].sn = tx[s].sn]))
       ELSE Fail(s)

-----------------------------------------------------------------------------
(* create_sales_order. *)

(* Mutant: an insert does not ask whether the key is there. *)
Doubled(s, key) == tx[s].held \union {key}

(* ON CONFLICT DO NOTHING: inserted unless it is there. *)
Ensured(s, key) == tx[s].held \union ({key} \ shared)

UpsertEmail(s) ==
    /\ At(s, "email")
    /\ Becomes(s, [tx[s] EXCEPT !.at = "look", !.held = Ensured(s, EmailKey(tx[s].work))])

(* Mutant: an email counts as loaded when any order came from it. *)
LoadedFromEmail(s) ==
    \E o \in OrdersSeen(s) : Content[OrderSeen(s, o).mail].message = Content[tx[s].work].message

AlreadyLoaded(s) ==
    \E o \in OrdersSeen(s) : SubmissionKey(OrderSeen(s, o).mail) = SubmissionKey(tx[s].work)

LookForOrder(s) ==
    /\ At(s, "look")
    /\ LET todo == Attachments(Content[tx[s].work]) IN
       IF AlreadyLoaded(s) THEN Becomes(s, [tx[s] EXCEPT !.at = "commit"])
       ELSE IF ~(HeaderReferences(Content[tx[s].work]) \subseteq Known) THEN Fail(s)
       ELSE Becomes(s, [tx[s] EXCEPT !.at = IF todo = <<>> THEN "order" ELSE "attach",
                                     !.todo = todo])

(* _upsert_document, _upsert_supplier_quotes: one document or quote. *)
Attach(s) ==
    /\ At(s, "attach")
    /\ LET item == Head(tx[s].todo)
           rest == Tail(tx[s].todo)
       IN IF item.needs \subseteq Known \union SharedSeen(s)
          THEN Becomes(s, [tx[s] EXCEPT !.at = IF rest = <<>> THEN "order" ELSE "attach",
                                        !.todo = rest, !.held = Ensured(s, item.key)])
          ELSE Fail(s)

(* INSERT INTO sales_order: the trigger on an SN that was given, ...       *)
CheckGivenSn(s) ==
    /\ At(s, "order")
    /\ LET sub == Content[tx[s].work] IN
       IF sub.sn = None \/ OnRegister(s, sub.sn, sub.customer)
       THEN Becomes(s, [tx[s] EXCEPT !.at = "insert"])
       ELSE Fail(s)

Unused == {o \in OrderId : orders[o] = None /\ \A t \in Session : tx[t].wrote[o] = None}

NewRow(m) == [mail |-> m, sn |-> Content[m].sn, status |-> "open",
              checks |-> RequiredChecks(Content[m])]

(* ... the unique constraints, then its lines and checks.  Without an SN   *)
(* the Register is asked for one.                                          *)
InsertOrder(s) ==
    /\ At(s, "insert")
    /\ LET m == tx[s].work
           row == NewRow(m)
           o == Min(Unused)
       IN IF \/ AlreadyLoaded(s)
             \/ row.sn \in SnsUsed(s)
             \/ ~(LineReferences(Content[m]) \subseteq Known)
          THEN Fail(s)
          ELSE /\ Unused # {}
               /\ Becomes(s, [tx[s] EXCEPT !.wrote[o] = row,
                                           !.at = IF row.sn = None THEN "score" ELSE "commit",
                                           !.queue = IF row.sn = None THEN {o} ELSE {}])

-----------------------------------------------------------------------------
(* The end of a transaction.  Rows it deleted are no longer there for a    *)
(* DELETE that was waiting.                                                *)

Published(s) == [o \in OrderId |-> OrderSeen(s, o)]

DeleteStarted(t) == tx[t].work \in Export /\ tx[t].at # "snapshot"

Commit(s) ==
    /\ At(s, "commit")
    /\ orders' = Published(s)
    /\ mirror' = RegisterSeen(s)
    /\ shared' = SharedSeen(s)
    /\ loaded' = IF tx[s].work \in Export THEN tx[s].work ELSE loaded
    /\ beside' = IF tx[s].work \in Export THEN tx[s].late ELSE beside
    /\ listed' = listed \union tx[s].put
    /\ tx' = [t \in Session |-> IF t = s THEN Idle
                                ELSE [tx[t] EXCEPT !.snap = @ \ tx[s].gone,
                                                   !.late = IF DeleteStarted(t)
                                                            THEN @ \union tx[s].put ELSE @]]
    /\ UNCHANGED started

(* The connection is lost. *)
Rollback(s) == tx[s] # Idle /\ Fail(s)

(* External: PostgreSQL ends one of the transactions that wait in a ring.  *)
Waits == [p \in Session \X Session |-> p[2] \in Blockers(p[1])]

BreakDeadlock(s) ==
    /\ Blockers(s) # {}
    /\ TransitiveClosure(Waits, Session)[s, s]
    /\ Fail(s)

(* change_status, in one step: what matters here is that it waits for the  *)
(* row and that approval needs an SN.                                      *)
ChangeStatus(o, to) ==
    /\ orders[o] # None
    /\ \A t \in Session : tx[t].wrote[o] = None
    /\ <<orders[o].status, to>> \in {<<"open", "approved">>, <<"open", "cancelled">>,
                                     <<"approved", "open">>, <<"approved", "cancelled">>}
    /\ to = "approved" => orders[o].sn # None
    /\ orders' = [orders EXCEPT ![o].status = to]
    /\ started < MaxCommands
    /\ started' = started + 1
    /\ UNCHANGED <<mirror, shared, tx, loaded, beside, listed>>

Step(s) ==
    \/ Snapshot(s) \/ DeleteMirror(s) \/ InsertRows(s) \/ ListPending(s)
    \/ FindBest(s) \/ PickSn(s) \/ LockOrder(s) \/ RunTriggers(s) \/ WriteSn(s)
    \/ UpsertEmail(s) \/ LookForOrder(s) \/ Attach(s) \/ CheckGivenSn(s) \/ InsertOrder(s)
    \/ Commit(s)

Next ==
    \/ \E s \in Session :
          \/ \E e \in Export : StartSync(s, e)
          \/ \E m \in Mail : StartSubmit(s, m)
          \/ \E o \in OrderId : StartMatch(s, o) \/ \E sn \in Sns : StartChoose(s, o, sn)
          \/ Step(s)
          \/ BreakDeadlock(s)
          \/ Rollback(s)
    \/ \E o \in OrderId, to \in Status : ChangeStatus(o, to)

(* A command runs to its end once nobody is in its way, and PostgreSQL     *)
(* breaks a ring of waiting transactions; nobody has to start a command.   *)
Fairness ==
    /\ \A s \in Session : WF_vars(Step(s))
    /\ WF_vars(\E s \in Session : BreakDeadlock(s))

Spec == Init /\ [][Next]_vars

FairSpec == Spec /\ Fairness

-----------------------------------------------------------------------------
(* Properties. *)

(* "Idempotent on (email Message-ID, source_sequence)": however often and  *)
(* by however many people at once a submission is loaded, one order.       *)
OneOrderPerSubmission ==
    \A o, p \in OrderId :
        /\ orders[o] # None /\ orders[p] # None
        /\ SubmissionKey(orders[o].mail) = SubmissionKey(orders[p].mail)
        => o = p

(* A command that says a submission is loaded leaves its order behind: a   *)
(* second order in an email is not mistaken for the first.                 *)
NoSubmissionLost ==
    [][\A s \in Session : Commit(s) /\ tx[s].work \in Mail =>
          \E o \in OrderId : /\ orders'[o] # None
                             /\ SubmissionKey(orders'[o].mail) = SubmissionKey(tx[s].work)]_vars

(* No two orders share an SN, whoever matches or chooses at the same time. *)
OneOrderPerSn ==
    \A o, p \in OrderId :
        /\ orders[o] # None /\ orders[p] # None
        /\ orders[o].sn # None /\ orders[o].sn = orders[p].sn
        => o = p

(* However syncs overlap, the last one that committed has left the whole   *)
(* of its export, no good row hidden by a bad one, and nothing of what was *)
(* there when its DELETE started: what the mirror holds beside the export  *)
(* was committed by another sync after that.  A sync that overlaps with    *)
(* none leaves exactly its export.                                         *)
MirrorReplaced ==
    IF loaded = None THEN mirror = {}
    ELSE LET rows == FirstTrustedRows(Sheet[loaded].lines) IN
         rows \subseteq mirror /\ mirror \subseteq rows \union beside

(* load_register: "Replace the Register mirror with a fresh export, in one *)
(* transaction".  It does not hold of the code: a DELETE does not see what *)
(* another sync inserts meanwhile, and the INSERT only fails if the two    *)
(* exports share an SN.                                                    *)
MirrorIsOneExport ==
    mirror = IF loaded = None THEN {} ELSE FirstTrustedRows(Sheet[loaded].lines)

(* "Never invents an SN": what an order has was once committed to the      *)
(* mirror, for a client that is the order's customer.                      *)
SourcedFromRegister ==
    \A o \in OrderId : orders[o] # None /\ orders[o].sn # None =>
        \E r \in listed : r.sn = orders[o].sn /\ SameCustomer(r, Content[orders[o].mail].customer)

(* A match that found its SN before the order was approved or cancelled    *)
(* does not write it afterwards.                                           *)
LockedKeepsSn ==
    [][\A o \in OrderId : orders[o] # None /\ orders[o].status # "open" =>
          orders'[o].sn = orders[o].sn]_vars

(* Every command that is running ends: nobody waits for ever, although     *)
(* two intakes may take shared documents in opposite orders.               *)
EveryCommandEnds == \A s \in Session : tx[s].at # "idle" ~> tx[s].at = "idle"

=============================================================================

----------------------------- MODULE XeroOwners -----------------------------
(***************************************************************************)
(* The account owner according to Xero: the daily sync of the contact      *)
(* groups (sync-xero-groups), beside everything else that moves accounts   *)
(* (module Ownership) and the master data that maps groups to owners       *)
(* (module MasterData).  Finance edits the groups in Xero at any time, also *)
(* while a sync reads them one by one.  What a sync writes is one          *)
(* transaction, begun after the last group was read.                       *)
(*                                                                         *)
(* Times are kept as far as they are compared: Xero's answer has the day   *)
(* it was first seen, and of every period is known whether it was written  *)
(* before, at or after that moment.  Master-data files hold no allocations *)
(* and no absences here.                                                   *)
(***************************************************************************)
EXTENDS Ownership, FiniteSets

CONSTANTS
    Contact,     \* Xero contacts
    Group,       \* Xero contact groups: their ids
    GroupName,
    FirstName,   \* the names of the groups there are at first
    Deleted,     \* the status of a group that is no longer there
    File,        \* the master-data files
    Base,        \* the one loaded before all else
    MaxChanges   \* bound: commands, edits in Xero and failed reads

VARIABLES
    master,     \* the master data
    member,     \* Xero: the contacts of each group
    groupName,  \* Xero: the name of each group, Deleted, or None before it is made
    fetch,      \* the read that is under way, or None
    groupId,    \* xero_owner_group.xero_contact_group_id, by name
    xeroOwner,  \* customer_xero_owner, None without a row
    written,    \* when each customer's period from a day was last written
    firstSync,  \* the day of the first sync
    today,
    changes     \* so far, of MaxChanges

ASSUME XeroAssumption ==
    /\ Base \in File
    /\ FirstName \in [Group -> GroupName \union {None}]
    /\ {None, Deleted} \intersect (Group \union GroupName) = {}
    /\ MaxChanges \in Nat /\ MaxDay >= 1
    /\ IsFiniteSet(Group)

INSTANCE MasterData

Lines == [file \in File |-> RowsOf(file)]

(* A file is a sequence of rows, each in its section, and every group it   *)
(* names is mapped to an employee or a house account there is.             *)
ASSUME FileAssumption ==
    \A file \in File : LET lines == Lines[file] IN
        /\ lines \in Seq(ToSet(lines))
        /\ \A row \in ToSet(lines) :
              /\ DOMAIN row = {"kind", "key", "value", "needs", "fixed", "unique", "subject", "from", "to"}
              /\ row.kind = "xero_group" => row.key \in GroupName /\ row.value \in Owner
        /\ \A s \in ToSet(Sections) :
              file[s] \in Seq(ToSet(file[s])) /\ \A row \in ToSet(file[s]) : Fits(s, row)

xero == <<member, groupName>>
synced == <<groupId, xeroOwner, firstSync>>
all == <<vars, master, xero, fetch, synced, written, today, changes>>

Answer == [owner : Owner \union {None}, groups : 0 .. Cardinality(Group), names : SUBSET GroupName]

XeroTypeOK ==
    /\ TypeOK
    /\ member \in [Group -> SUBSET Contact]
    /\ groupName \in [Group -> GroupName \union {None, Deleted}]
    /\ fetch = None \/ fetch \in [todo : SUBSET Group, seen : SUBSET (Group \X GroupName \X Contact)]
    /\ groupId \in [GroupName -> Group \union {None}]
    /\ \A c \in Customer : xeroOwner[c] = None \/
          /\ xeroOwner[c] \in [answer : Answer, since : Day \union {None}]
          /\ (xeroOwner[c].answer.groups = 1) = (xeroOwner[c].answer.owner # None)
    /\ written \in [Customer -> [Day -> {"before", "at", "after"}]]
    /\ \A n, m \in GroupName : n # m /\ groupId[n] # None => groupId[n] # groupId[m]
    /\ firstSync \in Day \union {None}
    /\ today \in Day

ActiveGroup(g) == groupName[g] \in GroupName

XeroInit ==
    /\ Init
    /\ master = LoadFrom({}, Lines[Base]).rows
    /\ groupName = FirstName
    /\ member \in [Group -> SUBSET Contact]
    /\ \A g \in Group : member[g] # {} => ActiveGroup(g)
    /\ fetch = None
    /\ groupId = [n \in GroupName |-> None]
    /\ xeroOwner = [c \in Customer |-> None]
    /\ written = [c \in Customer |-> [d \in Day |-> "before"]]
    /\ firstSync = None
    /\ today = 1
    /\ changes = 0

Change == changes < MaxChanges /\ changes' = changes + 1

-----------------------------------------------------------------------------
(* What finance does in Xero. *)

(* A contact is put into a group, or taken out of it. *)
MoveContact(x, g) ==
    /\ Change
    /\ ActiveGroup(g)
    /\ member' = [member EXCEPT ![g] = (@ \union {x}) \ (@ \intersect {x})]
    /\ UNCHANGED <<vars, master, groupName, fetch, synced, written, today>>

(* A group is made or renamed; two active groups never share a name.       *)
NameGroup(g, n) ==
    /\ Change
    /\ groupName[g] # Deleted
    /\ n \notin {groupName[h] : h \in Group}
    /\ groupName' = [groupName EXCEPT ![g] = n]
    /\ UNCHANGED <<vars, master, member, fetch, synced, written, today>>

DeleteGroup(g) ==
    /\ Change
    /\ ActiveGroup(g)
    /\ groupName' = [groupName EXCEPT ![g] = Deleted]
    /\ member' = [member EXCEPT ![g] = {}]
    /\ UNCHANGED <<vars, master, fetch, synced, written, today>>

-----------------------------------------------------------------------------
(* Reading the groups: first the list of active ones, then each.           *)

StartFetch ==
    /\ fetch = None
    /\ fetch' = [todo |-> {g \in Group : ActiveGroup(g)}, seen |-> {}]
    /\ UNCHANGED <<vars, master, xero, synced, written, today, changes>>

(* A group that has been deleted meanwhile is passed over. *)
Contacts(g) ==
    IF ActiveGroup(g) THEN {g} \X {groupName[g]} \X member[g] ELSE {}

FetchGroup(g) ==
    /\ fetch # None /\ g \in fetch.todo
    /\ fetch' = [todo |-> fetch.todo \ {g}, seen |-> fetch.seen \union Contacts(g)]
    /\ UNCHANGED <<vars, master, xero, synced, written, today, changes>>

(* Xero cannot be reached: nothing is loaded. *)
FetchFails ==
    /\ Change
    /\ fetch # None /\ fetch.todo # {}
    /\ fetch' = None
    /\ UNCHANGED <<vars, master, xero, synced, written, today>>

-----------------------------------------------------------------------------
(* refresh_customer_xero_owner, from the memberships seen.                 *)

OwnerGroups == {r \in master : r.kind = "xero_group"}

XeroContactOf(c) ==
    LET row == {r \in master : r.kind = "customer" /\ r.key = c} IN
    IF row = {} THEN None ELSE (CHOOSE r \in row : TRUE).unique

(* A mapped name without an id takes that of a group seen with that name.  *)
IdsFrom(seen) ==
    LET new == {m \in seen : groupId[m[2]] = None /\ \E r \in OwnerGroups : r.key = m[2]}
        choices == [n \in GroupName |-> {m[1] : m \in {x \in new : x[2] = n}}]
    IN {ids \in [GroupName -> Group \union {None}] : \A n \in GroupName :
           IF choices[n] = {} THEN ids[n] = groupId[n] ELSE ids[n] \in choices[n]}

(* Mutant: the column is not. *)
NeverClashes(ids) == FALSE

(* The column is UNIQUE. *)
Clash(ids) == \E n, m \in GroupName : n # m /\ ids[n] # None /\ ids[n] = ids[m]

AnswerOf(c, seen, ids) ==
    LET rows == {m \in seen : m[3] = XeroContactOf(c) /\ \E r \in OwnerGroups : ids[r.key] = m[1]} IN
    [owner |-> IF Cardinality(rows) # 1 THEN None
               ELSE (CHOOSE r \in OwnerGroups : \E m \in rows : ids[r.key] = m[1]).value,
     groups |-> Cardinality(rows),
     names |-> {m[2] : m \in rows}]

Baseline == \A c \in Customer : xeroOwner[c] = None

(* Mutant: what Xero says counts as new at every sync. *)
AlwaysNew(c, answer) == TRUE

SaysNew(c, answer) ==
    IF xeroOwner[c] = None THEN ~Baseline ELSE xeroOwner[c].answer # answer

(* Mutant: a customer keeps its first row. *)
KeptRow(c, answer) ==
    IF xeroOwner[c] # None THEN xeroOwner[c] ELSE [answer |-> answer, since |-> None]

RefreshedRow(c, answer) ==
    IF XeroContactOf(c) = None THEN xeroOwner[c]
    ELSE [answer |-> answer,
          since |-> IF SaysNew(c, answer) THEN today
                    ELSE IF xeroOwner[c] = None THEN None ELSE xeroOwner[c].since]

(* The times of the periods are now told from this sync. *)
Restarts(c, answer) ==
    firstSync = None \/ (XeroContactOf(c) # None /\ SaysNew(c, answer))

WrittenBefore(c, answer) ==
    IF Restarts(c, answer) THEN [d \in Day |-> "before"] ELSE written[c]

-----------------------------------------------------------------------------
(* v_account_owner_reconciliation: a customer c whose row is x, and whose  *)
(* periods were written when w says.                                       *)

(* Mutant: nobody asks whether Xero's owner has left. *)
DisagreeWithLeaver(c, x) ==
    /\ XeroContactOf(c) # None /\ x # None
    /\ x.answer.groups = 1
    /\ \A p \in AllocationOn(c, today) : p.owner # x.answer.owner

(* One owner, still here, and another than the database's of today.        *)
Disagree(c, x) ==
    /\ XeroContactOf(c) # None /\ x # None
    /\ x.answer.groups = 1
    /\ x.answer.owner \in Employee => Active(x.answer.owner)
    /\ \A p \in AllocationOn(c, today) : p.owner # x.answer.owner

(* Mutant: Xero is right whenever the two disagree. *)
XeroAlways(c, x, w) == Disagree(c, x)

(* Nobody owns the account today, or the period was written before Xero    *)
(* changed; not at the baseline, where nothing shows who is newer.         *)
XeroChanged(c, x, w) ==
    /\ Disagree(c, x)
    /\ \A p \in AllocationOn(c, today) : x.since # None /\ w[p.from] = "before"

DbChanged(c, x, w) ==
    /\ Disagree(c, x)
    /\ \E p \in AllocationOn(c, today) : w[p.from] = "after"

Differs(c, x, w) == Disagree(c, x) /\ ~XeroChanged(c, x, w) /\ ~DbChanged(c, x, w)

-----------------------------------------------------------------------------
(* apply_xero_owners. *)

(* Baseline owners date from the first sync. *)
SeenOn(x) == IF x.since # None THEN x.since ELSE IF firstSync # None THEN firstSync ELSE today

(* Mutant: a later change does not stand in the way. *)
PassesRegardless(c, owner, d) == \A p \in AllocationOn(c, d) : p.owner # owner

(* set_account_owner(c, owner, d), as to c's periods and the review; the   *)
(* owner is still here.                                                    *)
Passes(c, owner, d) == ~ChangesAfter(c, d) /\ \A p \in AllocationOn(c, d) : p.owner # owner

Reviewed(c, owner, d) ==
    ChangesAfter(c, d) \/ (Passes(c, owner, d) /\ \E p \in AllocationOn(c, d) : p.from = d)

PeriodsOf(c, adopted, row) ==
    {p \in IF c \in adopted /\ Passes(c, row[c].answer.owner, SeenOn(row[c]))
           THEN PassedTo(c, row[c].answer.owner, SeenOn(row[c])) ELSE periods : p.customer = c}

Adopt(adopted, row) ==
    /\ periods' = UNION {PeriodsOf(c, adopted, row) : c \in Customer}
    /\ review' = review \union {<<c, SeenOn(row[c])>> : c \in
           {b \in adopted : Reviewed(b, row[b].answer.owner, SeenOn(row[b]))}}

(* The periods a step writes get its time. *)
Stamp(before, time) ==
    written' = [c \in Customer |-> [d \in Day |->
        IF \E p \in periods' \ periods : p.customer = c /\ p.from = d
        THEN time[c] ELSE before[c][d]]]

(* sync_xero_groups, once every group has been read.                       *)
SyncXeroGroups(adoptXero) ==
    /\ fetch # None /\ fetch.todo = {}
    /\ \E ids \in IdsFrom(fetch.seen) :
          LET answer == [c \in Customer |-> AnswerOf(c, fetch.seen, ids)]
              row == [c \in Customer |-> RefreshedRow(c, answer[c])]
              before == [c \in Customer |-> WrittenBefore(c, answer[c])]
              adopted == {c \in Customer :
                  \/ XeroChanged(c, row[c], before[c])
                  \/ adoptXero /\ Differs(c, row[c], before[c])}
          IN /\ ~Clash(ids)
             /\ groupId' = ids
             /\ xeroOwner' = row
             /\ Adopt(adopted, row)
             /\ Stamp(before, [c \in Customer |-> IF Restarts(c, answer[c]) THEN "at" ELSE "after"])
    /\ firstSync' = IF firstSync = None THEN today ELSE firstSync
    /\ fetch' = None
    /\ UNCHANGED <<left, absences, master, xero, today>>

(* An id that another name has already: nothing of the sync stays.         *)
SyncFails ==
    /\ fetch # None /\ fetch.todo = {}
    /\ \E ids \in IdsFrom(fetch.seen) : Clash(ids)
    /\ fetch' = None
    /\ UNCHANGED <<vars, master, xero, synced, written, today, changes>>

DailySync ==
    \/ StartFetch
    \/ \E g \in Group : FetchGroup(g)
    \/ SyncXeroGroups(FALSE) /\ UNCHANGED changes
    \/ SyncFails

-----------------------------------------------------------------------------
(* The other commands. *)

(* An order's approval, a hand-over and a leaver, beside the sync.         *)
OwnersChange ==
    /\ Change
    /\ \/ \E c \in Customer, e \in Employee, d \in 1 .. today : TakeAccountForOrder(c, e, d, None)
       \/ \E c \in Customer, e \in Employee, d \in Day : AllocateAccount(c, e, d)
       \/ \E e \in Employee, d \in Day : EmployeeLeaves(e, d)
    /\ Stamp(written, [c \in Customer |-> "after"])
    /\ UNCHANGED <<master, xero, fetch, synced, today>>

LoadFile(file) ==
    /\ Change
    /\ LoadMasterData(Lines[file])
    /\ UNCHANGED <<vars, xero, fetch, synced, written, today>>

NextDay ==
    /\ today < MaxDay
    /\ today' = today + 1
    /\ UNCHANGED <<vars, master, xero, fetch, synced, written, changes>>

XeroNext ==
    \/ \E g \in Group :
          \/ \E x \in Contact : MoveContact(x, g)
          \/ \E n \in GroupName : NameGroup(g, n)
          \/ DeleteGroup(g)
    \/ DailySync
    \/ FetchFails
    \/ Change /\ SyncXeroGroups(TRUE)
    \/ OwnersChange
    \/ \E file \in File : LoadFile(file)
    \/ NextDay

XeroSpec == XeroInit /\ [][XeroNext]_all

(* "Sync daily": the scheduled task runs again and again (ADR 0003).       *)
XeroFairSpec == XeroSpec /\ WF_all(DailySync)

-----------------------------------------------------------------------------
(* Properties. *)

TakenFromOwner(c) ==
    \E p \in AllocationOn(c, today) : p \notin periods' /\
        \A q \in periods' : q.customer = c /\ Covers(q, today) => q.owner # p.owner

(* A plain sync takes an account from its owner of today only when Xero    *)
(* says something else than at the sync before: an account that an order,  *)
(* a hand-over or a leaver has moved since is not taken back by the next   *)
(* sync (0012, DB_CHANGED), however often the groups are read.             *)
OnlyNewAnswersWin ==
    [][\A c \in Customer :
          TakenFromOwner(c) /\ SyncXeroGroups(FALSE) =>
             xeroOwner[c] = None \/ xeroOwner'[c].answer # xeroOwner[c].answer]_all

(* ADR 0003: the database adopts Xero's owner where Xero changed more      *)
(* recently.  So the owner Xero named already at the sync before takes the *)
(* account from nobody.  It does not hold of the code: renaming the group  *)
(* counts as a change of the owner.                                        *)
OnlyNewOwnersWin ==
    [][\A c \in Customer :
          TakenFromOwner(c) /\ SyncXeroGroups(FALSE) =>
             xeroOwner[c] = None \/ xeroOwner'[c].answer.owner # xeroOwner[c].answer.owner]_all

InXero == UNION {Contacts(g) : g \in Group}

(* The name of a group now belongs to another mapping's group: every sync  *)
(* fails until somebody repairs it.                                        *)
Stuck == \E ids \in IdsFrom(InXero) : Clash(ids)

Settled(c) ==
    /\ XeroContactOf(c) # None =>
          xeroOwner[c] # None /\ xeroOwner[c].answer = AnswerOf(c, InXero, groupId)
    /\ XeroChanged(c, xeroOwner[c], written[c]) => ChangesAfter(c, SeenOn(xeroOwner[c]))

(* However the groups were edited while a sync read them, and whatever     *)
(* syncs failed: once the edits stop, the database has Xero's answer for   *)
(* every customer, and has adopted the owners that Xero changed last       *)
(* (unless a later change stands in the way), or no sync can succeed.      *)
EventuallySettled == <>[]((\A c \in Customer : Settled(c)) \/ Stuck)

(* A file that is complete and contradicts nothing loads, whatever was     *)
(* loaded before: the order of the kinds in load_master_data is one in     *)
(* which every row finds what it needs.                                    *)
CompleteFilesLoad ==
    [][master' # master =>
          \A lines \in {Lines[file] : file \in File} :
             LoadFrom(master', lines).ok \/ ~Complete(lines)' \/ ~Consistent(lines)']_master

(* load_master_data is idempotent: the same file again is accepted and     *)
(* changes nothing.                                                        *)
ReloadIsQuiet ==
    [][master' # master =>
          \A file \in File : LoadMasterData(Lines[file]) =>
              LoadFrom(master', Lines[file]) = [ok |-> TRUE, rows |-> master']]_master

(* Terms, contacts, tenants and rates are history: no file changes one, or *)
(* makes one disappear, and a contract stays with its customer.            *)
HistoryOnlyGrows ==
    [][master' # master => \A r \in master :
          /\ r.kind \in Kept => r \in master'
          /\ \E s \in master' : Same(s, r) /\ s.fixed = r.fixed]_master

=============================================================================

----------------------------- MODULE MasterData -----------------------------
(***************************************************************************)
(* load-master-data: what a file makes of the master data that is there    *)
(* (service.load_master_data).  A file is loaded in one transaction, row   *)
(* by row, one kind after the other; a row that fails undoes all of it.    *)
(* Allocations and absences are loaded along with the rest by the code and *)
(* are left to module Ownership here.                                      *)
(*                                                                         *)
(* Rows of every kind have the same shape.  Names stand for ids, and value *)
(* for the columns that nothing here depends on.                           *)
(***************************************************************************)
EXTENDS Integers, Sequences, SequencesExt

CONSTANT None  \* SQL NULL, Python None

VARIABLE master  \* the rows of all master-data tables

-----------------------------------------------------------------------------
(* Rows: what identifies one, what of it may never change (fixed), an id   *)
(* no other row of its kind may have (unique), what has to be there first  *)
(* (needs), and the days it is in force for whom (subject).                *)

Row(kind, key, value, needs) ==
    [kind |-> kind, key |-> key, value |-> value, needs |-> needs,
     fixed |-> None, unique |-> None, subject |-> None, from |-> 0, to |-> 0]

Ref(kind, key) == IF key = None THEN {} ELSE {<<kind, key>>}

GlAccountRow(code, name, xeroId) ==
    [Row("gl_account", code, name, {}) EXCEPT !.unique = xeroId]

EmployeeRow(email, name) == Row("employee", email, name, {})

SupplierRow(name, status, xeroContact) ==
    [Row("supplier", name, status, {}) EXCEPT !.unique = xeroContact]

CustomerRow(name, notes, xeroContact) ==
    [Row("customer", name, notes, {}) EXCEPT !.unique = xeroContact]

TermsRow(customer, from, to, terms, approver) ==
    [Row("credit_terms", <<customer, from>>, terms, Ref("employee", approver))
        EXCEPT !.subject = customer, !.from = from, !.to = to]

ContactRow(customer, email, name) == Row("contact", <<customer, email>>, name, {})

TenantRow(customer, tenant) == [Row("tenant", tenant, None, {}) EXCEPT !.fixed = customer]

ProductRow(sku, name, supplier, glCode) ==
    Row("product", sku, name, Ref("supplier", supplier) \union Ref("gl_account", glCode))

ContractRow(ref, customer, description) ==
    [Row("arr_contract", ref, description, Ref("customer", customer)) EXCEPT !.fixed = customer]

(* An owner is an employee or a house account: exactly one of the two.     *)
OneOwner(employee, house) == (employee = None) # (house = None)

OwnerOf(employee, house) == IF employee = None THEN house ELSE employee

AliasRow(label, employee, house) ==
    Row("alias", label, OwnerOf(employee, house), Ref("employee", employee))

XeroGroupRow(name, employee, house) ==
    Row("xero_group", name, OwnerOf(employee, house), Ref("employee", employee))

RateRow(from, to, day, source, rate) ==
    [Row("fx_rate", <<from, to, day, source>>, None, {}) EXCEPT !.fixed = rate]

-----------------------------------------------------------------------------
(* The tables. *)

(* Mutant: customers before the employees who approved their terms. *)
CustomersFirst == <<"gl_accounts", "suppliers", "customers", "employees", "products",
                    "contracts", "aliases", "groups", "rates">>

(* MasterDataIn, in the order of load_master_data.  A customer is followed *)
(* by its terms, contacts and tenants.                                     *)
Sections == <<"gl_accounts", "employees", "suppliers", "customers", "products",
              "contracts", "aliases", "groups", "rates">>

RowsOf(file) == FlattenSeq([i \in DOMAIN Sections |-> file[Sections[i]]])

(* The kinds of row in a section, and the kinds a row refers to.           *)
Holds ==
    {<<"gl_accounts", "gl_account">>, <<"employees", "employee">>, <<"suppliers", "supplier">>,
     <<"customers", "customer">>, <<"customers", "credit_terms">>, <<"customers", "contact">>,
     <<"customers", "tenant">>, <<"products", "product">>, <<"contracts", "arr_contract">>,
     <<"aliases", "alias">>, <<"groups", "xero_group">>, <<"rates", "fx_rate">>}

Names ==
    {<<"credit_terms", "employee">>, <<"product", "supplier">>, <<"product", "gl_account">>,
     <<"arr_contract", "customer">>, <<"alias", "employee">>, <<"xero_group", "employee">>}

Fits(section, row) ==
    <<section, row.kind>> \in Holds /\ \A ref \in row.needs : <<row.kind, ref[1]>> \in Names

(* History, and what is only added to: a row that is there stays as it is. *)
Kept == {"credit_terms", "contact", "tenant", "fx_rate"}

Same(r, row) == r.kind = row.kind /\ r.key = row.key

There(rows, ref) == \E r \in rows : r.kind = ref[1] /\ r.key = ref[2]

Overlaps(r, row) ==
    /\ r.kind = row.kind /\ row.subject # None /\ r.subject = row.subject
    /\ r.from <= row.to /\ row.from <= r.to

(* Another row has the id that only one may have. *)
Taken(r, row) == r.kind = row.kind /\ row.unique # None /\ r.unique = row.unique

-----------------------------------------------------------------------------
(* One row, and what is there under its key (old: at most one row).        *)

(* Mutant: history is overwritten like everything else. *)
OverwritesAll(old, row) == FALSE

Stays(old, row) == row.kind \in Kept /\ old # {}

(* Mutant: a plain INSERT, for which the row itself is in the way, too.    *)
RefusedOnReload(rows, row) ==
    \/ \E ref \in row.needs : ~There(rows, ref)
    \/ \E r \in rows : Taken(r, row) \/ Overlaps(r, row)

(* An unknown reference, a unique id that is taken, terms that overlap.    *)
Refused(rows, row) ==
    \/ \E ref \in row.needs : ~There(rows, ref)
    \/ \E r \in rows : (Taken(r, row) \/ Overlaps(r, row)) /\ ~Same(r, row)

(* A GL account keeps the Xero id a file does not give; a customer and a   *)
(* supplier lose their Xero contact.                                       *)
Written(old, row) ==
    IF row.kind = "gl_account" /\ row.unique = None /\ old # {}
    THEN {[row EXCEPT !.unique = r.unique] : r \in old} ELSE {row}

(* The rows and whether all is well so far.  An ARR ref or a tenant of     *)
(* another customer is refused, and another rate for the same day.         *)
LoadRow(db, row) ==
    LET old == {r \in db.rows : Same(r, row)} IN
    IF ~db.ok \/ \E r \in old : r.fixed # row.fixed THEN [db EXCEPT !.ok = FALSE]
    ELSE IF Stays(old, row) THEN db
    ELSE IF Refused(db.rows, row) THEN [db EXCEPT !.ok = FALSE]
    ELSE IF row \in old THEN db
    ELSE [db EXCEPT !.rows = (@ \ old) \union Written(old, row)]

-----------------------------------------------------------------------------
(* A file, given by its rows. *)

LoadFrom(rows, lines) == FoldLeft(LoadRow, [ok |-> TRUE, rows |-> rows], lines)

LoadMasterData(lines) ==
    LET db == LoadFrom(master, lines) IN db.ok /\ master' = db.rows

-----------------------------------------------------------------------------
(* Properties. *)

(* Every reference resolves in the file itself or in what is there.        *)
Complete(lines) ==
    \A row \in ToSet(lines) : \A ref \in row.needs : There(master \union ToSet(lines), ref)

(* Nothing in the file contradicts the rest of it or what is there.        *)
Consistent(lines) ==
    \A row \in ToSet(lines), r \in master \union ToSet(lines) :
        /\ Same(r, row) => r.fixed = row.fixed
        /\ ~Same(r, row) => ~Overlaps(r, row) /\ ~Taken(r, row)

=============================================================================

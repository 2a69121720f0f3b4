------------------------------ MODULE Register ------------------------------
(***************************************************************************)
(* The AW SOs Register: which rows of a CSV export are loaded              *)
(* (register.py), and which of the loaded rows may be the SN of an order   *)
(* (v_sn_candidate).  Operators only; the state is in module Intake.       *)
(*                                                                         *)
(* A cell is what is typed in it.  Texts are values of their own: the      *)
(* constants say which of them spell an SN, stand for nothing, or          *)
(* normalise to the same name.                                             *)
(***************************************************************************)
EXTENDS Integers, SequencesExt

CONSTANTS
    CanonicalSn,     \* canonical_sn: from what is typed to the SN it spells, or None
    LastOrderSn,     \* SNs that end in LO or CA
    Empty, Dash, ToCheck, Tbc, NotApplicable, Xxx,  \* what is typed where nothing is known
    NormalisedName,  \* normalised_name of a client as the Register writes it
    NamesOf,         \* the normalised legal, trading and tracking names of each customer
    Alike,           \* <<title, project>> where one text contains the other
    None             \* SQL NULL, Python None

-----------------------------------------------------------------------------
(* _locate_columns.  A header gives the positions at which each column     *)
(* name is found.  The SN column has no name of its own: it follows        *)
(* Reporting Category, and Salesperson must come right after it; the       *)
(* second Client is the signatory.                                         *)
First(header, name) == Min(header[name])

LayoutKnown(header) ==
    /\ \A name \in DOMAIN header : header[name] # {}
    /\ Cardinality(header["Client"]) >= 2
    /\ First(header, "Salesperson") = First(header, "Reporting Category") + 2

-----------------------------------------------------------------------------
(* One row.  Only the cells that something depends on are kept: the SN,    *)
(* the client, the date issued, the project and the revenue; the other     *)
(* texts, dates and amounts are read in the same three ways.               *)

(* _text *)
Text(cell) == IF cell \in {Empty, ToCheck, Xxx, NotApplicable, Dash} THEN None ELSE cell

(* parse_date; a day is its number. *)
NoDate == {Empty, ToCheck, Tbc, NotApplicable}
IsDate(cell) == cell \in NoDate \union Int
DateOf(cell) == IF cell \in NoDate THEN None ELSE cell

(* parse_money: accountants write (1,234) for -1,234. *)
NoMoney == {Empty, Dash}
IsMoney(cell) == cell \in NoMoney \union [amount : Int, bracketed : BOOLEAN]
MoneyOf(cell) ==
    IF cell \in NoMoney THEN None ELSE IF cell.bracketed THEN -cell.amount ELSE cell.amount

Blank(raw) == \A column \in DOMAIN raw : raw[column] = Empty

(* RegisterRow *)
EntryOf(raw) ==
    [sn |-> CanonicalSn[raw.sn], client |-> Text(raw.client), day |-> DateOf(raw.day),
     project |-> Text(raw.project), revenue |-> MoneyOf(raw.revenue)]

(* Why a row is rejected, given the SNs loaded so far: the first that      *)
(* applies.                                                                *)
Reason(raw, seen) ==
    IF CanonicalSn[raw.sn] = None THEN "not a valid SN reference"
    ELSE IF CanonicalSn[raw.sn] \in seen THEN "duplicate SN reference"
    ELSE IF Text(raw.client) = None THEN "no client"
    ELSE IF ~IsDate(raw.day) \/ ~IsMoney(raw.revenue) THEN "unreadable"
    ELSE "none"

-----------------------------------------------------------------------------
(* parse_register: row after row, with what was loaded and rejected before *)
(* (ParsedRegister).  An SN counts as seen once a row with it is loaded.   *)
SnsOf(entries) == {r.sn : r \in entries}

ReadRow(parsed, raw) ==
    LET reason == Reason(raw, SnsOf(parsed.rows)) IN
    IF Blank(raw) THEN parsed
    ELSE IF reason = "none" THEN [parsed EXCEPT !.rows = @ \union {EntryOf(raw)}]
    ELSE [parsed EXCEPT !.rejections = Append(@, reason)]

ParseRegister(lines) == FoldLeft(ReadRow, [rows |-> {}, rejections |-> <<>>], lines)

(* What it should come to: of each SN the first row that can be trusted;   *)
(* a bad row does not shadow a good one after it.                          *)
Trusted(lines, i) == ~Blank(lines[i]) /\ Reason(lines[i], {}) = "none"

FirstTrustedRows(lines) ==
    {EntryOf(lines[i]) : i \in {j \in DOMAIN lines :
        /\ Trusted(lines, j)
        /\ \A k \in 1 .. j - 1 : Trusted(lines, k) => CanonicalSn[lines[k].sn] # CanonicalSn[lines[j].sn]}}

-----------------------------------------------------------------------------
(* v_sn_candidate, for an order given by customer, title, day (signed, or  *)
(* received) and net sell.                                                 *)
Window == 7

SameCustomer(r, customer) == NormalisedName[r.client] \in NamesOf[customer]

Candidates(order, rows, used) ==
    {r \in rows : /\ SameCustomer(r, order.customer)
                  /\ r.day # None /\ r.day - order.day \in -Window .. Window
                  /\ r.sn \notin LastOrderSn \union used}

Revenue(r) == IF r.revenue = None THEN 0 ELSE r.revenue

Score(order, r) ==
    (IF r.project # None /\ <<order.title, r.project>> \in Alike THEN 3 ELSE 0)
    + (IF r.day = order.day THEN 2 ELSE 1)
    + (IF Revenue(r) - order.netSell \in -1 .. 1 THEN 3 ELSE 0)

=============================================================================

------------------------------ MODULE MCIntake ------------------------------
(* Instances of Intake for TLC. *)
EXTENDS Intake

CONSTANTS e1, e2, e3, m1, m2, m3

(* Two exports and one whose columns have moved.  In the first, an SN      *)
(* first comes with an unreadable date; both of its SNs fit the orders of  *)
(* Acme, one of them better.  The second has no SN of the first.           *)
Columns == [Client |-> {3, 9}] @@ ("Reporting Category" :> {12}) @@ ("Salesperson" :> {14})
MovedColumns == [Columns EXCEPT !["Salesperson"] = {13}]

Cells(sn, client, day, project, revenue) ==
    [sn |-> sn, client |-> client, day |-> day, project |-> project, revenue |-> revenue]
Pounds(n) == [amount |-> n, bracketed |-> FALSE]

Sheets == e1 :> [header |-> Columns,
                 lines |-> <<Cells("2001", "Acme", Dash, ToCheck, Pounds(10)),
                             Cells("2001", "Acme", 2, "backup", Pounds(10)),
                             Cells(Empty, Empty, Empty, Empty, Empty),
                             Cells("SN2001", "Beta", 2, "backup", Pounds(10)),
                             Cells("2002", "ACME Ltd", 3, Dash, Dash)>>]
       @@ e2 :> [header |-> Columns,
                 lines |-> <<Cells("?", "Acme", 2, "backup", Pounds(10)),
                             Cells("2003", "Acme", 2, "backup", Pounds(10))>>]
       @@ e3 :> [header |-> MovedColumns, lines |-> <<>>]

Canonical == Empty :> None @@ "?" :> None
          @@ [t \in {"2001", "SN2001"} |-> "SN2001"] @@ [t \in {"2002", "SN2002"} |-> "SN2002"]
          @@ "2003" :> "SN2003"
Normalised == [c \in {"Acme", "ACME Ltd"} |-> "acme"] @@ "Beta" :> "beta"
Names == "Acme Limited" :> {"acme"} @@ "Beta plc" :> {"beta"}

Item == [sku |-> None, supplier |-> "supplier", quote |-> None, frequency |-> "one_off",
         periods |-> 1, quantity |-> 1, cost |-> 12, sell |-> 10, currency |-> "GBP",
         fx |-> None, arr |-> None]

Order == [message |-> "message 1", sequence |-> 1, customer |-> "Acme Limited",
          title |-> "backup", sn |-> None, signed |-> 2, received |-> 3, currency |-> "GBP",
          submitter |-> "employee", manager |-> None, covering |-> None, priceList |-> None,
          tenant |-> None, po |-> None, documents |-> <<>>, quotes |-> <<>>, lines |-> <<Item>>,
          asked |-> {}]

(* The second order of the first email, and an order whose SN is given and *)
(* whose documents come in the opposite order.                             *)
Contents == m1 :> [Order EXCEPT !.documents = <<"pdf", "xls">>]
         @@ m2 :> [Order EXCEPT !.sequence = 2, !.signed = None]
         @@ m3 :> [Order EXCEPT !.message = "message 2", !.sn = "SN2001",
                                !.documents = <<"xls", "pdf">>]

MasterData == {<<"customer", "Acme Limited">>, <<"employee", "employee">>, <<"supplier", "supplier">>}
SameText == {<<"backup", "backup">>}

=============================================================================

---------------------------- MODULE MCXeroOwners ----------------------------
(* Instances of XeroOwners for TLC. *)
EXTENDS XeroOwners

CONSTANTS c1, c2, x1, g1, g2, e1, e2, e3, n1, n2, n3

Nothing == [s \in ToSet(Sections) |-> <<>>]

Employees == <<EmployeeRow(e1, "one"), EmployeeRow(e2, "two")>>

(* Two salespeople, the customer with its Xero contact, and two groups.    *)
BaseFile == [Nothing EXCEPT
    !["employees"] = Employees,
    !["customers"] = <<CustomerRow(c1, "notes", x1)>>,
    !["groups"] = <<XeroGroupRow(n1, e1, None), XeroGroupRow(n2, e2, None)>>]

(* One row of every kind and two of some, each with all it needs; a group  *)
(* goes from a salesperson to House.                                       *)
FullFile == [Nothing EXCEPT
    !["gl_accounts"] = <<GlAccountRow("4000", "sales", "id 1"), GlAccountRow("5000", "cost", None)>>,
    !["employees"] = <<EmployeeRow(e3, "three")>>,
    !["suppliers"] = <<SupplierRow("supplier", "open", "contact 1")>>,
    !["customers"] = <<CustomerRow(c1, "notes", x1), TermsRow(c1, 1, 1, "30 days", e3),
                       ContactRow(c1, "email", "name"), TenantRow(c1, "tenant"),
                       CustomerRow(c2, "notes", None), TermsRow(c2, 1, 2, "30 days", e3)>>,
    !["products"] = <<ProductRow("sku", "name", "supplier", "4000")>>,
    !["contracts"] = <<ContractRow("ARR1", c1, "backup")>>,
    !["aliases"] = <<AliasRow("label", e3, None)>>,
    !["groups"] = <<XeroGroupRow(n3, None, House), XeroGroupRow(n2, None, House)>>,
    !["rates"] = <<RateRow("USD", "GBP", 1, "bank", 2)>>]

(* Later news, with a partial row for the customer: another name and no   *)
(* Xero ids, other terms from the same day, the contact renamed.           *)
LaterFile == [Nothing EXCEPT
    !["gl_accounts"] = <<GlAccountRow("4000", "revenue", None)>>,
    !["customers"] = <<CustomerRow(c1, "other notes", None), TermsRow(c1, 1, 2, "60 days", None),
                       ContactRow(c1, "email", "other name")>>]

(* Refused: the contract of another customer, another rate for the day.    *)
WrongFile == [Nothing EXCEPT
    !["contracts"] = <<ContractRow("ARR1", c2, "backup")>>,
    !["rates"] = <<RateRow("USD", "GBP", 1, "bank", 3)>>]

Files == {BaseFile, FullFile, LaterFile, WrongFile}

TwoGroups == [g \in Group |-> IF g = g1 THEN n1 ELSE n2]

NoPeriods == {}

=============================================================================

--------------------------- MODULE MCApprovalRace ---------------------------
(* Instances of ApprovalRace for TLC. *)
EXTENDS ApprovalRace, TLC

(* Sessions are interchangeable, and so are the lines of the order. *)
Symmetric == Permutations(Session) \union Permutations(LineNo)

=============================================================================

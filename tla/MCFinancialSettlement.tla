----------------------- MODULE MCFinancialSettlement -----------------------
(* The values the TLC runs of FinancialSettlement give its constants. *)
EXTENDS FinancialSettlement, TLC

AnyRequest == Permutations(Requests)
=============================================================================

------------------------------ MODULE MCPanels ------------------------------
(* An instance of Panels for TLC: two pages of receipts in all, one of them *)
(* the branch's.                                                            *)
EXTENDS Panels

CONSTANTS readiness, undecorated, m1, m2, cost, sales, p1, p2, branch, product

MCRoutes == {"trend", "heatmap", "list", "dashboard", "basket", readiness, undecorated}
MCTotal == [b \in Branches \cup {None} |-> IF b = None THEN 2 ELSE 1]

=============================================================================

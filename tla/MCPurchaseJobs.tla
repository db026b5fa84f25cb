--------------------------- MODULE MCPurchaseJobs ---------------------------
(* Small instances of PurchaseJobs for TLC. *)
EXTENDS PurchaseJobs, TLC

\* A referral and an access-granting product lead to separate jobs that do not
\* meet: an order has one of the two.
OneInterest == {[referred |-> r, offered |-> ~r] : r \in BOOLEAN}

\* Workers are interchangeable, and so are the ids of the hub.
Symmetry == Permutations(Workers) \cup Permutations(Ids)
=============================================================================

--------------------------- MODULE MCStripeInbox ---------------------------
(* Small instances of StripeInbox for TLC. *)
EXTENDS StripeInbox, TLC

\* Tokens and workers are interchangeable.
Symmetry == Permutations(Tokens) \cup Permutations(Workers)
=============================================================================

----------------------- MODULE MCCollectibleDelivery -----------------------
(***************************************************************************)
(* Instances of CollectibleDelivery for TLC.                               *)
(***************************************************************************)
EXTENDS CollectibleDelivery, TLC

\* Cards and senders are told apart only by equality (tokens are chosen).
Symmetry == Permutations(Issues) \cup Permutations(Senders)
=============================================================================

--------------------------- MODULE MCOrderRecords ---------------------------
(* Small instances of OrderRecords for TLC. *)
EXTENDS OrderRecords

\* The order's status, the commission and the issue meet only in the payment and
\* the refund, which treat each apart: an order has one of them to look at.
Some(referred, nft, edited) ==
    [referred |-> referred, nft |-> nft, edited |-> {edited}]
OneRecord == {Some(FALSE, FALSE, "order"), Some(TRUE, FALSE, "commission"),
              Some(FALSE, TRUE, "issue")}
=============================================================================

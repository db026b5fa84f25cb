--------------------------- MODULE MCProductCatalog ---------------------------
(* One product, two administrators, two variants, two orders; each scope   *)
(* lets a part of the actions meet.                                        *)
EXTENDS ProductCatalog, TLC

CONSTANTS ann, ben, o1, o2

Sold == [item |-> "nft", status |-> "published", base |-> 11, mode |-> "none", role |-> TRUE, overlay |-> NULL]
Row(price, stock) == [price |-> price, stock |-> stock, reserved |-> 0]
NoRules == [k \in RuleKeys |-> NULL]

Nothing == [admins |-> {}, orders |-> {}, prices |-> {}, stocks |-> {}, choices |-> {}, ops |-> {}, newRules |-> {},
            files |-> {}, edits |-> 3, product |-> Sold, rule |-> NoRules, variant |-> <<Row(11, 2), NULL>>]

ProductRow(v, stock) == [kind |-> "product", variant |-> v, price |-> 12, stock |-> stock,
                         item |-> "nft", status |-> "draft"]
OrderRow(v) == [kind |-> "order", variant |-> v]
BadRow == [kind |-> "bad"]

Stock == [admins |-> {ann, ben}, orders |-> {o1, o2}, stocks |-> {0, 2}] @@ Nothing
Sheets == [orders |-> {o1, o2}, edits |-> 4, ops |-> {"external"},
           files |-> {<<OrderRow(1), BadRow, OrderRow(2)>>, <<ProductRow(1, 1), ProductRow(2, 1)>>}] @@ Nothing
Removal == [admins |-> {ann, ben}, orders |-> {o1}, ops |-> {"delete", "save"},
            choices |-> {<<"status", "archived">>, <<"overlay", "gold">>}] @@ Nothing
Priced == [admins |-> {ann, ben}, prices |-> {10, 15}, stocks |-> {1}, ops |-> {"save", "delete"}, edits |-> 2] @@ Nothing
Access == [admins |-> {ann, ben}, ops |-> {"save", "partial"},
           choices |-> {<<"mode", "none">>, <<"mode", "agent_portal">>, <<"role", TRUE>>, <<"role", FALSE>>}] @@ Nothing
Fields(a, r, c) == [asset |-> a, rarity |-> r, req |-> c]
NewRules == [admins |-> {ann, ben}, ops |-> {"save"}, choices |-> {<<"item", "physical">>},
             newRules |-> (RuleKeys \X {Fields(TRUE, TRUE, TRUE)}) \union {<<Collectible, Fields(TRUE, TRUE, FALSE)>>}] @@ Nothing
Rules == [admins |-> {ann, ben}, ops |-> {"rules"},
          rule |-> [NoRules EXCEPT ![Collectible] = Fields(TRUE, TRUE, TRUE) @@ NoRule]] @@ Nothing
Draft == [ops |-> {"create"}, prices |-> {10, 15}, stocks |-> {1}, edits |-> 4, product |-> NULL,
          variant |-> <<NULL, NULL>>, files |-> {<<ProductRow(1, 1)>>}] @@ Nothing

MCScopes == {Stock, Sheets, Removal, Priced, Access, NewRules, Rules, Draft}
=============================================================================

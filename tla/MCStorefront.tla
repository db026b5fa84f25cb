---------------------------- MODULE MCStorefront ----------------------------
(***************************************************************************)
(* Instances of Storefront for TLC.                                        *)
(***************************************************************************)
EXTENDS Storefront

CONSTANTS t1, t2, v1, v2, c1, c2, k1, k2

\* k1 comes with the links in auto; k2 is typed.
Percentage(value, cap, agents) ==
    [kind |-> "percentage", value |-> value, cap |-> cap, minimum |-> 0,
     products |-> Variants, agents |-> agents, newOnly |-> FALSE,
     perCustomer |-> 1, active |-> TRUE]
Fixed(value, minimum, products, newOnly) ==
    [kind |-> "fixed", value |-> value, cap |-> None, minimum |-> minimum,
     products |-> products, agents |-> Codes \cup {None}, newOnly |-> newOnly,
     perCustomer |-> 1, active |-> TRUE]
Quantity(a, b) == [v \in Variants |-> IF v = v1 THEN a ELSE b]

Base == [tabs |-> {t1}, page |-> "checkout", account |-> TRUE, loggedIn |-> FALSE,
         published |-> Variants, agentOnly |-> {}, stock |-> Quantity(2, 2),
         price |-> Quantity(3, 2), prices |-> [v \in Variants |-> {}], caps |-> {},
         refs |-> {}, retyped |-> {}, typed |-> Coupons,
         items |-> [t \in Tabs |-> Quantity(1, 1)],
         code |-> [t \in Tabs |-> IF t = t1 THEN c1 ELSE c2],
         auto |-> [c \in Codes |-> None],
         coupon |-> [k \in Coupons |-> IF k = k1 THEN Percentage(50, None, {c1})
                                                 ELSE Fixed(4, 3, {v1}, FALSE)],
         env |-> {}]

\* One article, one tab: carts, validation, prices.
Carts == [Base EXCEPT !.page = "shop", !.published = {v1},
            !.stock = Quantity(1, 0), !.prices[v1] = {2, 3},
            !.items = [t \in Tabs |-> Quantity(0, 0)], !.code = [t \in Tabs |-> None],
            !.refs = {c1}, !.typed = {},
            !.env = {"shop", "reprice", "unpublish"}]

\* One tab: referral codes and coupons, typed and automatic, and their edits.
Forms(auto, retyped, env) ==
    [Base EXCEPT !.loggedIn = TRUE, !.auto = [c \in Codes |-> IF c = c1 THEN auto ELSE None],
                 !.caps = {1, None}, !.agentOnly = {v1},
                 !.retyped = retyped, !.env = env]

\* Two tabs ordering at once, with and without a common article.
Together(known, second) ==
    [Base EXCEPT !.tabs = Tabs, !.account = known,
                 !.items = [t \in Tabs |-> IF t = t1 THEN Quantity(1, 0) ELSE second],
                 !.coupon = [k \in Coupons |-> Fixed(1, 0, Variants, k = k1)],
                 !.env = {"unpaid"}]

Shops == {Carts, Forms(k1, {c2, None}, {"coupons"}),
          Forms(k1, {c1, c2, None}, {"links"}),
          Forms(k2, {c1, c2, None}, {"fail", "unpaid"}),
          Together(TRUE, Quantity(1, 1)), Together(TRUE, Quantity(0, 1)),
          Together(FALSE, Quantity(0, 1))}

=============================================================================

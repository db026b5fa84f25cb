----------------------------- MODULE ShopProofs -----------------------------
(***************************************************************************)
(* Proofs about the two sides of the shop.                                 *)
(*                                                                         *)
(* The storefront: a coupon is not used more often than it allows per      *)
(* customer, since usages are counted in the step that writes the order;   *)
(* an attribution stays, since of two orders with a common variant only    *)
(* one is between what it reads and what it writes; and nobody pays more   *)
(* than was shown, since until something is edited a form shows what the   *)
(* server would compute.                                                   *)
(*                                                                         *)
(* The administration of a product: by one invariant of the tables, the    *)
(* pages and the requests under way, for any number of each.               *)
(***************************************************************************)
EXTENDS MCShop, SequenceTheorems, FiniteSetTheorems, TLAPS

-----------------------------------------------------------------------------
(* The orders of a customer *)

\* The orders are a list of records, whatever else they say.
Listed == {orders[i] : i \in DOMAIN orders}
OrdersListed ==
    /\ orders \in Seq(Listed)
    /\ \A i \in DOMAIN orders : {"status", "coupon"} \subseteq DOMAIN orders[i]

UsageInv ==
    /\ scope \in Scopes /\ coupon \in [Coupons -> CouponRow]
    /\ OrdersListed /\ OncePerCustomer

LEMMA FunctionIsList ==
    ASSUME NEW S, NEW n \in Nat, NEW f \in [1..n -> S]
    PROVE  f \in Seq(S)
BY SeqDef

LEMMA AppendedShape ==
    ASSUME NEW S, NEW s \in Seq(S), NEW e \in S
    PROVE  /\ Append(s, e) \in [1..(Len(s) + 1) -> S] /\ Append(s, e)[Len(s) + 1] = e
           /\ \A i \in 1..Len(s) : Append(s, e)[i] = s[i]
  <1>1. Append(s, e) \in Seq(S) /\ Len(Append(s, e)) = Len(s) + 1
    BY AppendProperties
  <1>2. Append(s, e)[Len(s) + 1] = e /\ \A i \in 1..Len(s) : Append(s, e)[i] = s[i]
    BY AppendProperties
  <1> QED
    BY <1>1, <1>2, LenProperties

LEMMA ListShape ==
    ASSUME OrdersListed
    PROVE  Len(orders) \in Nat /\ DOMAIN orders = 1..Len(orders)
BY LenProperties DEF OrdersListed

LEMMA AppendShape ==
    ASSUME OrdersListed, NEW o, {"status", "coupon"} \subseteq DOMAIN o, orders' = Append(orders, o)
    PROVE  /\ OrdersListed'
           /\ DOMAIN orders' = DOMAIN orders \cup {Len(orders) + 1}
           /\ Len(orders) + 1 \notin DOMAIN orders
           /\ orders'[Len(orders) + 1] = o
           /\ \A i \in DOMAIN orders : orders'[i] = orders[i]
  <1> DEFINE S == Listed \cup {o}
  <1>1. orders \in Seq(S)
    BY SeqMonotonic DEF OrdersListed
  <1>2. Len(orders) \in Nat /\ DOMAIN orders = 1..Len(orders)
    BY ListShape
  <1> HIDE DEF S
  <1>3. o \in S
    BY DEF S
  <1>5. /\ orders' \in [1..(Len(orders) + 1) -> S] /\ orders'[Len(orders) + 1] = o
        /\ \A i \in 1..Len(orders) : orders'[i] = orders[i]
    BY <1>1, <1>3, AppendedShape
  <1>6. orders' \in [1..(Len(orders) + 1) -> Listed']
    BY <1>5 DEF Listed
  <1>7. orders' \in Seq(Listed')
    <2>1. Len(orders) + 1 \in Nat
      BY <1>2
    <2> QED
      BY <1>6, <2>1, FunctionIsList
  <1>8. DOMAIN orders' = DOMAIN orders \cup {Len(orders) + 1} /\ Len(orders) + 1 \notin DOMAIN orders
    BY <1>2, <1>5
  <1>9. \A i \in DOMAIN orders' : {"status", "coupon"} \subseteq DOMAIN orders'[i]
    BY <1>2, <1>5, <1>8 DEF OrdersListed
  <1> QED
    BY <1>2, <1>5, <1>7, <1>8, <1>9 DEF OrdersListed

\* An order's status is set by its number.
LEMMA StatusShape ==
    ASSUME OrdersListed, NEW i, NEW s, orders' = [orders EXCEPT ![i].status = s]
    PROVE  /\ OrdersListed' /\ DOMAIN orders' = DOMAIN orders
           /\ \A j \in DOMAIN orders : orders'[j].coupon = orders[j].coupon
           /\ \A j \in DOMAIN orders : orders'[j].status = IF j = i THEN s ELSE orders[j].status
  <1>1. Len(orders) \in Nat /\ DOMAIN orders = 1..Len(orders) /\ orders \in [1..Len(orders) -> Listed]
    BY ListShape, LenProperties DEF OrdersListed
  <1>2. PICK o : o = [orders[i] EXCEPT !.status = s]
    OBVIOUS
  <1>3. orders' = [orders EXCEPT ![i] = o]
    BY <1>2
  <1>4. /\ DOMAIN orders' = DOMAIN orders /\ orders' \in [1..Len(orders) -> Listed']
        /\ \A j \in DOMAIN orders : orders'[j] = IF j = i THEN o ELSE orders[j]
    BY <1>1, <1>3 DEF Listed
  <1>5. i \in DOMAIN orders => DOMAIN o = DOMAIN orders[i] /\ o.status = s /\ o.coupon = orders[i].coupon
    BY <1>2 DEF OrdersListed
  <1>6. orders' \in Seq(Listed')
    BY <1>1, <1>4, FunctionIsList
  <1> QED
    BY <1>4, <1>5, <1>6 DEF OrdersListed

LEMMA UsagesShape ==
    ASSUME OrdersListed, NEW k
    PROVE  IsFiniteSet(Usages(k)) /\ Cardinality(Usages(k)) \in Nat
  <1>1. IsFiniteSet(1..Len(orders)) /\ Usages(k) \in SUBSET (1..Len(orders))
    BY ListShape, FS_Interval DEF Usages
  <1> QED
    BY <1>1, FS_Subset, FS_CardinalityType

\* An edit of a coupon leaves how often a customer may use it.
LEMMA PatchShape ==
    ASSUME UsageInv, NEW k \in Coupons, PatchCoupon(k) \/ SwitchCoupon(k)
    PROVE  /\ coupon' \in [Coupons -> CouponRow]
           /\ \A j \in Coupons : coupon'[j].perCustomer = coupon[j].perCustomer
  <1>1. coupon[k] \in CouponRow /\ coupon \in [Coupons -> CouponRow] /\ scope.caps \subseteq Int \cup {None}
    BY ScopesAssumption DEF UsageInv
  <1>2. \E row \in CouponRow : row.perCustomer = coupon[k].perCustomer /\ coupon' = [coupon EXCEPT ![k] = row]
    <2>1. CASE PatchCoupon(k)
      <3>1. PICK cap \in Int \cup {None} : coupon' = [coupon EXCEPT ![k].cap = cap]
        BY <1>1, <2>1 DEF PatchCoupon
      <3>2. PICK row : row = [coupon[k] EXCEPT !.cap = cap]
        OBVIOUS
      <3>3. row \in CouponRow /\ row.perCustomer = coupon[k].perCustomer
        BY <1>1, <3>2 DEF CouponRow
      <3>4. coupon' = [coupon EXCEPT ![k] = row]
        BY <3>1, <3>2
      <3> QED
        BY <3>3, <3>4
    <2>2. CASE SwitchCoupon(k)
      <3>2. PICK row : row = [coupon[k] EXCEPT !.active = ~@]
        OBVIOUS
      <3>3. row \in CouponRow /\ row.perCustomer = coupon[k].perCustomer
        BY <1>1, <3>2 DEF CouponRow
      <3>4. coupon' = [coupon EXCEPT ![k] = row]
        BY <2>2, <3>2 DEF SwitchCoupon
      <3> QED
        BY <3>3, <3>4
    <2> QED
      BY <2>1, <2>2
  <1> QED
    BY <1>1, <1>2

\* No usage is added without looking.
LEMMA NoUsageAdded ==
    ASSUME UsageInv, OrdersListed', scope' = scope, coupon' \in [Coupons -> CouponRow],
           \A k \in Coupons : coupon'[k].perCustomer = coupon[k].perCustomer,
           \A k \in Coupons : Usages(k)' \subseteq Usages(k)
    PROVE  UsageInv'
  <1>1. ASSUME NEW k \in Coupons
        PROVE  Cardinality(Usages(k))' <= coupon'[k].perCustomer
    <2>1. /\ Cardinality(Usages(k)) \in Nat /\ Cardinality(Usages(k)') \in Nat
          /\ Cardinality(Usages(k)') <= Cardinality(Usages(k))
      BY UsagesShape, FS_Subset, FS_CardinalityType DEF UsageInv
    <2>2. coupon[k].perCustomer \in Nat /\ Cardinality(Usages(k)) <= coupon[k].perCustomer
      BY DEF UsageInv, CouponRow, OncePerCustomer
    <2> QED
      BY <2>1, <2>2
  <1> QED
    BY <1>1 DEF UsageInv, OncePerCustomer

LEMMA CommitKeepsUsage ==
    ASSUME UsageInv, NEW t, Commit(t)
    PROVE  UsageInv'
  <1>1. UNCHANGED <<scope, coupon>> /\ OrdersListed
    BY DEF Commit, shopVars, UsageInv
  <1>2. CASE UNCHANGED orders
    BY <1>1, <1>2, NoUsageAdded DEF UsageInv, OrdersListed, Listed, Usages
  <1>3. CASE orders' = Append(orders, NewOrder(request[t]))
    <2>1. PICK o : o = NewOrder(request[t])
      OBVIOUS
    <2>2. {"status", "coupon"} \subseteq DOMAIN o /\ o.coupon = Granted(request[t]) /\ o.status = "pending"
      BY <2>1 DEF NewOrder
    <2>3. PICK n : n = Len(orders) + 1
      OBVIOUS
    <2>4. /\ OrdersListed' /\ DOMAIN orders' = DOMAIN orders \cup {n}
          /\ n \notin DOMAIN orders /\ orders'[n] = o
          /\ \A i \in DOMAIN orders : orders'[i] = orders[i]
      BY <1>1, <1>3, <2>1, <2>2, <2>3, AppendShape
    <2>5. ASSUME NEW k \in Coupons
          PROVE  Cardinality(Usages(k))' <= coupon'[k].perCustomer
      <3>1. IsFiniteSet(Usages(k)) /\ Cardinality(Usages(k)) \in Nat /\ coupon[k].perCustomer \in Nat
        BY <1>1, UsagesShape DEF UsageInv, CouponRow
      <3>2. CASE o.coupon # k
        <4>1. Usages(k)' = Usages(k)
          BY <2>4, <3>2 DEF Usages
        <4> QED
          BY <1>1, <4>1 DEF UsageInv, OncePerCustomer
      <3>3. CASE o.coupon = k
        <4>1. k # None
          BY NamesAssumption
        <4>2. Reservable(request[t]) /\ EffectiveCoupon(request[t]) = k
          BY <2>2, <3>3, <4>1 DEF Granted
        <4>3. Cardinality(Usages(k)) < coupon[k].perCustomer
          BY <4>2 DEF Reservable, Valid, UsageLeft
        <4>4. Usages(k)' = Usages(k) \cup {n} /\ n \notin Usages(k)
          BY <2>2, <2>4, <3>3 DEF Usages
        <4>5. Cardinality(Usages(k)') = Cardinality(Usages(k)) + 1
          BY <3>1, <4>4, FS_AddElement
        <4> QED
          BY <1>1, <3>1, <4>3, <4>5
      <3> QED
        BY <3>2, <3>3
    <2> QED
      BY <1>1, <2>4, <2>5 DEF UsageInv, OncePerCustomer
  <1> QED
    BY <1>2, <1>3 DEF Commit, customerVars

LEMMA NextUsage ==
    ASSUME UsageInv, [Next]_vars
    PROVE  UsageInv'
  <1>1. OrdersListed /\ coupon \in [Coupons -> CouponRow]
    BY DEF UsageInv
  <1>2. CASE UNCHANGED <<scope, coupon, orders>>
    BY <1>2, NoUsageAdded DEF UsageInv, OrdersListed, Listed, Usages
  <1>3. ASSUME NEW i, NEW s, orders[i].status = "pending", UNCHANGED <<scope, coupon>>,
               orders' = [orders EXCEPT ![i].status = s]
        PROVE  UsageInv'
    <2>1. /\ OrdersListed' /\ DOMAIN orders' = DOMAIN orders
          /\ \A j \in DOMAIN orders : orders'[j].coupon = orders[j].coupon
          /\ \A j \in DOMAIN orders : orders'[j].status = IF j = i THEN s ELSE orders[j].status
      BY <1>1, <1>3, StatusShape
    <2>2. \A k \in Coupons : Usages(k)' \subseteq Usages(k)
      BY <1>3, <2>1 DEF Usages
    <2> QED
      BY <1>1, <1>3, <2>1, <2>2, NoUsageAdded
  <1>4. ASSUME NEW k \in Coupons, PatchCoupon(k) \/ SwitchCoupon(k)
        PROVE  UsageInv'
    <2>1. UNCHANGED <<scope, orders>>
      BY <1>4 DEF PatchCoupon, SwitchCoupon, customerVars
    <2> QED
      BY <1>4, <2>1, PatchShape, NoUsageAdded DEF UsageInv, OrdersListed, Listed, Usages
  <1>5. CASE Administration
    BY <1>2, <1>4, <1>5 DEF Administration, Reprice, Unpublish, SwitchLink, customerVars
  <1>6. ASSUME NEW t \in scope.tabs, Browse(t) \/ Begin(t)
        PROVE  UsageInv'
    BY <1>2, <1>6 DEF Browse, Begin, Load, BackToCart, ProceedToCheckout, CartValidated, AddItem, ChangeLine,
       EditReferral, AskCoupon, ReferralResolved, AutoPreviewed, CouponAnswered, RemoveCoupon, Submit, Return,
       Poll, shopVars, customerVars
  <1>7. ASSUME NEW t \in scope.tabs, Answered(t) \/ Pay(t)
        PROVE  UsageInv'
    <2>1. UNCHANGED <<scope, coupon>>
      BY <1>7 DEF Answered, Pay, shopVars
    <2>2. UNCHANGED orders \/ \E i : \E s : orders[i].status = "pending" /\ orders' = [orders EXCEPT ![i].status = s]
      BY <1>7 DEF Answered, Pay
    <2> QED
      BY <1>2, <1>3, <2>1, <2>2
  <1>8. ASSUME NEW i \in DOMAIN orders, Fail(i)
        PROVE  UsageInv'
    BY <1>3, <1>8 DEF Fail, shopVars
  <1>9. ASSUME NEW t \in scope.tabs, Commit(t)
        PROVE  UsageInv'
    BY <1>9, CommitKeepsUsage
  <1> QED
    BY <1>2, <1>5, <1>6, <1>7, <1>8, <1>9 DEF Next, vars, shopVars, customerVars

LEMMA InitUsage == Init => UsageInv
  <1> SUFFICES ASSUME Init PROVE UsageInv
    OBVIOUS
  <1>1. scope \in Scopes /\ coupon \in [Coupons -> CouponRow] /\ orders = <<>>
    BY ScopesAssumption DEF Init
  <1>2. DOMAIN orders = {} /\ orders \in Seq(Listed)
    BY <1>1, EmptySeq
  <1>3. \A k \in Coupons : Usages(k) = {} /\ coupon[k].perCustomer \in Nat
    BY <1>1, <1>2 DEF Usages, CouponRow
  <1> QED
    <2>1. Cardinality({}) = 0
      BY FS_EmptySet
    <2>2. OncePerCustomer
      BY <1>3, <2>1 DEF OncePerCustomer
    <2> QED
      BY <1>1, <1>2, <2>2 DEF UsageInv, OrdersListed

\* A customer never holds more usages of a coupon than it allows per customer, however
\* many tabs order at once: a usage is only added by a transaction that has just counted
\* them under the lock of the coupon's row.
THEOREM OncePerCustomerHolds == Spec => []OncePerCustomer
  <1>1. UsageInv => OncePerCustomer
    BY DEF UsageInv
  <1> QED
    BY <1>1, InitUsage, NextUsage, PTL DEF Spec

-----------------------------------------------------------------------------
(* The attribution of a buyer *)

\* A form that was opened with the cart of the scope has it still.
AtCheckout(form, t) ==
    /\ {"page", "cart", "validating"} \subseteq DOMAIN form
    /\ form.page \in {"checkout", "paying", "success"} /\ form.validating = None
    /\ form.page = "checkout" => Items(form.cart) = scope.items[t]

Committing(t) == request[t] # None /\ request[t].pc = "commit"

\* What a request asks for is the cart of the scope; while it holds the locks nobody
\* else does, and it knows whether the buyer has an attribution.
RequestOK(t) ==
    request[t] # None =>
      /\ t \in scope.tabs /\ {"pc", "items", "attributed"} \subseteq DOMAIN request[t]
      /\ request[t].items = scope.items[t]
      /\ request[t].pc = "commit" => request[t].attributed = (buyer # None)

AttributionInv ==
    /\ scope \in Scopes /\ DOMAIN tab = Tabs /\ DOMAIN request = Tabs
    /\ Sharing => /\ \A t \in Tabs : AtCheckout(tab[t], t) /\ RequestOK(t)
                  /\ \A t, u \in Tabs : Committing(t) /\ Committing(u) => t = u

\* A form in which something else was filled in.
SameCart(f, g) ==
    /\ {"page", "cart", "validating"} \subseteq DOMAIN f /\ {"page", "cart", "validating"} \subseteq DOMAIN g
    /\ f.page = g.page /\ f.cart = g.cart /\ f.validating = g.validating

LEMMA FilledIn ==
    ASSUME NEW f, {"page", "cart", "validating"} \subseteq DOMAIN f, NEW x, NEW y, NEW z
    PROVE  /\ SameCart([f EXCEPT !.code = x, !.resolving = y], f)
           /\ SameCart([f EXCEPT !.auto = x, !.previewing = y], f)
           /\ SameCart([f EXCEPT !.asking = x], f)
           /\ SameCart([f EXCEPT !.resolving = x], f)
           /\ SameCart([f EXCEPT !.previewing = x], f)
           /\ SameCart([f EXCEPT !.previewing = x, !.applied = y, !.source = z], f)
           /\ SameCart([f EXCEPT !.asking = x, !.applied = y, !.source = z], f)
           /\ SameCart([f EXCEPT !.applied = x, !.source = y], f)
           /\ SameCart([f EXCEPT !.submitting = x], f)
           /\ SameCart([f EXCEPT !.fresh = x], f)
BY DEF SameCart

LEMMA FilledInTwice ==
    ASSUME NEW f, NEW g, NEW h, SameCart(f, g), SameCart(g, h) PROVE SameCart(f, h)
BY DEF SameCart

LEMMA AutoShape ==
    ASSUME NEW f, {"page", "cart", "validating"} \subseteq DOMAIN f, NEW k
    PROVE  SameCart(SetAuto(f, k), f)
BY FilledIn DEF SetAuto

LEMMA StillAtCheckout ==
    ASSUME NEW f, NEW g, NEW t, AtCheckout(g, t), SameCart(f, g) PROVE AtCheckout(f, t)
BY DEF AtCheckout, SameCart

\* What a tab does with its form alone, without leaving or changing the cart.
LEMMA FormShape ==
    ASSUME AttributionInv, Sharing, NEW t \in scope.tabs,
           \/ \E c \in Codes \cup {None} : EditReferral(t, c)
           \/ \E k \in Coupons : AskCoupon(t, k)
           \/ ReferralResolved(t) \/ AutoPreviewed(t) \/ CouponAnswered(t) \/ RemoveCoupon(t)
    PROVE  \E form : AtCheckout(form, t) /\ tab' = [tab EXCEPT ![t] = form]
  <1>1. {"page", "cart", "validating"} \subseteq DOMAIN tab[t] /\ AtCheckout(tab[t], t)
    BY ScopesAssumption DEF AttributionInv, AtCheckout
  <1>2. ASSUME NEW f, SameCart(f, tab[t]), tab' = [tab EXCEPT ![t] = f]
        PROVE  \E form : AtCheckout(form, t) /\ tab' = [tab EXCEPT ![t] = form]
    BY <1>1, <1>2, StillAtCheckout
  <1>3. ASSUME NEW c, EditReferral(t, c)
        PROVE  \E f : SameCart(f, tab[t]) /\ tab' = [tab EXCEPT ![t] = f]
    <2>1. PICK form : form = [tab[t] EXCEPT !.code = c, !.resolving = (c # None)]
      OBVIOUS
    <2>2. SameCart(form, tab[t]) /\ SameCart(SetAuto(form, None), form)
      <3>1. SameCart(form, tab[t])
        BY <1>1, <2>1 DEF SameCart
      <3> QED
        BY <3>1, AutoShape DEF SameCart
    <2>3. SameCart(SetAuto(form, None), tab[t])
      BY <2>2, FilledInTwice
    <2>4. tab' = [tab EXCEPT ![t] = SetAuto(form, None)] \/ tab' = [tab EXCEPT ![t] = form]
      BY <1>3, <2>1 DEF EditReferral
    <2> QED
      BY <2>2, <2>3, <2>4
  <1>4. ASSUME NEW k, AskCoupon(t, k)
        PROVE  \E f : SameCart(f, tab[t]) /\ tab' = [tab EXCEPT ![t] = f]
    BY <1>1, <1>4, FilledIn DEF AskCoupon
  <1>5. ASSUME ReferralResolved(t)
        PROVE  \E f : SameCart(f, tab[t]) /\ tab' = [tab EXCEPT ![t] = f]
    <2>1. PICK k : tab' = [tab EXCEPT ![t] = SetAuto([tab[t] EXCEPT !.resolving = FALSE], k)]
      BY <1>5 DEF ReferralResolved
    <2>2. PICK f : f = [tab[t] EXCEPT !.resolving = FALSE]
      OBVIOUS
    <2>3. SameCart(f, tab[t])
      BY <1>1, <2>2, FilledIn
    <2>4. SameCart(SetAuto(f, k), tab[t])
      BY <2>3, AutoShape, FilledInTwice DEF SameCart
    <2> QED
      BY <2>1, <2>2, <2>4
  <1>6. ASSUME AutoPreviewed(t)
        PROVE  \E f : SameCart(f, tab[t]) /\ tab' = [tab EXCEPT ![t] = f]
    <2>1. CASE \E p : tab' = [tab EXCEPT ![t].previewing = FALSE, ![t].applied = p, ![t].source = "auto"]
      <3>1. PICK p : tab' = [tab EXCEPT ![t].previewing = FALSE, ![t].applied = p, ![t].source = "auto"]
        BY <2>1
      <3>2. PICK f : f = [tab[t] EXCEPT !.previewing = FALSE, !.applied = p, !.source = "auto"]
        OBVIOUS
      <3>3. tab' = [tab EXCEPT ![t] = f]
        BY <3>1, <3>2
      <3> QED
        BY <1>1, <3>2, <3>3, FilledIn
    <2>2. CASE tab' = [tab EXCEPT ![t].previewing = FALSE]
      BY <1>1, <2>2, FilledIn
    <2> QED
      BY <1>6, <2>1, <2>2 DEF AutoPreviewed
  <1>7. ASSUME CouponAnswered(t)
        PROVE  \E f : SameCart(f, tab[t]) /\ tab' = [tab EXCEPT ![t] = f]
    BY <1>1, <1>7, FilledIn DEF CouponAnswered, ShownCoupon
  <1>8. ASSUME RemoveCoupon(t)
        PROVE  \E f : SameCart(f, tab[t]) /\ tab' = [tab EXCEPT ![t] = f]
    <2>1. PICK f : f = [tab[t] EXCEPT !.applied = None, !.source = None]
      OBVIOUS
    <2>2. tab' = [tab EXCEPT ![t] = f]
      BY <1>8, <2>1 DEF RemoveCoupon
    <2> QED
      BY <1>1, <2>1, <2>2, FilledIn
  <1> QED
    BY <1>2, <1>3, <1>4, <1>5, <1>6, <1>7, <1>8

\* The forms of the tabs after one of them has changed.
LEMMA OneForm ==
    ASSUME AttributionInv, Sharing, NEW t \in scope.tabs, NEW form, AtCheckout(form, t),
           tab' = [tab EXCEPT ![t] = form], UNCHANGED <<scope, buyer, request>>
    PROVE  AttributionInv'
  <1>1. t \in Tabs /\ Sharing' /\ (scope' = scope)
    BY ScopesAssumption DEF AttributionInv, Sharing, May
  <1>2. DOMAIN tab' = Tabs /\ \A u \in Tabs : tab'[u] = IF u = t THEN form ELSE tab[u]
    BY <1>1 DEF AttributionInv
  <1>3. ASSUME NEW u \in Tabs PROVE AtCheckout(tab[u], u)'
    BY <1>1, <1>2 DEF AttributionInv, AtCheckout, Items
  <1>4. ASSUME NEW u \in Tabs PROVE RequestOK(u)' /\ (Committing(u)' <=> Committing(u))
    BY <1>1 DEF AttributionInv, RequestOK, Committing
  <1> QED
    BY <1>1, <1>2, <1>3, <1>4 DEF AttributionInv

LEMMA OutdateShape ==
    ASSUME AttributionInv, Sharing, Outdate, UNCHANGED <<scope, buyer>>
    PROVE  AttributionInv'
  <1>1. Sharing' /\ scope' = scope
    BY DEF Sharing, May
  <1>2. DOMAIN tab' = Tabs /\ DOMAIN request' = Tabs
    BY DEF Outdate
  <1>3. ASSUME NEW u \in Tabs PROVE AtCheckout(tab[u], u)'
    <2>1. AtCheckout(tab[u], u) /\ tab'[u] = [tab[u] EXCEPT !.fresh = FALSE]
      BY <1>3 DEF AttributionInv, Outdate
    <2>2. SameCart(tab'[u], tab[u])
      BY <2>1 DEF AtCheckout, SameCart
    <2> QED
      BY <1>1, <2>1, <2>2 DEF AtCheckout, SameCart, Items
  <1>4. ASSUME NEW u \in Tabs, request'[u] # None
        PROVE  /\ request[u] # None /\ DOMAIN request'[u] = DOMAIN request[u]
               /\ {"pc", "items", "attributed"} \subseteq DOMAIN request[u]
               /\ request'[u].pc = request[u].pc /\ request'[u].items = request[u].items
               /\ request'[u].attributed = request[u].attributed
    <2>1. request[u] # None /\ request'[u] = [request[u] EXCEPT !.fresh = FALSE]
      BY <1>4 DEF Outdate
    <2>2. {"pc", "items", "attributed"} \subseteq DOMAIN request[u]
      BY <2>1 DEF AttributionInv, RequestOK
    <2> QED
      BY <2>1, <2>2
  <1>5. ASSUME NEW u \in Tabs PROVE RequestOK(u)' /\ (Committing(u)' => Committing(u))
    BY <1>1, <1>4 DEF AttributionInv, RequestOK, Committing
  <1> QED
    BY <1>1, <1>2, <1>3, <1>5 DEF AttributionInv

\* A step of one request, that leaves the attribution alone.
LEMMA OneRequest ==
    ASSUME AttributionInv, Sharing, NEW t \in scope.tabs, NEW r, UNCHANGED <<scope, buyer>>,
           DOMAIN tab' = Tabs, \A u \in Tabs : AtCheckout(tab[u], u)',
           request' = [request EXCEPT ![t] = r],
           r # None => /\ {"pc", "items", "attributed"} \subseteq DOMAIN r /\ r.items = scope.items[t]
                       /\ r.pc = "commit" => /\ r.attributed = (buyer # None)
                                             /\ \A u \in Tabs \ {t} : ~Committing(u)
    PROVE  AttributionInv'
  <1>1. Sharing' /\ scope' = scope /\ t \in Tabs
    BY ScopesAssumption DEF AttributionInv, Sharing, May
  <1>2. DOMAIN request' = Tabs /\ \A u \in Tabs : request'[u] = IF u = t THEN r ELSE request[u]
    BY <1>1 DEF AttributionInv
  <1>3. ASSUME NEW u \in Tabs PROVE RequestOK(u)'
    BY <1>1, <1>2 DEF AttributionInv, RequestOK
  <1>4. \A u \in Tabs \ {t} : Committing(u)' <=> Committing(u)
    BY <1>2 DEF Committing
  <1>5. Committing(t)' => \A u \in Tabs \ {t} : ~Committing(u)
    BY <1>1, <1>2 DEF Committing
  <1>6. \A u, v \in Tabs : Committing(u)' /\ Committing(v)' => u = v
    BY <1>1, <1>4, <1>5 DEF AttributionInv
  <1> QED
    BY <1>1, <1>2, <1>3, <1>6 DEF AttributionInv

LEMMA FormsStay ==
    ASSUME AttributionInv, Sharing, UNCHANGED <<scope, tab>>
    PROVE  DOMAIN tab' = Tabs /\ \A u \in Tabs : AtCheckout(tab[u], u)'
BY DEF AttributionInv, AtCheckout, Items

LEMMA FormsAfter ==
    ASSUME AttributionInv, Sharing, NEW t \in scope.tabs, NEW form, AtCheckout(form, t),
           tab' = [tab EXCEPT ![t] = form], scope' = scope
    PROVE  DOMAIN tab' = Tabs /\ \A u \in Tabs : AtCheckout(tab[u], u)'
  <1>1. t \in Tabs
    BY ScopesAssumption DEF AttributionInv
  <1>2. DOMAIN tab' = Tabs /\ \A u \in Tabs : tab'[u] = IF u = t THEN form ELSE tab[u]
    BY <1>1 DEF AttributionInv
  <1>3. ASSUME NEW u \in Tabs PROVE AtCheckout(tab[u], u)'
    <2>1. CASE u = t
      <3>1. tab'[u] = form
        BY <1>2, <2>1
      <3> QED
        BY <2>1, <3>1 DEF AtCheckout, Items
    <2>2. CASE u # t
      <3>1. tab'[u] = tab[u] /\ AtCheckout(tab[u], u)
        BY <1>2, <2>2 DEF AttributionInv
      <3> QED
        BY <3>1 DEF AtCheckout, Items
    <2> QED
      BY <2>1, <2>2
  <1> QED
    BY <1>2, <1>3

LEMMA SubmitKeeps ==
    ASSUME AttributionInv, Sharing, NEW t \in scope.tabs, Submit(t)
    PROVE  AttributionInv'
  <1>1. AtCheckout(tab[t], t) /\ tab[t].page = "checkout"
    BY ScopesAssumption DEF AttributionInv, Submit
  <1>2. PICK form : form = [tab[t] EXCEPT !.submitting = TRUE]
    OBVIOUS
  <1>3. AtCheckout(form, t) /\ tab' = [tab EXCEPT ![t] = form]
    BY <1>1, <1>2, FilledIn, StillAtCheckout DEF AtCheckout, Submit
  <1>4. PICK r : /\ request' = [request EXCEPT ![t] = r]
                 /\ {"pc", "items", "attributed"} \subseteq DOMAIN r
                 /\ r.pc = "begin" /\ r.items = Items(tab[t].cart)
    <2>1. PICK items, known : items = Items(tab[t].cart) /\ known = FALSE
      OBVIOUS
    <2>2. PICK r : r = [pc |-> "begin", items |-> items, code |-> tab[t].code,
                        coupon |-> IF tab[t].source = "manual" THEN tab[t].applied.coupon ELSE None,
                        shown |-> Shown(t), source |-> tab[t].source, fresh |-> tab[t].fresh,
                        known |-> known, attributed |-> known, link |-> None, order |-> 0]
      OBVIOUS
    <2>3. request' = [request EXCEPT ![t] = r]
      BY <2>1, <2>2 DEF Submit
    <2>4. {"pc", "items", "attributed"} \subseteq DOMAIN r /\ r.pc = "begin" /\ r.items = items
      BY <2>2
    <2> QED
      BY <2>1, <2>3, <2>4
  <1>5. r.items = scope.items[t] /\ UNCHANGED <<scope, buyer>>
    BY <1>1, <1>4 DEF AtCheckout, Submit, shopVars, customerVars
  <1> QED
    BY <1>3, <1>4, <1>5, FormsAfter, OneRequest

\* Whoever locks a variant that every order has finds nobody else at it.
LEMMA BeginKeeps ==
    ASSUME AttributionInv, Sharing, NEW t \in scope.tabs, Begin(t)
    PROVE  AttributionInv'
  <1>1. /\ t \in Tabs /\ request[t] # None /\ request[t].items = scope.items[t]
        /\ {"pc", "items", "attributed"} \subseteq DOMAIN request[t]
        /\ UNCHANGED <<scope, buyer, tab>>
    BY ScopesAssumption DEF AttributionInv, RequestOK, Begin, shopVars, customerVars, browserVars
  <1>2. ASSUME NEW u \in Tabs \ {t} PROVE ~Committing(u)
    <2> SUFFICES ASSUME Committing(u) PROVE FALSE
      OBVIOUS
    <2>1. u \in scope.tabs /\ request[u].items = scope.items[u]
      BY DEF AttributionInv, RequestOK, Committing
    <2>2. PICK v \in In(scope.items[t]) : v \in In(scope.items[u])
      BY <2>1 DEF Sharing
    <2>3. request[u].items[v] > 0 /\ v \in In(request[t].items)
      BY <1>1, <2>1, <2>2 DEF In
    <2> QED
      BY <2>3 DEF Begin, Unlocked, LockedBy, Committing
  <1>3. PICK r : /\ request' = [request EXCEPT ![t] = r] /\ r.items = request[t].items
                 /\ {"pc", "items", "attributed"} \subseteq DOMAIN r
                 /\ r.pc = "commit" => r.attributed = (buyer # None)
    <2>1. CASE Refuse(t)
      <3>1. PICK r : r = [request[t] EXCEPT !.pc = "answer"]
        OBVIOUS
      <3>2. request' = [request EXCEPT ![t] = r]
        BY <2>1, <3>1 DEF Refuse
      <3>3. r.pc = "answer" /\ r.items = request[t].items /\ DOMAIN r = DOMAIN request[t]
        BY <1>1, <3>1
      <3> QED
        BY <1>1, <3>2, <3>3
    <2>2. CASE ~Refuse(t)
      <3>1. PICK link : request' = [request EXCEPT ![t].pc = "commit", ![t].known = account,
                                      ![t].attributed = (buyer # None), ![t].link = link]
        BY <2>2 DEF Begin
      <3>2. PICK r : r = [request[t] EXCEPT !.pc = "commit", !.known = account,
                            !.attributed = (buyer # None), !.link = link]
        OBVIOUS
      <3>3. request' = [request EXCEPT ![t] = r]
        BY <3>1, <3>2
      <3>4. /\ r.items = request[t].items /\ DOMAIN r = DOMAIN request[t]
            /\ r.attributed = (buyer # None)
        BY <1>1, <3>2
      <3> QED
        BY <1>1, <3>3, <3>4
    <2> QED
      BY <2>1, <2>2
  <1> QED
    BY <1>1, <1>2, <1>3, FormsStay, OneRequest

\* The attribution that the transaction writes is the buyer's, if there is one.
LEMMA CommitShape ==
    ASSUME AttributionInv, Sharing, NEW t \in scope.tabs, Commit(t)
    PROVE  /\ t \in Tabs /\ Committing(t) /\ UNCHANGED <<scope, tab>>
           /\ buyer # None => buyer' = buyer
           /\ \E r : /\ request' = [request EXCEPT ![t] = r] /\ r.pc = "answer"
                     /\ r.items = scope.items[t] /\ {"pc", "items", "attributed"} \subseteq DOMAIN r
  <1>1. /\ t \in Tabs /\ Committing(t) /\ UNCHANGED <<scope, tab>>
    BY ScopesAssumption DEF AttributionInv, Commit, Committing, shopVars, browserVars
  <1>2. /\ request[t].items = scope.items[t] /\ {"pc", "items", "attributed"} \subseteq DOMAIN request[t]
        /\ request[t].attributed = (buyer # None)
    BY <1>1 DEF AttributionInv, RequestOK, Committing
  <1>3. buyer # None => buyer' = buyer
    BY <1>2 DEF Commit, Attributed, customerVars
  <1>4. PICK r : /\ request' = [request EXCEPT ![t] = r]
                 /\ \/ r = [request[t] EXCEPT !.pc = "answer"]
                    \/ r = [request[t] EXCEPT !.pc = "answer", !.order = Len(orders) + 1]
    BY DEF Commit, Refuse
  <1>5. r.pc = "answer" /\ r.items = scope.items[t] /\ {"pc", "items", "attributed"} \subseteq DOMAIN r
    BY <1>2, <1>4
  <1> QED
    BY <1>1, <1>3, <1>4, <1>5

LEMMA CommitKeeps ==
    ASSUME AttributionInv, Sharing, NEW t \in scope.tabs, Commit(t)
    PROVE  AttributionInv'
  <1>1. /\ t \in Tabs /\ Committing(t) /\ UNCHANGED <<scope, tab>> /\ Sharing'
    BY CommitShape DEF Sharing, May
  <1>2. PICK r : /\ request' = [request EXCEPT ![t] = r] /\ r.pc = "answer"
                 /\ r.items = scope.items[t] /\ {"pc", "items", "attributed"} \subseteq DOMAIN r
    BY CommitShape
  <1>3. DOMAIN request' = Tabs /\ \A u \in Tabs : request'[u] = IF u = t THEN r ELSE request[u]
    BY <1>1, <1>2 DEF AttributionInv
  <1>4. \A u \in Tabs \ {t} : ~Committing(u)
    BY <1>1 DEF AttributionInv
  <1>5. \A u \in Tabs : ~Committing(u)'
    BY <1>2, <1>3, <1>4 DEF Committing
  <1>6. ASSUME NEW u \in Tabs PROVE RequestOK(u)'
    BY <1>1, <1>2, <1>3, <1>5 DEF AttributionInv, RequestOK, Committing
  <1> QED
    BY <1>1, <1>3, <1>5, <1>6, FormsStay DEF AttributionInv

LEMMA AnsweredKeeps ==
    ASSUME AttributionInv, Sharing, NEW t \in scope.tabs, Answered(t)
    PROVE  AttributionInv'
  <1>1. AtCheckout(tab[t], t) /\ UNCHANGED <<scope, buyer>> /\ request' = [request EXCEPT ![t] = None]
    BY ScopesAssumption DEF AttributionInv, Answered, shopVars
  <1>2. \/ UNCHANGED tab
        \/ \E form : AtCheckout(form, t) /\ tab' = [tab EXCEPT ![t] = form]
    <2>1. PICK n : n = request[t].order
      OBVIOUS
    <2>2. PICK f : f = [tab[t] EXCEPT !.page = "paying", !.submitting = FALSE, !.order = n]
      OBVIOUS
    <2>3. PICK g : g = [tab[t] EXCEPT !.submitting = FALSE]
      OBVIOUS
    <2>4. AtCheckout(f, t)
      BY <1>1, <2>2 DEF AtCheckout
    <2>5. AtCheckout(g, t)
      BY <1>1, <2>3, FilledIn, StillAtCheckout DEF AtCheckout
    <2>6. UNCHANGED tab \/ tab' = [tab EXCEPT ![t] = f] \/ tab' = [tab EXCEPT ![t] = g]
      BY <2>1, <2>2, <2>3 DEF Answered
    <2> QED
      BY <2>4, <2>5, <2>6
  <1>3. DOMAIN tab' = Tabs /\ \A u \in Tabs : AtCheckout(tab[u], u)'
    BY <1>1, <1>2, FormsStay, FormsAfter
  <1> QED
    BY <1>1, <1>3, OneRequest

\* Leaving the checkout.
LEMMA LeaveShape ==
    ASSUME AttributionInv, Sharing, NEW t \in scope.tabs, Return(t) \/ Poll(t)
    PROVE  \E form : AtCheckout(form, t) /\ tab' = [tab EXCEPT ![t] = form]
  <1>1. AtCheckout(tab[t], t)
    BY ScopesAssumption DEF AttributionInv
  <1>2. CASE Return(t)
    <2>1. PICK form : form = [Opened("success", storage, referral) EXCEPT !.order = tab[t].order]
      OBVIOUS
    <2>2. tab' = [tab EXCEPT ![t] = form]
      BY <1>2, <2>1 DEF Return
    <2>3. AtCheckout(form, t)
      BY <2>1 DEF AtCheckout, Opened
    <2> QED
      BY <2>2, <2>3
  <1>3. CASE Poll(t)
    <2>1. PICK form : form = [tab[t] EXCEPT !.cart = EmptyCart, !.order = 0, !.fresh = FALSE]
      OBVIOUS
    <2>2. tab' = [tab EXCEPT ![t] = form] /\ tab[t].page = "success"
      BY <1>3, <2>1 DEF Poll
    <2>3. AtCheckout(form, t)
      BY <1>1, <2>1, <2>2 DEF AtCheckout
    <2> QED
      BY <2>2, <2>3
  <1> QED
    BY <1>2, <1>3

\* Whatever is shared, the scope stays and every tab has a form and a request.
LEMMA TabsStay ==
    ASSUME scope \in Scopes, DOMAIN tab = Tabs, DOMAIN request = Tabs, [Next]_vars
    PROVE  scope' = scope /\ DOMAIN tab' = Tabs /\ DOMAIN request' = Tabs
  <1>1. CASE Administration
    BY <1>1 DEF Administration, Reprice, Unpublish, SwitchLink, PatchCoupon, SwitchCoupon, Outdate, browserVars
  <1>2. ASSUME NEW t \in scope.tabs, Browse(t)
        PROVE  scope' = scope /\ DOMAIN tab' = Tabs /\ DOMAIN request' = Tabs
    BY <1>2 DEF Browse, Load, BackToCart, ProceedToCheckout, CartValidated, AddItem, ChangeLine, SetCart,
       EditReferral, AskCoupon, ReferralResolved, AutoPreviewed, CouponAnswered, RemoveCoupon, Submit, Return,
       Poll, shopVars, browserVars
  <1>3. ASSUME NEW t \in scope.tabs, Begin(t) \/ Commit(t) \/ Answered(t) \/ Pay(t)
        PROVE  scope' = scope /\ DOMAIN tab' = Tabs /\ DOMAIN request' = Tabs
    BY <1>3 DEF Begin, Commit, Answered, Pay, Refuse, shopVars, browserVars
  <1>4. ASSUME NEW i \in DOMAIN orders, Fail(i)
        PROVE  scope' = scope /\ DOMAIN tab' = Tabs /\ DOMAIN request' = Tabs
    BY <1>4 DEF Fail, shopVars, browserVars
  <1> QED
    BY <1>1, <1>2, <1>3, <1>4 DEF Next, vars, shopVars, browserVars

LEMMA NothingMoves ==
    ASSUME AttributionInv, UNCHANGED <<scope, buyer, tab, request>>
    PROVE  AttributionInv'
BY DEF AttributionInv, Sharing, May, In, AtCheckout, Items, RequestOK, Committing

LEMMA NextAttribution ==
    ASSUME AttributionInv, [Next]_vars
    PROVE  AttributionInv' /\ (Sharing /\ buyer # None => buyer' = buyer)
  <1>1. scope' = scope /\ DOMAIN tab' = Tabs /\ DOMAIN request' = Tabs /\ (Sharing' <=> Sharing)
    BY TabsStay DEF AttributionInv, Sharing, May, In
  <1>2. CASE ~Sharing
    BY <1>1, <1>2 DEF AttributionInv
  <1>3. CASE Sharing
    <2>1. CASE UNCHANGED <<scope, buyer, tab, request>>
      BY <2>1, NothingMoves
    <2>2. CASE Administration
      BY <1>3, <2>1, <2>2, OutdateShape
         DEF Administration, Reprice, Unpublish, SwitchLink, PatchCoupon, SwitchCoupon, customerVars, browserVars
    <2>3. ASSUME NEW t \in scope.tabs, Browse(t)
          PROVE  AttributionInv' /\ buyer' = buyer
      <3>1. buyer' = buyer
        BY <2>3 DEF Browse, Load, BackToCart, ProceedToCheckout, CartValidated, AddItem, ChangeLine,
           EditReferral, AskCoupon, ReferralResolved, AutoPreviewed, CouponAnswered, RemoveCoupon, Submit,
           Return, Poll, customerVars
      <3>2. tab[t].page # "shop" /\ tab[t].validating = None
        BY <1>3, ScopesAssumption DEF AttributionInv, AtCheckout
      <3>3. \/ \E c \in Codes \cup {None} : EditReferral(t, c)
            \/ \E k \in Coupons : AskCoupon(t, k)
            \/ ReferralResolved(t) \/ AutoPreviewed(t) \/ CouponAnswered(t) \/ RemoveCoupon(t)
            \/ Return(t) \/ Poll(t) \/ Submit(t)
        BY <1>3, <2>3, <3>2
           DEF Sharing, Browse, Load, BackToCart, ProceedToCheckout, CartValidated, AddItem, ChangeLine
      <3>4. CASE Submit(t)
        BY <1>3, <3>1, <3>4, SubmitKeeps
      <3>5. CASE ~Submit(t)
        <4>1. request' = request
          BY <3>3, <3>5 DEF EditReferral, AskCoupon, ReferralResolved, AutoPreviewed, CouponAnswered,
             RemoveCoupon, Return, Poll
        <4>2. PICK form : AtCheckout(form, t) /\ tab' = [tab EXCEPT ![t] = form]
          BY <1>3, <3>3, <3>5, FormShape, LeaveShape
        <4> QED
          BY <1>1, <1>3, <3>1, <4>1, <4>2, OneForm
      <3> QED
        BY <3>4, <3>5
    <2>4. ASSUME NEW t \in scope.tabs, Begin(t)
          PROVE  AttributionInv' /\ buyer' = buyer
      BY <1>3, <2>4, BeginKeeps DEF Begin, customerVars
    <2>5. ASSUME NEW t \in scope.tabs, Commit(t)
          PROVE  AttributionInv' /\ (buyer # None => buyer' = buyer)
      BY <1>3, <2>5, CommitKeeps, CommitShape
    <2>6. ASSUME NEW t \in scope.tabs, Answered(t)
          PROVE  AttributionInv' /\ buyer' = buyer
      BY <1>3, <2>6, AnsweredKeeps DEF Answered
    <2>7. ASSUME \/ \E t \in scope.tabs : Pay(t)
                 \/ \E i \in DOMAIN orders : Fail(i)
          PROVE  UNCHANGED <<scope, buyer, tab, request>>
      BY <2>7 DEF Pay, Fail, shopVars, browserVars
    <2> QED
      BY <2>1, <2>2, <2>3, <2>4, <2>5, <2>6, <2>7
         DEF Next, vars, shopVars, customerVars, browserVars, Administration, Reprice, Unpublish, SwitchLink,
             PatchCoupon, SwitchCoupon
  <1> QED
    BY <1>2, <1>3

LEMMA InitAttribution == Init => AttributionInv
  <1> SUFFICES ASSUME Init PROVE AttributionInv
    OBVIOUS
  <1>1. scope \in Scopes /\ DOMAIN tab = Tabs /\ DOMAIN request = Tabs
    BY DEF Init
  <1>2. ASSUME Sharing, NEW t \in Tabs PROVE AtCheckout(tab[t], t) /\ request[t] = None
    <2>1. scope.page = "checkout" /\ scope.items \in [Tabs -> Quantities]
      BY <1>1, <1>2, ScopesAssumption DEF Sharing
    <2>2. PICK form : form = Opened("checkout", CartOf(scope.items[t]), scope.code[t])
      OBVIOUS
    <2>3. tab[t] = form /\ request[t] = None
      BY <2>1, <2>2 DEF Init
    <2>4. /\ {"page", "cart", "validating"} \subseteq DOMAIN form /\ form.page = "checkout"
          /\ form.validating = None /\ form.cart = CartOf(scope.items[t])
      BY <2>2 DEF Opened
    <2>5. Items(CartOf(scope.items[t])) = scope.items[t]
      BY <2>1 DEF Items, CartOf, Quantities
    <2> QED
      BY <2>3, <2>4, <2>5 DEF AtCheckout
  <1> QED
    BY <1>1, <1>2 DEF AttributionInv, RequestOK, Committing

\* The attribution of the first order is for good: of two orders that share a variant
\* the second waits for the row lock of the first before it reads the account, so what
\* it knows of the attribution is true when it writes.
THEOREM AttributionIsPermanentHolds == Spec => AttributionIsPermanent
  <1>1. AttributionInv /\ [Next]_vars => AttributionInv'
    BY NextAttribution
  <1>2. AttributionInv /\ [Next]_vars => [Sharing /\ buyer # None => buyer' = buyer]_vars
    BY NextAttribution
  <1> QED
    BY <1>1, <1>2, InitAttribution, PTL DEF Spec, AttributionIsPermanent

-----------------------------------------------------------------------------
(***************************************************************************)
(* What an order costs.  PriceInv says of each form and each request that, *)
(* as long as nothing was edited since, what it shows is what the server   *)
(* would compute: the cart's prices are the shop's, and a coupon's preview *)
(* is the amount less the discount.                                        *)
(***************************************************************************)

\* Amount and Discount of given prices and a given coupon.
Cost(p, items) == Total([v \in Variants |-> p[v] * items[v]])
Reduced(p, c, items) ==
    LET eligible == Total([v \in c.products |-> p[v] * items[v]])
        raw == IF c.kind = "fixed" THEN c.value ELSE (eligible * c.value) \div 100
        capped == IF c.cap = None THEN raw ELSE Min({raw, c.cap})
    IN  IF eligible <= 0 THEN 0 ELSE Min({capped, eligible})

\* What a form shows is what the prices p and the coupons c make of it.
Priced(f, p, c) ==
    /\ \A v \in Variants : f.cart[v].n > 0 => f.cart[v].price = p[v]
    /\ f.applied # None =>
         f.applied.total = Cost(p, Items(f.cart)) - Reduced(p, c[f.applied.coupon], Items(f.cart))

PricedForm(f, p, c) ==
    /\ f \in Tab
    /\ f.previewing => f.auto \in Coupons
    /\ f.validating # None => f.page = "shop"
    /\ f.submitting => f.page = "checkout"
    /\ f.source = None => f.applied = None
    /\ f.source = "manual" => f.applied # None
    /\ f.page = "checkout" /\ f.fresh => Priced(f, p, c)

\* A request carries the typed coupon only, and what the form showed.
PricedRequest(r, p, c) ==
    /\ r \in Request
    /\ r.source = None => r.coupon = None
    /\ r.source = "manual" => r.coupon \in Coupons
    /\ r.fresh /\ r.source = None => r.shown = Cost(p, r.items)
    /\ r.fresh /\ r.source = "manual" =>
         r.shown = Cost(p, r.items) - Reduced(p, c[r.coupon], r.items)

\* No cap is below nothing: the form of a new coupon is checked for it, a later edit of
\* the cap alone is not.
CapsAreAmounts ==
    \A s \in Scopes : /\ s.caps \subseteq Nat \cup {None}
                      /\ \A k \in Coupons : s.coupon[k].cap \in Nat \cup {None}

PricedOrder(o) ==
    /\ o \in Order /\ o.total >= 0
    /\ CapsAreAmounts => (o.fresh /\ o.source # "auto" => o.total <= o.shown)

Sums(c) == c \in CouponRow /\ (CapsAreAmounts => c.cap \in Nat \cup {None})

ShopTyped ==
    /\ scope \in Scopes /\ price \in [Variants -> Nat] /\ published \subseteq Variants
    /\ active \subseteq Codes /\ coupon \in [Coupons -> CouponRow] /\ \A k \in Coupons : Sums(coupon[k])
    /\ account \in BOOLEAN /\ buyer \in Codes \cup {None}
    /\ storage \in Cart /\ referral \in Codes \cup {None}
FormsPriced == tab \in [Tabs -> Tab] /\ \A t \in Tabs : PricedForm(tab[t], price, coupon)
RequestsPriced ==
    /\ request \in [Tabs -> Request \cup {None}]
    /\ \A t \in Tabs : request[t] # None => PricedRequest(request[t], price, coupon)
OrdersPriced == orders \in Seq(Order) /\ \A i \in DOMAIN orders : PricedOrder(orders[i])

PriceInv == ShopTyped /\ FormsPriced /\ RequestsPriced /\ OrdersPriced

-----------------------------------------------------------------------------
(* Sums *)

\* The units that a sum counts.
Units(part) == UNION {{x} \X (1..part[x]) : x \in DOMAIN part}

LEMMA UnitsFinite ==
    ASSUME NEW part, IsFiniteSet(DOMAIN part), \A x \in DOMAIN part : part[x] \in Int
    PROVE  IsFiniteSet(Units(part))
<1> DEFINE D == DOMAIN part
           Of1(x) == {x} \X (1..part[x])
           g == [x \in D |-> Of1(x)]
           R == {Of1(x) : x \in D}
<1>1. g \in Surjection(D, R)  BY DEF Surjection
<1>2. IsFiniteSet(R)  BY <1>1, FS_Surjection
<1>3. ASSUME NEW T \in R PROVE IsFiniteSet(T)
  <2>1. PICK x \in D : T = {x} \X (1..part[x])  OBVIOUS
  <2> PICK n \in Int : n = part[x]  BY <2>1
  <2>2. IsFiniteSet({x})  BY FS_Singleton
  <2>3. IsFiniteSet(1..n)
    <3>1. 1 \in Int /\ n \in Int  OBVIOUS
    <3> QED  BY <3>1, FS_Interval
  <2> QED  BY <2>1, <2>2, <2>3, FS_Product
<1>4. Units(part) = UNION R  BY DEF Units
<1> QED  BY <1>2, <1>3, <1>4, FS_UNION

LEMMA TotalShape ==
    ASSUME NEW part, IsFiniteSet(DOMAIN part), \A x \in DOMAIN part : part[x] \in Int
    PROVE  Total(part) \in Nat
<1>1. Total(part) = Cardinality(Units(part))  BY DEF Total, Units
<1> QED  BY <1>1, UnitsFinite, FS_CardinalityType

\* A sum of more is more.
LEMMA TotalGrows ==
    ASSUME NEW some, NEW all, IsFiniteSet(DOMAIN all), \A x \in DOMAIN all : all[x] \in Int,
           DOMAIN some \subseteq DOMAIN all, \A x \in DOMAIN some : some[x] = all[x]
    PROVE  Total(some) <= Total(all) /\ Total(some) \in Nat /\ Total(all) \in Nat
<1>1. Total(some) = Cardinality(Units(some)) /\ Total(all) = Cardinality(Units(all))
  BY DEF Total, Units
<1>2. Units(some) \subseteq Units(all)
  <2> SUFFICES ASSUME NEW u \in Units(some) PROVE u \in Units(all)  OBVIOUS
  <2>1. PICK x \in DOMAIN some : u \in {x} \X (1..some[x])  BY DEF Units
  <2>2. x \in DOMAIN all /\ u \in {x} \X (1..all[x])  BY <2>1
  <2> QED  BY <2>2 DEF Units
<1>3. IsFiniteSet(Units(all))  BY UnitsFinite
<1> QED  BY <1>1, <1>2, <1>3, FS_Subset, FS_CardinalityType

LEMMA MinShape ==
    ASSUME NEW a \in Int, NEW b \in Int
    PROVE  Min({a, b}) \in {a, b} /\ Min({a, b}) <= a /\ Min({a, b}) <= b
<1>1. \E m \in {a, b} : \A y \in {a, b} : m <= y  OBVIOUS
<1> QED  BY <1>1 DEF Min

LEMMA ProductShape == ASSUME NEW a \in Nat, NEW b \in Nat PROVE a * b \in Nat
OBVIOUS

\* A discount is at most the amount, and no cap makes it less than nothing.
LEMMA ReducedShape ==
    ASSUME NEW p \in [Variants -> Nat], NEW c, Sums(c), NEW items \in Quantities
    PROVE  /\ Cost(p, items) \in Nat /\ Reduced(p, c, items) \in Int
           /\ Reduced(p, c, items) <= Cost(p, items)
           /\ CapsAreAmounts => Reduced(p, c, items) >= 0
<1> DEFINE some == [v \in c.products |-> p[v] * items[v]]
           all == [v \in Variants |-> p[v] * items[v]]
<1>0. c \in CouponRow  BY DEF Sums
<1>1. \A v \in Variants : all[v] \in Int
  <2>1. ASSUME NEW v \in Variants PROVE p[v] * items[v] \in Int
    <3>1. p[v] \in Int /\ items[v] \in Int  BY NamesAssumption DEF Quantities
    <3> QED  BY <3>1
  <2> QED  BY <2>1
<1>2. c.products \subseteq Variants  BY <1>0 DEF CouponRow
<1>3. \A v \in DOMAIN some : some[v] = all[v]  BY <1>2
<1>4. Total(some) <= Total(all) /\ Total(some) \in Nat /\ Total(all) \in Nat
  <2>1. DOMAIN all = Variants /\ DOMAIN some = c.products  OBVIOUS
  <2> HIDE DEF some, all
  <2> QED  BY <1>1, <1>2, <1>3, <2>1, TotalGrows, NamesAssumption
<1>5. Cost(p, items) = Total(all)  BY DEF Cost
<1> PICK eligible \in Nat : eligible = Total(some)  BY <1>4
<1> PICK raw : raw = IF c.kind = "fixed" THEN c.value ELSE (eligible * c.value) \div 100  OBVIOUS
<1> PICK capped : capped = IF c.cap = None THEN raw ELSE Min({raw, c.cap})  OBVIOUS
<1> HIDE DEF some, all
<1>6. Reduced(p, c, items) = IF eligible <= 0 THEN 0 ELSE Min({capped, eligible})
  BY DEF Reduced, some
<1>7. raw \in Nat
  <2>1. c.value \in Nat  BY <1>0 DEF CouponRow
  <2>2. eligible * c.value \in Nat  BY <2>1, ProductShape
  <2> HIDE DEF some, all
  <2> QED  BY <2>1, <2>2
<1>8. capped \in Int /\ (CapsAreAmounts => capped \in Nat)
  <2>1. c.cap \in Int \cup {None} /\ (CapsAreAmounts => c.cap \in Nat \cup {None})
    BY <1>0 DEF CouponRow, Sums
  <2>2. CASE c.cap = None  BY <1>7, <2>2
  <2>3. CASE c.cap # None
    <3> PICK b \in Int : b = c.cap  BY <2>1, <2>3
    <3>1. capped = Min({raw, b})  BY <2>3
    <3>2. Min({raw, b}) \in {raw, b}
      <4>1. raw \in Int /\ b \in Int  BY <1>7
      <4> QED  BY <4>1, MinShape
    <3> QED  BY <1>7, <2>1, <2>3, <3>1, <3>2
  <2> QED  BY <2>2, <2>3
<1>9. CASE eligible <= 0
  <2>1. Reduced(p, c, items) = 0  BY <1>6, <1>9
  <2> HIDE DEF some, all
  <2> QED  BY <1>4, <1>5, <2>1
<1>10. CASE ~(eligible <= 0)
  <2>1. Reduced(p, c, items) = Min({capped, eligible})  BY <1>6, <1>10
  <2> PICK m : m = Min({capped, eligible})  OBVIOUS
  <2>2. m \in {capped, eligible} /\ m <= eligible
    <3>1. capped \in Int /\ eligible \in Int  BY <1>8
    <3> QED  BY <3>1, MinShape
  <2> HIDE DEF some, all
  <2> QED  BY <1>4, <1>5, <1>8, <2>1, <2>2
<1> QED  BY <1>9, <1>10

LEMMA AmountShape ==
    ASSUME NEW items
    PROVE  /\ Amount(items, Variants) = Cost(price, items)
           /\ \A k : Discount(k, items) = Reduced(price, coupon[k], items)
BY DEF Amount, Cost, Discount, Reduced

\* A cart at the shop's prices costs what its items cost.
LEMMA CartShape ==
    ASSUME NEW p \in [Variants -> Nat], NEW cart \in Cart
    PROVE  /\ Items(cart) \in Quantities
           /\ (\A v \in Variants : cart[v].n > 0 => cart[v].price = p[v]) =>
                Total([v \in Variants |-> cart[v].price * cart[v].n]) = Cost(p, Items(cart))
           /\ Total([v \in Variants |-> cart[v].price * cart[v].n]) \in Nat
<1>0. \A v \in Variants : cart[v].n \in 0..MaxQuantity /\ cart[v].price \in Nat
  BY DEF Cart, Line
<1>1. Items(cart) \in Quantities  BY <1>0 DEF Items, Quantities
<1>2. ASSUME \A v \in Variants : cart[v].n > 0 => cart[v].price = p[v]
      PROVE  [v \in Variants |-> cart[v].price * cart[v].n] = [v \in Variants |-> p[v] * Items(cart)[v]]
  <2>1. ASSUME NEW v \in Variants PROVE cart[v].price * cart[v].n = p[v] * Items(cart)[v]
    <3>1. Items(cart)[v] = cart[v].n  BY DEF Items
    <3> PICK n \in Nat, a \in Nat, b \in Nat : n = cart[v].n /\ a = cart[v].price /\ b = p[v]
      BY <1>0, NamesAssumption
    <3>2. CASE n = 0  BY <3>1, <3>2
    <3>3. CASE n # 0  BY <1>2, <3>1, <3>3
    <3> QED  BY <3>2, <3>3
  <2> QED  BY <2>1
<1>3. Total([v \in Variants |-> cart[v].price * cart[v].n]) \in Nat
  <2> DEFINE part == [v \in Variants |-> cart[v].price * cart[v].n]
  <2>1. DOMAIN part = Variants  OBVIOUS
  <2>2. ASSUME NEW v \in Variants PROVE part[v] \in Int
    <3>1. cart[v].price \in Int /\ cart[v].n \in Int  BY <1>0, NamesAssumption
    <3> QED  BY <3>1
  <2> HIDE DEF part
  <2>3. Total(part) \in Nat  BY <2>1, <2>2, TotalShape, NamesAssumption
  <2> QED  BY <2>3 DEF part
<1> QED  BY <1>1, <1>2, <1>3 DEF Cost

-----------------------------------------------------------------------------
(* One tab, one request, the orders *)

\* One form changes, and the cart and the code in the browser with it.
LEMMA OneFormPriced ==
    ASSUME PriceInv, NEW t, NEW form, PricedForm(form, price, coupon),
           tab' = [tab EXCEPT ![t] = form], storage' \in Cart, referral' \in Codes \cup {None},
           UNCHANGED <<shopVars, account, buyer>>
    PROVE  ShopTyped' /\ FormsPriced'
<1>1. ShopTyped'  BY DEF PriceInv, ShopTyped, shopVars
<1>2. tab' \in [Tabs -> Tab] /\ \A u \in Tabs : tab'[u] = IF u = t THEN form ELSE tab[u]
  BY DEF PriceInv, FormsPriced, PricedForm
<1>3. price' = price /\ coupon' = coupon  BY DEF shopVars
<1>4. \A u \in Tabs : PricedForm(tab'[u], price', coupon')
  BY <1>2, <1>3 DEF PriceInv, FormsPriced
<1> QED  BY <1>1, <1>2, <1>4 DEF FormsPriced

LEMMA FormsStayPriced ==
    ASSUME PriceInv, UNCHANGED <<price, coupon, tab>> PROVE FormsPriced'
<1>1. \A u \in Tabs : PricedForm(tab'[u], price', coupon')
  BY DEF PriceInv, FormsPriced
<1> QED  BY <1>1 DEF PriceInv, FormsPriced

LEMMA RequestsStayPriced ==
    ASSUME PriceInv, UNCHANGED <<price, coupon, request>> PROVE RequestsPriced'
<1>1. \A u \in Tabs : request'[u] # None => PricedRequest(request'[u], price', coupon')
  BY DEF PriceInv, RequestsPriced
<1> QED  BY <1>1 DEF PriceInv, RequestsPriced

LEMMA OneRequestPriced ==
    ASSUME PriceInv, NEW t, NEW r, r # None => PricedRequest(r, price, coupon),
           request' = [request EXCEPT ![t] = r], UNCHANGED <<price, coupon>>
    PROVE  RequestsPriced'
<1>1. request' \in [Tabs -> Request \cup {None}] /\ \A u \in Tabs : request'[u] = IF u = t THEN r ELSE request[u]
  BY DEF PriceInv, RequestsPriced, PricedRequest
<1>2. \A u \in Tabs : request'[u] # None => PricedRequest(request'[u], price', coupon')
  BY <1>1 DEF PriceInv, RequestsPriced
<1> QED  BY <1>1, <1>2 DEF RequestsPriced

LEMMA OrdersStayPriced == ASSUME PriceInv, UNCHANGED orders PROVE OrdersPriced'
BY DEF PriceInv, OrdersPriced

LEMMA OrdersShape ==
    ASSUME PriceInv
    PROVE  Len(orders) \in Nat /\ DOMAIN orders = 1..Len(orders) /\ orders \in [1..Len(orders) -> Order]
BY LenProperties DEF PriceInv, OrdersPriced

LEMMA OrderAdded ==
    ASSUME PriceInv, NEW o, PricedOrder(o), orders' = Append(orders, o)
    PROVE  OrdersPriced'
<1>1. o \in Order /\ orders \in Seq(Order)  BY DEF PricedOrder, PriceInv, OrdersPriced
<1>2. /\ orders' \in [1..(Len(orders) + 1) -> Order] /\ orders'[Len(orders) + 1] = o
      /\ \A i \in 1..Len(orders) : orders'[i] = orders[i]
  BY <1>1, AppendedShape
<1>3. orders' \in Seq(Order)
  <2>1. Len(orders) + 1 \in Nat  BY OrdersShape
  <2> QED  BY <1>2, <2>1, FunctionIsList
<1>4. ASSUME NEW i \in DOMAIN orders' PROVE PricedOrder(orders'[i])
  <2>1. i = Len(orders) + 1 \/ i \in 1..Len(orders)  BY <1>2, OrdersShape
  <2>2. \A j \in 1..Len(orders) : PricedOrder(orders[j])  BY OrdersShape DEF PriceInv, OrdersPriced
  <2> QED  BY <1>2, <2>1, <2>2
<1> QED  BY <1>3, <1>4 DEF OrdersPriced

LEMMA OrderSettled ==
    ASSUME PriceInv, NEW i, NEW s \in {"paid", "failed"}, orders' = [orders EXCEPT ![i].status = s]
    PROVE  OrdersPriced'
<1>1. Len(orders) \in Nat /\ DOMAIN orders = 1..Len(orders) /\ orders \in [1..Len(orders) -> Order]
  BY OrdersShape
<1> PICK o : o = [orders[i] EXCEPT !.status = s]  OBVIOUS
<1>2. orders' = [orders EXCEPT ![i] = o]  OBVIOUS
<1>3. i \in DOMAIN orders => o \in Order /\ PricedOrder(o)
  <2> SUFFICES ASSUME i \in DOMAIN orders PROVE o \in Order /\ PricedOrder(o)  OBVIOUS
  <2>1. orders[i] \in Order /\ PricedOrder(orders[i])  BY DEF PriceInv, OrdersPriced, PricedOrder
  <2>2. /\ o \in Order /\ o.total = orders[i].total /\ o.shown = orders[i].shown
        /\ o.fresh = orders[i].fresh /\ o.source = orders[i].source
    BY <2>1 DEF Order
  <2> QED  BY <2>1, <2>2 DEF PricedOrder
<1>4. orders' \in [1..Len(orders) -> Order]  BY <1>1, <1>2, <1>3
<1>5. orders' \in Seq(Order)  BY <1>1, <1>4, FunctionIsList
<1>6. ASSUME NEW j \in DOMAIN orders' PROVE PricedOrder(orders'[j])
  BY <1>1, <1>2, <1>3 DEF PriceInv, OrdersPriced
<1> QED  BY <1>5, <1>6 DEF OrdersPriced

-----------------------------------------------------------------------------
(* The administration *)

\* Once something was edited nothing that is shown counts as fresh.
LEMMA OutdateKeepsPrices ==
    ASSUME PriceInv, Outdate, ShopTyped', UNCHANGED orders
    PROVE  PriceInv'
<1>1. FormsPriced'
  <2>1. ASSUME NEW t \in Tabs PROVE PricedForm(tab'[t], price', coupon')
    <3> PICK f : f = [tab[t] EXCEPT !.fresh = FALSE]  OBVIOUS
    <3>1. PricedForm(tab[t], price, coupon)  BY DEF PriceInv, FormsPriced
    <3>2. f \in Tab /\ ~f.fresh /\ f.previewing = tab[t].previewing /\ f.auto = tab[t].auto
          /\ f.validating = tab[t].validating /\ f.submitting = tab[t].submitting /\ f.page = tab[t].page
          /\ f.source = tab[t].source /\ f.applied = tab[t].applied
      BY <3>1 DEF PricedForm, Tab
    <3>3. tab'[t] = f  BY DEF Outdate
    <3> QED  BY <3>1, <3>2, <3>3 DEF PricedForm
  <2>2. tab' \in [Tabs -> Tab]  BY <2>1 DEF Outdate, PricedForm
  <2> QED  BY <2>1, <2>2 DEF FormsPriced
<1>2. RequestsPriced'
  <2>1. ASSUME NEW t \in Tabs, request'[t] # None PROVE PricedRequest(request'[t], price', coupon')
    <3>0. request[t] # None /\ request'[t] = [request[t] EXCEPT !.fresh = FALSE]
      BY <2>1 DEF Outdate
    <3> PICK r : r = [request[t] EXCEPT !.fresh = FALSE]  OBVIOUS
    <3>1. PricedRequest(request[t], price, coupon)  BY <3>0 DEF PriceInv, RequestsPriced
    <3>2. r \in Request /\ ~r.fresh /\ r.source = request[t].source /\ r.coupon = request[t].coupon
      BY <3>1 DEF PricedRequest, Request
    <3> QED  BY <3>0, <3>1, <3>2 DEF PricedRequest
  <2>2. request' = [t \in Tabs |-> request'[t]]  BY DEF Outdate
  <2>3. \A t \in Tabs : request'[t] \in Request \cup {None}  BY <2>1 DEF PricedRequest
  <2>4. request' \in [Tabs -> Request \cup {None}]  BY <2>2, <2>3
  <2> QED  BY <2>1, <2>4 DEF RequestsPriced
<1> QED  BY <1>1, <1>2, OrdersStayPriced DEF PriceInv

LEMMA AdministrationKeepsPrices ==
    ASSUME PriceInv, Administration PROVE PriceInv'
<1>0. /\ ShopTyped /\ scope \in Scopes /\ price \in [Variants -> Nat] /\ coupon \in [Coupons -> CouponRow]
      /\ \A k \in Coupons : Sums(coupon[k])
  BY DEF PriceInv, ShopTyped
<1>1. ASSUME NEW v \in Variants, Reprice(v) PROVE PriceInv'
  <2>1. PICK p \in scope.prices[v] : price' = [price EXCEPT ![v] = p]  BY <1>1 DEF Reprice
  <2>2. scope.prices \in [Variants -> SUBSET Nat]  BY <1>0, ScopesAssumption
  <2>3. price' \in [Variants -> Nat]  BY <1>0, <2>1, <2>2
  <2>4. ShopTyped'  BY <1>0, <1>1, <2>3 DEF ShopTyped, Reprice, customerVars
  <2> QED  BY <1>1, <2>4, OutdateKeepsPrices DEF Reprice, customerVars
<1>2. ASSUME \/ \E v \in Variants : Unpublish(v)
             \/ \E c \in Codes : SwitchLink(c)
      PROVE  PriceInv'
  <2>1. UNCHANGED <<scope, price, coupon, customerVars, browserVars, request>>
    BY <1>2 DEF Unpublish, SwitchLink
  <2>2. published' \subseteq Variants /\ active' \subseteq Codes
    BY <1>0, <1>2 DEF ShopTyped, Unpublish, SwitchLink
  <2>3. ShopTyped'  BY <1>0, <2>1, <2>2 DEF ShopTyped, customerVars, browserVars
  <2> QED  BY <2>1, <2>3, FormsStayPriced, RequestsStayPriced, OrdersStayPriced
         DEF PriceInv, customerVars, browserVars
<1>3. ASSUME NEW k \in Coupons, PatchCoupon(k) \/ SwitchCoupon(k) PROVE PriceInv'
  <2>1. scope.caps \subseteq Int \cup {None} /\ (CapsAreAmounts => scope.caps \subseteq Nat \cup {None})
    BY <1>0, ScopesAssumption DEF CapsAreAmounts
  <2>2. coupon[k] \in CouponRow /\ Sums(coupon[k])  BY <1>0 DEF Sums
  <2>3. \E row : Sums(row) /\ coupon' = [coupon EXCEPT ![k] = row]
    <3>1. CASE PatchCoupon(k)
      <4>1. PICK cap \in scope.caps : coupon' = [coupon EXCEPT ![k].cap = cap]
        BY <3>1 DEF PatchCoupon
      <4> PICK row : row = [coupon[k] EXCEPT !.cap = cap]  OBVIOUS
      <4>2. row \in CouponRow /\ row.cap = cap  BY <2>1, <2>2 DEF CouponRow
      <4>3. coupon' = [coupon EXCEPT ![k] = row]  BY <4>1
      <4> QED  BY <2>1, <4>2, <4>3 DEF Sums
    <3>2. CASE SwitchCoupon(k)
      <4> PICK row : row = [coupon[k] EXCEPT !.active = ~@]  OBVIOUS
      <4>2. row \in CouponRow /\ row.cap = coupon[k].cap  BY <2>2 DEF CouponRow
      <4>3. coupon' = [coupon EXCEPT ![k] = row]  BY <3>2 DEF SwitchCoupon
      <4> QED  BY <2>2, <4>2, <4>3 DEF Sums
    <3> QED  BY <1>3, <3>1, <3>2
  <2>4. coupon' \in [Coupons -> CouponRow] /\ \A j \in Coupons : Sums(coupon'[j])
    BY <1>0, <2>3 DEF Sums
  <2>5. UNCHANGED <<scope, price, published, active, customerVars, storage, referral>> /\ Outdate
    BY <1>3 DEF PatchCoupon, SwitchCoupon
  <2>6. ShopTyped'  BY <1>0, <2>4, <2>5 DEF ShopTyped, customerVars
  <2> QED  BY <2>5, <2>6, OutdateKeepsPrices DEF customerVars
<1> QED  BY <1>1, <1>2, <1>3 DEF Administration

-----------------------------------------------------------------------------
(* A tab *)

LEMMA EmptyCartShape == EmptyCart \in Cart
BY NamesAssumption DEF EmptyCart, Cart, Line

\* A page that was just loaded, and a checkout page that was just opened.
LEMMA OpenedShape ==
    ASSUME NEW view \in {"shop", "checkout", "success"}, NEW cart \in Cart, NEW c \in Codes \cup {None}
    PROVE  /\ Opened(view, cart, c) \in Tab
           /\ Opened(view, cart, c).page = view /\ Opened(view, cart, c).cart = cart
           /\ Opened(view, cart, c).validating = None /\ ~Opened(view, cart, c).submitting
           /\ ~Opened(view, cart, c).previewing
           /\ Opened(view, cart, c).source = None /\ Opened(view, cart, c).applied = None
BY DEF Opened, Tab

LEMMA FormIsTyped ==
    ASSUME PriceInv, NEW t \in Tabs, NEW view \in {"shop", "checkout"}
    PROVE  /\ Form(t, view) \in Tab
           /\ Form(t, view).page = view /\ Form(t, view).cart = tab[t].cart
           /\ Form(t, view).validating = None /\ ~Form(t, view).submitting
           /\ ~Form(t, view).previewing
           /\ Form(t, view).source = None /\ Form(t, view).applied = None
<1>1. tab[t] \in Tab /\ referral \in Codes \cup {None}
  BY DEF PriceInv, FormsPriced, PricedForm, ShopTyped
<1> PICK on \in BOOLEAN : on = (view = "checkout" /\ referral # None)  OBVIOUS
<1>2. Form(t, view) = [tab[t] EXCEPT !.page = view, !.validating = None, !.code = referral,
                         !.resolving = on, !.auto = None, !.previewing = FALSE, !.asking = None,
                         !.applied = None, !.source = None, !.submitting = FALSE]
  BY DEF Form
<1> PICK f : f = tab[t]  OBVIOUS
<1> PICK g : g = Form(t, view)  OBVIOUS
<1> PICK c : c = referral  OBVIOUS
<1>3. f \in Tab /\ c \in Codes \cup {None}  BY <1>1
<1>4. g = [f EXCEPT !.page = view, !.validating = None, !.code = c, !.resolving = on, !.auto = None,
             !.previewing = FALSE, !.asking = None, !.applied = None, !.source = None,
             !.submitting = FALSE]
  BY <1>2
<1>5. /\ g.page = view /\ g.cart = f.cart /\ g.validating = None /\ ~g.submitting
      /\ ~g.previewing /\ g.source = None /\ g.applied = None
  BY <1>3, <1>4 DEF Tab
<1>6. g \in Tab  BY <1>3, <1>4 DEF Tab
<1> QED  BY <1>5, <1>6

LEMMA LoadKeepsPrices ==
    ASSUME PriceInv, NEW t \in Tabs, Load(t) \/ BackToCart(t)
    PROVE  PriceInv'
<1>0. UNCHANGED <<shopVars, customerVars, request>>  BY DEF Load, BackToCart
<1>1. storage \in Cart /\ referral \in Codes \cup {None} /\ scope \in Scopes
  BY DEF PriceInv, ShopTyped
<1>2. CASE Load(t)
  <2>1. PICK c \in scope.refs \cup {referral}, cart \in {storage, EmptyCart}, view \in {"shop", "checkout"} :
          /\ referral' = c /\ storage' = cart
          /\ tab' = [tab EXCEPT ![t] = [Opened(view, cart, c) EXCEPT !.fresh = FALSE]]
    BY <1>2 DEF Load
  <2>2. c \in Codes \cup {None} /\ cart \in Cart
    BY <1>1, <2>1, ScopesAssumption, EmptyCartShape
  <2> PICK g : g = Opened(view, cart, c)  OBVIOUS
  <2> PICK form : form = [g EXCEPT !.fresh = FALSE]  OBVIOUS
  <2>3. g \in Tab /\ g.validating = None /\ ~g.submitting /\ ~g.previewing /\ g.source = None /\ g.applied = None
    BY <2>2, OpenedShape
  <2>4. PricedForm(form, price, coupon)
    <3>1. /\ form \in Tab /\ form.validating = None /\ ~form.submitting /\ ~form.previewing
          /\ form.source = None /\ form.applied = None /\ ~form.fresh
      BY <2>3 DEF Tab
    <3> QED  BY <3>1, NamesAssumption DEF PricedForm
  <2> QED  BY <1>0, <2>1, <2>2, <2>4, OneFormPriced, RequestsStayPriced, OrdersStayPriced
         DEF PriceInv, shopVars, customerVars
<1>3. CASE BackToCart(t)
  <2> PICK form : form = Form(t, "shop")  OBVIOUS
  <2>1. PricedForm(form, price, coupon)
    <3>1. /\ form \in Tab /\ form.validating = None /\ ~form.submitting /\ ~form.previewing
          /\ form.source = None /\ form.applied = None /\ form.page = "shop"
      BY FormIsTyped
    <3> QED  BY <3>1, NamesAssumption DEF PricedForm
  <2>2. tab' = [tab EXCEPT ![t] = form] /\ UNCHANGED <<storage, referral>>  BY <1>3 DEF BackToCart
  <2> QED  BY <1>0, <1>1, <2>1, <2>2, OneFormPriced, RequestsStayPriced, OrdersStayPriced
         DEF PriceInv, shopVars, customerVars
<1> QED  BY <1>2, <1>3

LEMMA CartKeepsPrices ==
    ASSUME PriceInv, NEW t \in Tabs,
           (\E v \in Variants : AddItem(t, v) \/ ChangeLine(t, v)) \/ ProceedToCheckout(t)
    PROVE  PriceInv'
<1>0. UNCHANGED <<shopVars, customerVars, request, referral>>
  BY DEF AddItem, ChangeLine, ProceedToCheckout
<1>1. storage \in Cart /\ referral \in Codes \cup {None} /\ scope \in Scopes
  BY DEF PriceInv, ShopTyped
<1>2. PricedForm(tab[t], price, coupon) /\ tab[t] \in Tab /\ tab[t].cart \in Cart
  <2>1. PricedForm(tab[t], price, coupon)  BY DEF PriceInv, FormsPriced
  <2> QED  BY <2>1 DEF PricedForm, Tab
<1>3. ASSUME NEW cart \in Cart, SetCart(t, cart) PROVE PriceInv'
  <2> PICK form : form = [tab[t] EXCEPT !.cart = cart, !.fresh = FALSE]  OBVIOUS
  <2>1. tab' = [tab EXCEPT ![t] = form] /\ storage' = cart  BY <1>3 DEF SetCart
  <2>2. PricedForm(form, price, coupon)
    <3>1. /\ form \in Tab /\ ~form.fresh /\ form.validating = tab[t].validating
          /\ form.submitting = tab[t].submitting /\ form.previewing = tab[t].previewing
          /\ form.auto = tab[t].auto /\ form.source = tab[t].source /\ form.applied = tab[t].applied
          /\ form.page = tab[t].page
      BY <1>2 DEF Tab
    <3> QED  BY <1>2, <3>1 DEF PricedForm
  <2> QED  BY <1>0, <1>1, <2>1, <2>2, OneFormPriced, RequestsStayPriced, OrdersStayPriced
         DEF PriceInv, shopVars, customerVars
<1>4. ASSUME NEW v \in Variants, NEW line \in Line PROVE [tab[t].cart EXCEPT ![v] = line] \in Cart
  BY <1>2 DEF Cart
<1>5. ASSUME NEW v \in Variants, AddItem(t, v) PROVE PriceInv'
  <2>1. tab[t].cart[v] \in Line  BY <1>2 DEF Cart
  <2>2. PICK p : /\ p \in scope.prices[v] \/ p = tab[t].cart[v].price
                 /\ SetCart(t, [tab[t].cart EXCEPT ![v] = [n |-> tab[t].cart[v].n + 1, price |-> p]])
    BY <1>5 DEF AddItem
  <2>3. p \in Nat
    <3>1. scope.prices \in [Variants -> SUBSET Nat]  BY <1>1, ScopesAssumption
    <3> QED  BY <2>1, <2>2, <3>1 DEF Line
  <2> PICK n : n = tab[t].cart[v].n + 1  OBVIOUS
  <2>4. n \in 0..MaxQuantity
    <3>1. tab[t].cart[v].n \in 0..MaxQuantity  BY <2>1 DEF Line
    <3>2. tab[t].cart[v].n < MaxQuantity  BY <1>5 DEF AddItem
    <3> QED  BY <3>1, <3>2, NamesAssumption
  <2>5. [n |-> n, price |-> p] \in Line  BY <2>3, <2>4 DEF Line
  <2> QED  BY <1>3, <1>4, <2>2, <2>5
<1>6. ASSUME NEW v \in Variants, ChangeLine(t, v) PROVE PriceInv'
  <2>1. tab[t].cart[v] \in Line  BY <1>2 DEF Cart
  <2>2. CASE \E n \in 1..MaxQuantity : SetCart(t, [tab[t].cart EXCEPT ![v].n = n])
    <3>1. PICK n \in 1..MaxQuantity : SetCart(t, [tab[t].cart EXCEPT ![v].n = n])  BY <2>2
    <3> PICK line : line = [tab[t].cart[v] EXCEPT !.n = n]  OBVIOUS
    <3>2. line \in Line  BY <2>1, <3>1, NamesAssumption DEF Line
    <3>3. [tab[t].cart EXCEPT ![v].n = n] = [tab[t].cart EXCEPT ![v] = line]  OBVIOUS
    <3> QED  BY <1>3, <1>4, <3>1, <3>2, <3>3
  <2>3. CASE SetCart(t, [tab[t].cart EXCEPT ![v] = [n |-> 0, price |-> 0]])
    <3>1. [n |-> 0, price |-> 0] \in Line  BY NamesAssumption DEF Line
    <3> QED  BY <1>3, <1>4, <2>3, <3>1
  <2> QED  BY <1>6, <2>2, <2>3 DEF ChangeLine
<1>7. ASSUME ProceedToCheckout(t) PROVE PriceInv'
  <2> PICK form : form = [tab[t] EXCEPT !.validating = tab[t].cart]  OBVIOUS
  <2>1. tab' = [tab EXCEPT ![t] = form] /\ tab[t].page = "shop" /\ storage' = storage
    BY <1>7 DEF ProceedToCheckout
  <2>2. PricedForm(form, price, coupon)
    <3>1. /\ form \in Tab /\ form.fresh = tab[t].fresh /\ form.page = "shop"
          /\ form.submitting = tab[t].submitting /\ form.previewing = tab[t].previewing
          /\ form.auto = tab[t].auto /\ form.source = tab[t].source /\ form.applied = tab[t].applied
      BY <1>2, <2>1 DEF Tab
    <3> QED  BY <1>2, <2>1, <3>1 DEF PricedForm
  <2> QED  BY <1>0, <1>1, <2>1, <2>2, OneFormPriced, RequestsStayPriced, OrdersStayPriced
         DEF PriceInv, shopVars, customerVars
<1> QED  BY <1>5, <1>6, <1>7

\* What the shop says of a cart has the shop's prices.
LEMMA ValidatedShape ==
    ASSUME PriceInv, NEW line \in Line, NEW v \in Variants
    PROVE  /\ Validated(line, v) \in Line
           /\ Validated(line, v).n > 0 => Validated(line, v).price = price[v]
<1>1. price[v] \in Nat /\ scope \in Scopes  BY DEF PriceInv, ShopTyped
<1>2. Available(v) \in Int
  <2> DEFINE open == {i \in DOMAIN orders : orders[i].status # "failed"}
             part == [i \in open |-> orders[i].items[v]]
  <2>1. IsFiniteSet(open)
    <3>1. IsFiniteSet(1..Len(orders)) /\ open \in SUBSET (1..Len(orders))  BY OrdersShape, FS_Interval
    <3> QED  BY <3>1, FS_Subset
  <2>2. ASSUME NEW i \in open PROVE part[i] \in Int
    <3>1. orders[i] \in Order  BY OrdersShape
    <3>2. orders[i].items \in Quantities  BY <3>1 DEF Order
    <3> QED  BY <3>2, NamesAssumption DEF Quantities
  <2>3. DOMAIN part = open  OBVIOUS
  <2>4. Available(v) = scope.stock[v] - Total(part)  BY DEF Available
  <2>5. scope.stock[v] \in Int  BY <1>1, ScopesAssumption
  <2> HIDE DEF part, open
  <2>6. Total(part) \in Nat  BY <2>1, <2>2, <2>3, TotalShape
  <2> QED  BY <2>4, <2>5, <2>6
<1>3. line.n \in 0..MaxQuantity  BY DEF Line
<1>4. CASE line.n = 0 \/ v \notin published \/ Available(v) <= 0
  <2>1. Validated(line, v) = [n |-> 0, price |-> 0]  BY <1>4 DEF Validated
  <2> QED  BY <2>1, NamesAssumption DEF Line
<1>5. CASE ~(line.n = 0 \/ v \notin published \/ Available(v) <= 0)
  <2> PICK a \in Int, n \in Int : a = Available(v) /\ n = line.n  BY <1>2, <1>3
  <2> PICK m : m = Min({n, a})  OBVIOUS
  <2>1. m \in {n, a} /\ m <= n  BY MinShape
  <2>2. m \in 0..MaxQuantity  BY <1>3, <1>5, <2>1, NamesAssumption
  <2>3. Validated(line, v) = [n |-> m, price |-> price[v]]  BY <1>5 DEF Validated
  <2> QED  BY <1>1, <2>2, <2>3 DEF Line
<1> QED  BY <1>4, <1>5

LEMMA CartValidatedKeepsPrices ==
    ASSUME PriceInv, NEW t \in Tabs, CartValidated(t) PROVE PriceInv'
<1>0. UNCHANGED <<shopVars, customerVars, request, referral>>  BY DEF CartValidated
<1>1. storage \in Cart /\ referral \in Codes \cup {None}  BY DEF PriceInv, ShopTyped
<1>2. PricedForm(tab[t], price, coupon) /\ tab[t] \in Tab
  BY DEF PriceInv, FormsPriced, PricedForm
<1> PICK sent : sent = tab[t].validating  OBVIOUS
<1> PICK next : next = [v \in Variants |-> Validated(sent[v], v)]  OBVIOUS
<1>3. sent # None /\ sent \in Cart /\ tab[t].page = "shop"
  <2>1. sent # None  BY DEF CartValidated
  <2> QED  BY <1>2, <2>1 DEF PricedForm, Tab
<1>4. next \in Cart /\ \A v \in Variants : next[v].n > 0 => next[v].price = price[v]
  <2>1. \A v \in Variants : sent[v] \in Line  BY <1>3 DEF Cart
  <2> QED  BY <2>1, ValidatedShape DEF Cart
<1>5. CASE tab' = [tab EXCEPT ![t].cart = next, ![t].validating = None] /\ storage' = next
  <2> PICK form : form = [tab[t] EXCEPT !.cart = next, !.validating = None]  OBVIOUS
  <2>1. tab' = [tab EXCEPT ![t] = form]  BY <1>5
  <2>2. PricedForm(form, price, coupon)
    <3>1. /\ form \in Tab /\ form.validating = None /\ form.page = "shop"
          /\ form.submitting = tab[t].submitting /\ form.previewing = tab[t].previewing
          /\ form.auto = tab[t].auto /\ form.source = tab[t].source /\ form.applied = tab[t].applied
      BY <1>2, <1>3, <1>4 DEF Tab
    <3> QED  BY <1>2, <1>3, <3>1 DEF PricedForm
  <2> QED  BY <1>0, <1>1, <1>4, <1>5, <2>1, <2>2, OneFormPriced, RequestsStayPriced, OrdersStayPriced
         DEF PriceInv, shopVars, customerVars
<1>6. CASE /\ next = sent /\ storage' = storage
           /\ tab' = [tab EXCEPT ![t] = [Form(t, "checkout") EXCEPT !.fresh = (tab[t].cart = sent)]]
  <2> PICK g : g = Form(t, "checkout")  OBVIOUS
  <2> PICK same \in BOOLEAN : same = (tab[t].cart = sent)  OBVIOUS
  <2> PICK form : form = [g EXCEPT !.fresh = same]  OBVIOUS
  <2>1. /\ g \in Tab /\ g.page = "checkout" /\ g.cart = tab[t].cart /\ g.validating = None
        /\ ~g.submitting /\ ~g.previewing /\ g.source = None /\ g.applied = None
    BY FormIsTyped
  <2>2. tab' = [tab EXCEPT ![t] = form]  BY <1>6
  <2>3. /\ form \in Tab /\ form.page = "checkout" /\ form.cart = tab[t].cart /\ form.validating = None
        /\ ~form.submitting /\ ~form.previewing /\ form.source = None /\ form.applied = None
        /\ form.fresh = same
    BY <2>1 DEF Tab
  <2>4. form.fresh => Priced(form, price, coupon)
    <3>1. SUFFICES ASSUME form.fresh PROVE Priced(form, price, coupon)  OBVIOUS
    <3>2. tab[t].cart = next  BY <1>6, <2>3, <3>1
    <3>3. form.cart = next /\ form.applied = None  BY <2>3, <3>2
    <3> QED  BY <1>4, <3>3 DEF Priced
  <2>5. PricedForm(form, price, coupon)  BY <2>3, <2>4, NamesAssumption DEF PricedForm
  <2> QED  BY <1>0, <1>1, <1>6, <2>2, <2>5, OneFormPriced, RequestsStayPriced, OrdersStayPriced
         DEF PriceInv, shopVars, customerVars
<1>7. CASE tab' = [tab EXCEPT ![t].validating = None] /\ storage' = storage
  <2> PICK form : form = [tab[t] EXCEPT !.validating = None]  OBVIOUS
  <2>1. tab' = [tab EXCEPT ![t] = form]  BY <1>7
  <2>2. PricedForm(form, price, coupon)
    <3>1. /\ form \in Tab /\ form.validating = None /\ form.page = "shop"
          /\ form.submitting = tab[t].submitting /\ form.previewing = tab[t].previewing
          /\ form.auto = tab[t].auto /\ form.source = tab[t].source /\ form.applied = tab[t].applied
      BY <1>2, <1>3 DEF Tab
    <3> QED  BY <1>2, <1>3, <3>1 DEF PricedForm
  <2> QED  BY <1>0, <1>1, <1>7, <2>1, <2>2, OneFormPriced, RequestsStayPriced, OrdersStayPriced
         DEF PriceInv, shopVars, customerVars
<1> QED  BY <1>5, <1>6, <1>7 DEF CartValidated

-----------------------------------------------------------------------------
(* The checkout form *)

\* A preview is what the server computes of the form's cart.
LEMMA PreviewedShape ==
    ASSUME PriceInv, NEW t \in Tabs, NEW k \in Coupons, NEW p \in Previewed(t, k)
    PROVE  /\ p \in Preview /\ p # None /\ p.coupon = k
           /\ p.total = Cost(price, Items(tab[t].cart))
                          - Reduced(price, coupon[k], Items(tab[t].cart))
<1> PICK items : items = Items(tab[t].cart)  OBVIOUS
<1>1. price \in [Variants -> Nat] /\ Sums(coupon[k])  BY DEF PriceInv, ShopTyped
<1>2. items \in Quantities
  <2>1. tab[t].cart \in Cart  BY DEF PriceInv, FormsPriced, PricedForm, Tab
  <2> QED  BY <1>1, <2>1, CartShape
<1>3. p = [coupon |-> k, total |-> Amount(items, Variants) - Discount(k, items)]
  BY DEF Previewed
<1>4. Amount(items, Variants) = Cost(price, items) /\ Discount(k, items) = Reduced(price, coupon[k], items)
  BY AmountShape
<1> PICK a \in Int : a = Cost(price, items)  BY <1>1, <1>2, ReducedShape
<1> PICK b \in Int : b = Reduced(price, coupon[k], items)  BY <1>1, <1>2, ReducedShape
<1>5. p = [coupon |-> k, total |-> a - b] /\ a - b \in Int  BY <1>3, <1>4
<1>6. p \in Preview  BY <1>5 DEF Preview
<1> QED  BY <1>5, <1>6, NamesAssumption

\* The form changes, but neither its cart, what is applied, nor what is sent.
LEMMA SameAmountPriced ==
    ASSUME PriceInv, NEW t \in Tabs, NEW form \in Tab,
           form.previewing => form.auto \in Coupons,
           form.validating = tab[t].validating, form.submitting = tab[t].submitting,
           form.page = tab[t].page, form.source = tab[t].source,
           form.applied = tab[t].applied, form.cart = tab[t].cart, form.fresh = tab[t].fresh
    PROVE  PricedForm(form, price, coupon)
<1>1. PricedForm(tab[t], price, coupon)  BY DEF PriceInv, FormsPriced
<1>2. Priced(tab[t], price, coupon) => Priced(form, price, coupon)  BY DEF Priced
<1> QED  BY <1>1, <1>2 DEF PricedForm

LEMMA FormKeepsPrices ==
    ASSUME PriceInv, NEW t \in Tabs, NEW form, PricedForm(form, price, coupon),
           tab' = [tab EXCEPT ![t] = form],
           UNCHANGED <<shopVars, customerVars, storage, referral, request>>
    PROVE  PriceInv'
<1>1. storage \in Cart /\ referral \in Codes \cup {None}  BY DEF PriceInv, ShopTyped
<1> QED  BY <1>1, OneFormPriced, RequestsStayPriced, OrdersStayPriced
       DEF PriceInv, shopVars, customerVars

LEMMA ReferralFieldKeepsPrices ==
    ASSUME PriceInv, NEW t \in Tabs,
           \/ \E c \in Codes \cup {None} : EditReferral(t, c)
           \/ ReferralResolved(t)
    PROVE  PriceInv'
<1>0. UNCHANGED <<shopVars, customerVars, storage, referral, request>>
  BY DEF EditReferral, ReferralResolved
<1>1. tab[t] \in Tab /\ (tab[t].previewing => tab[t].auto \in Coupons)
  BY DEF PriceInv, FormsPriced, PricedForm
<1>2. CASE \E c \in Codes \cup {None} : EditReferral(t, c)
  <2> PICK c \in Codes \cup {None} : EditReferral(t, c)  BY <1>2
  <2> PICK b \in BOOLEAN : b = (c # None)  OBVIOUS
  <2> PICK f : f = [tab[t] EXCEPT !.code = c, !.resolving = b]  OBVIOUS
  <2>1. /\ f \in Tab /\ (f.previewing => f.auto \in Coupons)
        /\ f.validating = tab[t].validating /\ f.submitting = tab[t].submitting
        /\ f.page = tab[t].page /\ f.source = tab[t].source
        /\ f.applied = tab[t].applied /\ f.cart = tab[t].cart /\ f.fresh = tab[t].fresh
    BY <1>1 DEF Tab
  <2>2. CASE c = None
    <3> PICK k : k = None  OBVIOUS
    <3>0. k \in Coupons \cup {None}  OBVIOUS
    <3> PICK form : form = SetAuto(f, k)  OBVIOUS
    <3> PICK on : on = IF k = f.auto THEN f.previewing ELSE k # None  OBVIOUS
    <3>1. on \in BOOLEAN /\ (on => k \in Coupons)  BY <2>1, <3>0 DEF Tab
    <3>2. form = [f EXCEPT !.auto = k, !.previewing = on]  BY DEF SetAuto
    <3>3. form \in Tab  BY <2>1, <3>0, <3>1, <3>2, ZenonT(60) DEF Tab
    <3>4. form.auto = k /\ form.previewing = on  BY <2>1, <3>2 DEF Tab
    <3>5. /\ form \in Tab /\ (form.previewing => form.auto \in Coupons)
          /\ form.validating = f.validating /\ form.submitting = f.submitting
          /\ form.page = f.page /\ form.source = f.source
          /\ form.applied = f.applied /\ form.cart = f.cart /\ form.fresh = f.fresh
      BY <2>1, <3>1, <3>2, <3>3, <3>4 DEF Tab
    <3>6. PricedForm(form, price, coupon)  BY <2>1, <3>5, SameAmountPriced
    <3>7. tab' = [tab EXCEPT ![t] = form]  BY <2>2 DEF EditReferral
    <3> QED  BY <1>0, <3>6, <3>7, FormKeepsPrices
  <2>3. CASE c # None
    <3>1. tab' = [tab EXCEPT ![t] = f]  BY <2>3 DEF EditReferral
    <3>2. PricedForm(f, price, coupon)  BY <2>1, SameAmountPriced
    <3> QED  BY <1>0, <3>1, <3>2, FormKeepsPrices
  <2> QED  BY <2>2, <2>3
<1>3. CASE ReferralResolved(t)
  <2>1. PICK k \in {AutoCoupon(Resolved(tab[t].code))} \cup {None} :
            tab' = [tab EXCEPT ![t] = SetAuto([tab[t] EXCEPT !.resolving = FALSE], k)]
    BY <1>3 DEF ReferralResolved
  <2>2. k \in Coupons \cup {None}
    <3>1. tab[t].code \in Codes \cup {None}  BY <1>1 DEF Tab
    <3>2. active \subseteq Codes /\ scope \in Scopes  BY DEF PriceInv, ShopTyped
    <3>3. scope.auto \in [Codes -> Coupons \cup {None}]  BY <3>2, ScopesAssumption
    <3> QED  BY <2>1, <3>1, <3>2, <3>3 DEF AutoCoupon, Resolved
  <2> PICK f : f = [tab[t] EXCEPT !.resolving = FALSE]  OBVIOUS
  <2> PICK form : form = SetAuto(f, k)  OBVIOUS
  <2>3. /\ f \in Tab /\ (f.previewing => f.auto \in Coupons)
        /\ f.validating = tab[t].validating /\ f.submitting = tab[t].submitting
        /\ f.page = tab[t].page /\ f.source = tab[t].source
        /\ f.applied = tab[t].applied /\ f.cart = tab[t].cart /\ f.fresh = tab[t].fresh
    BY <1>1 DEF Tab
  <2>4. /\ form \in Tab /\ (form.previewing => form.auto \in Coupons)
        /\ form.validating = f.validating /\ form.submitting = f.submitting
        /\ form.page = f.page /\ form.source = f.source
        /\ form.applied = f.applied /\ form.cart = f.cart /\ form.fresh = f.fresh
    <3> PICK b : b = IF k = f.auto THEN f.previewing ELSE k # None  OBVIOUS
    <3>1. b \in BOOLEAN /\ (b => k \in Coupons)  BY <2>2, <2>3 DEF Tab
    <3>2. form = [f EXCEPT !.auto = k, !.previewing = b]  BY DEF SetAuto
    <3>3. form \in Tab  BY <2>2, <2>3, <3>1, <3>2, ZenonT(60) DEF Tab
    <3>4. form.auto = k /\ form.previewing = b  BY <2>3, <3>2 DEF Tab
    <3> QED  BY <2>2, <2>3, <3>1, <3>2, <3>3, <3>4 DEF Tab
  <2>5. PricedForm(form, price, coupon)  BY <2>3, <2>4, SameAmountPriced
  <2>6. tab' = [tab EXCEPT ![t] = form]  BY <2>1
  <2> QED  BY <1>0, <2>5, <2>6, FormKeepsPrices
<1> QED  BY <1>2, <1>3

LEMMA CouponFieldKeepsPrices ==
    ASSUME PriceInv, NEW t \in Tabs,
           \/ \E k \in Coupons : AskCoupon(t, k)
           \/ AutoPreviewed(t) \/ CouponAnswered(t) \/ RemoveCoupon(t)
    PROVE  PriceInv'
<1>0. UNCHANGED <<shopVars, customerVars, storage, referral, request>>
  BY DEF AskCoupon, AutoPreviewed, CouponAnswered, RemoveCoupon
<1>1. tab[t] \in Tab /\ PricedForm(tab[t], price, coupon)
  BY DEF PriceInv, FormsPriced, PricedForm
<1>2. ASSUME NEW k \in Coupons, NEW f \in Tab, f.applied = tab[t].applied,
             f.cart = tab[t].cart, f.fresh = tab[t].fresh, f.page = tab[t].page,
             f.validating = tab[t].validating, f.submitting = tab[t].submitting,
             f.source = tab[t].source, f.previewing => f.auto \in Coupons,
             NEW p \in Previewed(t, k), NEW s \in {"auto", "manual"},
             tab' = [tab EXCEPT ![t] = [f EXCEPT !.applied = p, !.source = s]]
      PROVE  PriceInv'
  <2> PICK form : form = [f EXCEPT !.applied = p, !.source = s]  OBVIOUS
  <2>1. /\ p \in Preview /\ p # None /\ p.coupon = k
        /\ p.total = Cost(price, Items(tab[t].cart))
                       - Reduced(price, coupon[k], Items(tab[t].cart))
    BY <1>2, PreviewedShape
  <2>2. /\ form \in Tab /\ form.applied = p /\ form.source = s /\ form.cart = tab[t].cart
        /\ form.fresh = tab[t].fresh /\ form.page = tab[t].page
        /\ form.validating = tab[t].validating /\ form.submitting = tab[t].submitting
        /\ (form.previewing => form.auto \in Coupons)
    BY <1>2, <2>1 DEF Tab
  <2>3. Priced(tab[t], price, coupon) => Priced(form, price, coupon)
    BY <2>1, <2>2 DEF Priced
  <2>4. form.source # None  BY <2>2, NamesAssumption
  <2>5. PricedForm(form, price, coupon)  BY <1>1, <2>1, <2>2, <2>3, <2>4 DEF PricedForm
  <2> QED  BY <1>0, <1>2, <2>5, FormKeepsPrices
<1>3. ASSUME NEW f \in Tab, f.applied = tab[t].applied,
             f.cart = tab[t].cart, f.fresh = tab[t].fresh, f.page = tab[t].page,
             f.validating = tab[t].validating, f.submitting = tab[t].submitting,
             f.source = tab[t].source, f.previewing => f.auto \in Coupons,
             tab' = [tab EXCEPT ![t] = f]
      PROVE  PriceInv'
  BY <1>0, <1>3, SameAmountPriced, FormKeepsPrices
<1>4. CASE \E k \in Coupons : AskCoupon(t, k)
  <2> PICK k \in Coupons : AskCoupon(t, k)  BY <1>4
  <2> PICK f : f = [tab[t] EXCEPT !.asking = k]  OBVIOUS
  <2>1. /\ f \in Tab /\ f.applied = tab[t].applied /\ f.cart = tab[t].cart
        /\ f.fresh = tab[t].fresh /\ f.page = tab[t].page
        /\ f.validating = tab[t].validating /\ f.submitting = tab[t].submitting
        /\ f.source = tab[t].source /\ f.previewing = tab[t].previewing /\ f.auto = tab[t].auto
    BY <1>1 DEF Tab
  <2>2. tab' = [tab EXCEPT ![t] = f]  BY DEF AskCoupon
  <2> QED  BY <1>1, <1>3, <2>1, <2>2 DEF PricedForm
<1>5. CASE AutoPreviewed(t)
  <2> PICK f : f = [tab[t] EXCEPT !.previewing = FALSE]  OBVIOUS
  <2>1. /\ f \in Tab /\ f.applied = tab[t].applied /\ f.cart = tab[t].cart
        /\ f.fresh = tab[t].fresh /\ f.page = tab[t].page
        /\ f.validating = tab[t].validating /\ f.submitting = tab[t].submitting
        /\ f.source = tab[t].source /\ ~f.previewing
    BY <1>1 DEF Tab
  <2>2. tab[t].auto \in Coupons  BY <1>1, <1>5 DEF AutoPreviewed, PricedForm
  <2>3. ASSUME NEW p \in Previewed(t, tab[t].auto),
               tab' = [tab EXCEPT ![t].previewing = FALSE, ![t].applied = p, ![t].source = "auto"]
        PROVE  PriceInv'
    <3> PICK f1 : f1 = [f EXCEPT !.applied = p]  OBVIOUS
    <3> PICK f2 : f2 = [f1 EXCEPT !.source = "auto"]  OBVIOUS
    <3> PICK X : X = [tab EXCEPT ![t] = f]  OBVIOUS
    <3> PICK X1 : X1 = [tab EXCEPT ![t] = f1]  OBVIOUS
    <3>0. t \in DOMAIN tab  BY DEF PriceInv, FormsPriced
    <3>1. tab' = [X EXCEPT ![t].applied = p, ![t].source = "auto"]  BY <2>3
    <3>2. [X EXCEPT ![t].applied = p] = X1  BY <3>0
    <3>3. tab' = [X1 EXCEPT ![t].source = "auto"]  BY <3>1, <3>2
    <3>4. tab' = [tab EXCEPT ![t] = f2]  BY <3>0, <3>3
    <3> PICK s \in {"auto", "manual"} : s = "auto"  OBVIOUS
    <3>5. f2 = [f EXCEPT !.applied = p, !.source = s]  OBVIOUS
    <3>6. tab' = [tab EXCEPT ![t] = [f EXCEPT !.applied = p, !.source = s]]  BY <3>4, <3>5
    <3>7. f.previewing => f.auto \in Coupons  BY <2>1
    <3> PICK k \in Coupons : k = tab[t].auto  BY <2>2
    <3>8. p \in Previewed(t, k)  BY <2>3
    <3> HIDE <2>3
    <3> QED  BY <1>2, <2>1, <3>6, <3>7, <3>8
  <2>4. ASSUME tab' = [tab EXCEPT ![t].previewing = FALSE] PROVE PriceInv'
    <3>1. tab' = [tab EXCEPT ![t] = f]  BY <2>4
    <3> QED  BY <1>3, <2>1, <3>1
  <2> QED  BY <1>5, <2>3, <2>4 DEF AutoPreviewed
<1>6. CASE CouponAnswered(t)
  <2> PICK f : f = [tab[t] EXCEPT !.asking = None]  OBVIOUS
  <2>1. /\ f \in Tab /\ f.applied = tab[t].applied /\ f.cart = tab[t].cart
        /\ f.fresh = tab[t].fresh /\ f.page = tab[t].page
        /\ f.validating = tab[t].validating /\ f.submitting = tab[t].submitting
        /\ f.source = tab[t].source /\ f.previewing = tab[t].previewing /\ f.auto = tab[t].auto
    BY <1>1 DEF Tab
  <2>2. tab[t].asking \in Coupons  BY <1>1, <1>6 DEF CouponAnswered, Tab
  <2>3. ASSUME NEW p \in Previewed(t, tab[t].asking),
               tab' = [tab EXCEPT ![t] = ShownCoupon(tab[t], p)]
        PROVE  PriceInv'
    <3>1. ShownCoupon(tab[t], p) = [f EXCEPT !.applied = p, !.source = "manual"]
      BY DEF ShownCoupon
    <3>2. tab' = [tab EXCEPT ![t] = [f EXCEPT !.applied = p, !.source = "manual"]]
      BY <2>3, <3>1
    <3> PICK s \in {"auto", "manual"} : s = "manual"  OBVIOUS
    <3> PICK k \in Coupons : k = tab[t].asking  BY <2>2
    <3>3. f.previewing => f.auto \in Coupons  BY <1>1, <2>1 DEF PricedForm
    <3>4. p \in Previewed(t, k)  BY <2>3
    <3>5. tab' = [tab EXCEPT ![t] = [f EXCEPT !.applied = p, !.source = s]]  BY <3>2
    <3> HIDE <2>3
    <3> QED  BY <1>2, <2>1, <3>3, <3>4, <3>5
  <2>4. ASSUME tab' = [tab EXCEPT ![t].asking = None] PROVE PriceInv'
    <3>1. tab' = [tab EXCEPT ![t] = f]  BY <2>4
    <3> QED  BY <1>1, <1>3, <2>1, <3>1 DEF PricedForm
  <2> QED  BY <1>6, <2>3, <2>4 DEF CouponAnswered
<1>7. CASE RemoveCoupon(t)
  <2> PICK form : form = [tab[t] EXCEPT !.applied = None, !.source = None]  OBVIOUS
  <2>1. /\ form \in Tab /\ form.applied = None /\ form.source = None /\ form.cart = tab[t].cart
        /\ form.fresh = tab[t].fresh /\ form.page = tab[t].page
        /\ form.validating = tab[t].validating /\ form.submitting = tab[t].submitting
        /\ form.previewing = tab[t].previewing /\ form.auto = tab[t].auto
    BY <1>1 DEF Tab
  <2>2. Priced(tab[t], price, coupon) => Priced(form, price, coupon)  BY <2>1 DEF Priced
  <2>3. PricedForm(form, price, coupon)  BY <1>1, <2>1, <2>2, NamesAssumption DEF PricedForm
  <2>4. tab' = [tab EXCEPT ![t] = form]  BY <1>7 DEF RemoveCoupon
  <2> QED  BY <1>0, <2>3, <2>4, FormKeepsPrices
<1> QED  BY <1>4, <1>5, <1>6, <1>7

\* What is sent is what the form shows.
LEMMA SubmitKeepsPrices ==
    ASSUME PriceInv, NEW t \in Tabs, Submit(t) PROVE PriceInv'
<1>0. UNCHANGED <<shopVars, customerVars, storage, referral>>  BY DEF Submit
<1>1. tab[t] \in Tab /\ PricedForm(tab[t], price, coupon) /\ tab[t].page = "checkout"
  BY DEF PriceInv, FormsPriced, PricedForm, Submit
<1>2. price \in [Variants -> Nat] /\ storage \in Cart /\ referral \in Codes \cup {None}
  BY DEF PriceInv, ShopTyped
<1>3. FormsPriced' /\ ShopTyped'
  <2> PICK form : form = [tab[t] EXCEPT !.submitting = TRUE]  OBVIOUS
  <2>1. /\ form \in Tab /\ form.applied = tab[t].applied /\ form.source = tab[t].source
        /\ form.cart = tab[t].cart /\ form.fresh = tab[t].fresh /\ form.page = tab[t].page
        /\ form.validating = tab[t].validating
        /\ form.previewing = tab[t].previewing /\ form.auto = tab[t].auto
    BY <1>1 DEF Tab
  <2>2. Priced(tab[t], price, coupon) => Priced(form, price, coupon)  BY <2>1 DEF Priced
  <2>3. PricedForm(form, price, coupon)  BY <1>1, <2>1, <2>2 DEF PricedForm
  <2>4. tab' = [tab EXCEPT ![t] = form]  BY DEF Submit
  <2> QED  BY <1>0, <1>2, <2>3, <2>4, OneFormPriced DEF shopVars, customerVars
<1> PICK items : items = Items(tab[t].cart)  OBVIOUS
<1> PICK shown : shown = Shown(t)  OBVIOUS
<1> PICK k : k = IF tab[t].source = "manual" THEN tab[t].applied.coupon ELSE None  OBVIOUS
<1> PICK r : r = [pc |-> "begin", items |-> items, code |-> tab[t].code, coupon |-> k,
                  shown |-> shown, source |-> tab[t].source, fresh |-> tab[t].fresh,
                  known |-> FALSE, attributed |-> FALSE, link |-> None, order |-> 0]
  OBVIOUS
<1>4. tab[t].cart \in Cart /\ items \in Quantities  BY <1>1, <1>2, CartShape DEF Tab
<1>5. tab[t].source = "manual" => tab[t].applied \in Preview /\ tab[t].applied # None
  BY <1>1 DEF PricedForm, Tab
<1>6. /\ k \in Coupons \cup {None}
      /\ tab[t].source = "manual" => k \in Coupons /\ k = tab[t].applied.coupon
      /\ tab[t].source = None => k = None
  BY <1>5, NamesAssumption DEF Preview
<1>7. shown \in Int
  <2>1. CASE tab[t].applied # None
    <3>1. tab[t].applied \in Preview  BY <1>1, <2>1 DEF Tab
    <3> QED  BY <2>1, <3>1 DEF Shown, Preview
  <2>2. CASE tab[t].applied = None
    <3>1. shown = Total([v \in Variants |-> tab[t].cart[v].price * tab[t].cart[v].n])
      BY <2>2 DEF Shown
    <3>2. shown \in Nat  BY <1>2, <1>4, <3>1, CartShape
    <3> QED  BY <3>2
  <2> QED  BY <2>1, <2>2
<1>8. r \in Request  BY <1>1, <1>4, <1>6, <1>7 DEF Request, Tab
<1>9. tab[t].fresh /\ tab[t].source = None => shown = Cost(price, items)
  <2> SUFFICES ASSUME tab[t].fresh, tab[t].source = None PROVE shown = Cost(price, items)  OBVIOUS
  <2>1. Priced(tab[t], price, coupon) /\ tab[t].applied = None  BY <1>1 DEF PricedForm
  <2>2. \A v \in Variants : tab[t].cart[v].n > 0 => tab[t].cart[v].price = price[v]  BY <2>1 DEF Priced
  <2>3. shown = Total([v \in Variants |-> tab[t].cart[v].price * tab[t].cart[v].n])
    BY <2>1 DEF Shown
  <2> QED  BY <1>2, <1>4, <2>2, <2>3, CartShape
<1>10. tab[t].fresh /\ tab[t].source = "manual"
          => shown = Cost(price, items) - Reduced(price, coupon[k], items)
  <2> SUFFICES ASSUME tab[t].fresh, tab[t].source = "manual"
               PROVE  shown = Cost(price, items) - Reduced(price, coupon[k], items)
    OBVIOUS
  <2>1. Priced(tab[t], price, coupon) /\ tab[t].applied # None  BY <1>1 DEF PricedForm
  <2>2. shown = tab[t].applied.total  BY <2>1 DEF Shown
  <2> QED  BY <1>6, <2>1, <2>2 DEF Priced
<1>11. PricedRequest(r, price, coupon)  BY <1>6, <1>8, <1>9, <1>10 DEF PricedRequest
<1>12. request' = [request EXCEPT ![t] = r]  BY DEF Submit
<1>13. RequestsPriced'  BY <1>0, <1>11, <1>12, OneRequestPriced DEF shopVars
<1>14. OrdersPriced'  BY <1>0, OrdersStayPriced DEF customerVars
<1> QED  BY <1>3, <1>13, <1>14 DEF PriceInv

-----------------------------------------------------------------------------
(* The transaction and what follows *)

LEMMA BeginKeepsPrices ==
    ASSUME PriceInv, NEW t \in Tabs, Begin(t) PROVE PriceInv'
<1>0. UNCHANGED <<shopVars, customerVars, browserVars>> /\ request[t] # None  BY DEF Begin
<1>1. PricedRequest(request[t], price, coupon)  BY <1>0 DEF PriceInv, RequestsPriced
<1>2. account \in BOOLEAN /\ buyer \in Codes \cup {None} /\ active \subseteq Codes
  BY DEF PriceInv, ShopTyped
<1> PICK link : link = Referral(request[t])  OBVIOUS
<1> PICK old : old = (buyer # None)  OBVIOUS
<1>3. link \in Codes \cup {None} /\ old \in BOOLEAN
  BY <1>1, <1>2 DEF Referral, Resolved, PricedRequest, Request
<1>4. CASE request' = [request EXCEPT ![t].pc = "commit", ![t].known = account,
                               ![t].attributed = old, ![t].link = link]
  <2> PICK r : r = [request[t] EXCEPT !.pc = "commit", !.known = account,
                      !.attributed = old, !.link = link]
    OBVIOUS
  <2>1. request' = [request EXCEPT ![t] = r]
    <3> PICK r1 : r1 = [request[t] EXCEPT !.pc = "commit"]  OBVIOUS
    <3> PICK r2 : r2 = [r1 EXCEPT !.known = account]  OBVIOUS
    <3> PICK r3 : r3 = [r2 EXCEPT !.attributed = old]  OBVIOUS
    <3> PICK r4 : r4 = [r3 EXCEPT !.link = link]  OBVIOUS
    <3> PICK Q1 : Q1 = [request EXCEPT ![t] = r1]  OBVIOUS
    <3> PICK Q2 : Q2 = [request EXCEPT ![t] = r2]  OBVIOUS
    <3> PICK Q3 : Q3 = [request EXCEPT ![t] = r3]  OBVIOUS
    <3>0. t \in DOMAIN request  BY DEF PriceInv, RequestsPriced
    <3>1. request' = [Q1 EXCEPT ![t].known = account, ![t].attributed = old, ![t].link = link]
      BY <1>4
    <3>2. [Q1 EXCEPT ![t].known = account] = Q2  BY <3>0
    <3>3. request' = [Q2 EXCEPT ![t].attributed = old, ![t].link = link]  BY <3>1, <3>2
    <3>4. [Q2 EXCEPT ![t].attributed = old] = Q3  BY <3>0
    <3>5. request' = [Q3 EXCEPT ![t].link = link]  BY <3>3, <3>4
    <3>6. request' = [request EXCEPT ![t] = r4]  BY <3>0, <3>5
    <3>7. r4 = r  OBVIOUS
    <3> QED  BY <3>6, <3>7
  <2>2. /\ r \in Request /\ r.source = request[t].source /\ r.coupon = request[t].coupon
        /\ r.fresh = request[t].fresh /\ r.shown = request[t].shown /\ r.items = request[t].items
    BY <1>1, <1>2, <1>3 DEF PricedRequest, Request
  <2>3. PricedRequest(r, price, coupon)  BY <1>1, <2>2 DEF PricedRequest
  <2> QED  BY <1>0, <2>1, <2>3, OneRequestPriced, FormsStayPriced, OrdersStayPriced
         DEF PriceInv, ShopTyped, shopVars, customerVars, browserVars
<1>5. CASE Refuse(t)
  <2> PICK r : r = [request[t] EXCEPT !.pc = "answer"]  OBVIOUS
  <2>1. request' = [request EXCEPT ![t] = r]  BY <1>5 DEF Refuse
  <2>2. /\ r \in Request /\ r.source = request[t].source /\ r.coupon = request[t].coupon
        /\ r.fresh = request[t].fresh /\ r.shown = request[t].shown /\ r.items = request[t].items
    BY <1>1 DEF PricedRequest, Request
  <2>3. PricedRequest(r, price, coupon)  BY <1>1, <2>2 DEF PricedRequest
  <2> QED  BY <1>0, <2>1, <2>3, OneRequestPriced, FormsStayPriced, OrdersStayPriced
         DEF PriceInv, ShopTyped, shopVars, customerVars, browserVars
<1> QED  BY <1>4, <1>5 DEF Begin

\* The server's amount is the form's, less a coupon of the link's that nobody typed.
LEMMA NewOrderPriced ==
    ASSUME PriceInv, NEW t \in Tabs, request[t] # None,
           request[t].coupon # None => Reservable(request[t])
    PROVE  PricedOrder(NewOrder(request[t]))
<1> PICK r : r = request[t]  OBVIOUS
<1> PICK k : k = Granted(r)  OBVIOUS
<1> PICK d : d = IF k = None THEN 0 ELSE Reduced(price, coupon[k], r.items)  OBVIOUS
<1>1. PricedRequest(r, price, coupon) /\ r \in Request  BY DEF PriceInv, RequestsPriced, PricedRequest
<1>2. price \in [Variants -> Nat] /\ \A j \in Coupons : Sums(coupon[j])  BY DEF PriceInv, ShopTyped
<1>3. scope.auto \in [Codes -> Coupons \cup {None}]
  BY ScopesAssumption DEF PriceInv, ShopTyped
<1>4. /\ k \in Coupons \cup {None}
      /\ r.coupon # None => k = r.coupon
  BY <1>1, <1>3 DEF Granted, EffectiveCoupon, AutoCoupon, Request
<1>5. r.items \in Quantities /\ Cost(price, r.items) \in Nat
  <2>1. r.items \in Quantities  BY <1>1 DEF Request
  <2> PICK c : c = [kind |-> "fixed", value |-> 0, cap |-> None, minimum |-> 0, products |-> {},
                    agents |-> {}, newOnly |-> FALSE, perCustomer |-> 0, active |-> FALSE]
    OBVIOUS
  <2>2. c \in CouponRow /\ c.cap = None  BY DEF CouponRow
  <2>3. Sums(c)  BY <2>2 DEF Sums
  <2> QED  BY <1>2, <2>1, <2>3, ReducedShape
<1>6. d \in Int /\ d <= Cost(price, r.items) /\ (CapsAreAmounts => d >= 0)
  <2>1. CASE k = None  BY <1>5, <2>1
  <2>2. CASE k # None
    <3>1. k \in Coupons /\ Sums(coupon[k])  BY <1>2, <1>4, <2>2
    <3>2. d = Reduced(price, coupon[k], r.items)  BY <2>2
    <3> QED  BY <1>2, <1>5, <3>1, <3>2, ReducedShape
  <2> QED  BY <2>1, <2>2
<1> PICK o : o = NewOrder(r)  OBVIOUS
<1> PICK a \in Nat : a = Cost(price, r.items)  BY <1>5
<1>7. o = [status |-> "pending", items |-> r.items, link |-> r.link, coupon |-> k,
           original |-> a, discount |-> d, total |-> a - d,
           shown |-> r.shown, source |-> r.source, fresh |-> r.fresh]
  <2>1. Amount(r.items, Variants) = a  BY AmountShape
  <2>2. d = IF k = None THEN 0 ELSE Discount(k, r.items)  BY AmountShape
  <2> QED  BY <2>1, <2>2 DEF NewOrder
<1>8. a - d \in Int /\ a - d >= 0  BY <1>6
<1>9. o \in Order /\ o.total = a - d  BY <1>1, <1>4, <1>6, <1>7, <1>8 DEF Order, Request
<1>10. ASSUME CapsAreAmounts, r.fresh, r.source # "auto" PROVE a - d <= r.shown
  <2>1. r.source \in {"manual", None}  BY <1>1, <1>10 DEF Request
  <2>2. CASE r.source = None
    <3>1. r.shown = a  BY <1>1, <1>10, <2>2 DEF PricedRequest
    <3> QED  BY <1>6, <1>10, <3>1
  <2>3. CASE r.source = "manual"
    <3>1. r.coupon \in Coupons /\ r.shown = a - Reduced(price, coupon[r.coupon], r.items)
      BY <1>1, <1>10, <2>3 DEF PricedRequest
    <3>2. k = r.coupon /\ k # None  BY <1>4, <3>1, NamesAssumption
    <3>3. d = Reduced(price, coupon[k], r.items)  BY <3>2
    <3> QED  BY <1>8, <3>1, <3>2, <3>3
  <2> QED  BY <2>1, <2>2, <2>3
<1>11. CapsAreAmounts => (o.fresh /\ o.source # "auto" => o.total <= o.shown)
  BY <1>7, <1>9, <1>10
<1>12. o.total >= 0  BY <1>8, <1>9
<1> QED  BY <1>9, <1>11, <1>12 DEF PricedOrder

LEMMA CommitKeepsPrices ==
    ASSUME PriceInv, NEW t \in Tabs, Commit(t) PROVE PriceInv'
<1>0. UNCHANGED <<shopVars, browserVars>> /\ request[t] # None  BY DEF Commit
<1>1. PricedRequest(request[t], price, coupon)  BY <1>0 DEF PriceInv, RequestsPriced
<1>2. CASE /\ ~(request[t].coupon # None /\ ~Reservable(request[t]))
           /\ account' = TRUE /\ buyer' = Attributed(request[t])
           /\ orders' = Append(orders, NewOrder(request[t]))
           /\ request' = [request EXCEPT ![t].pc = "answer", ![t].order = Len(orders) + 1]
  <2> PICK n : n = Len(orders) + 1  OBVIOUS
  <2>1. n \in Nat  BY OrdersShape
  <2> PICK r : r = [request[t] EXCEPT !.pc = "answer", !.order = n]  OBVIOUS
  <2>2. /\ r \in Request /\ r.source = request[t].source /\ r.coupon = request[t].coupon
        /\ r.fresh = request[t].fresh /\ r.shown = request[t].shown /\ r.items = request[t].items
    BY <1>1, <2>1 DEF PricedRequest, Request
  <2>3. PricedRequest(r, price, coupon)  BY <1>1, <2>2 DEF PricedRequest
  <2>4. request' = [request EXCEPT ![t] = r]
    <3> PICK r1 : r1 = [request[t] EXCEPT !.pc = "answer"]  OBVIOUS
    <3> PICK r2 : r2 = [r1 EXCEPT !.order = n]  OBVIOUS
    <3> PICK Q1 : Q1 = [request EXCEPT ![t] = r1]  OBVIOUS
    <3>0. t \in DOMAIN request  BY DEF PriceInv, RequestsPriced
    <3>1. request' = [Q1 EXCEPT ![t].order = n]  BY <1>2
    <3>2. request' = [request EXCEPT ![t] = r2]  BY <3>0, <3>1
    <3>3. r2 = r  OBVIOUS
    <3> QED  BY <3>2, <3>3
  <2>5. RequestsPriced'  BY <1>0, <2>3, <2>4, OneRequestPriced DEF shopVars
  <2>6. OrdersPriced'
    <3>1. PricedOrder(NewOrder(request[t]))  BY <1>0, <1>2, NewOrderPriced
    <3> QED  BY <1>2, <3>1, OrderAdded
  <2>7. ShopTyped'
    <3>1. buyer' \in Codes \cup {None} /\ account' \in BOOLEAN
      BY <1>1, <1>2 DEF Attributed, PricedRequest, Request, PriceInv, ShopTyped
    <3> QED  BY <1>0, <3>1 DEF PriceInv, ShopTyped, shopVars, browserVars
  <2> QED  BY <1>0, <2>5, <2>6, <2>7, FormsStayPriced DEF PriceInv, shopVars, browserVars
<1>3. CASE Refuse(t) /\ UNCHANGED customerVars
  <2> PICK r : r = [request[t] EXCEPT !.pc = "answer"]  OBVIOUS
  <2>1. request' = [request EXCEPT ![t] = r]  BY <1>3 DEF Refuse
  <2>2. /\ r \in Request /\ r.source = request[t].source /\ r.coupon = request[t].coupon
        /\ r.fresh = request[t].fresh /\ r.shown = request[t].shown /\ r.items = request[t].items
    BY <1>1 DEF PricedRequest, Request
  <2>3. PricedRequest(r, price, coupon)  BY <1>1, <2>2 DEF PricedRequest
  <2> QED  BY <1>0, <1>3, <2>1, <2>3, OneRequestPriced, FormsStayPriced, OrdersStayPriced
         DEF PriceInv, ShopTyped, shopVars, customerVars, browserVars
<1> QED  BY <1>2, <1>3 DEF Commit

\* The form is left for Stripe's page, or stands again as it was.
LEMMA AnsweredKeepsPrices ==
    ASSUME PriceInv, NEW t \in Tabs, Answered(t) PROVE PriceInv'
<1>0. UNCHANGED <<shopVars, account, buyer, storage, referral>> /\ request[t] # None
      /\ request' = [request EXCEPT ![t] = None]
  BY DEF Answered
<1>1. tab[t] \in Tab /\ PricedForm(tab[t], price, coupon)
  BY DEF PriceInv, FormsPriced, PricedForm
<1>2. PricedRequest(request[t], price, coupon)  BY <1>0 DEF PriceInv, RequestsPriced
<1>3. RequestsPriced'
  <2> PICK r : r = None  OBVIOUS
  <2>1. request' = [request EXCEPT ![t] = r]  BY <1>0
  <2> QED  BY <1>0, <2>1, OneRequestPriced DEF shopVars
<1>4. OrdersPriced'
  <2>1. CASE UNCHANGED orders  BY <2>1, OrdersStayPriced
  <2>2. CASE orders' = [orders EXCEPT ![request[t].order].status = "failed"]
    <3> PICK s \in {"paid", "failed"} : s = "failed"  OBVIOUS
    <3> PICK i : i = request[t].order  OBVIOUS
    <3>1. orders' = [orders EXCEPT ![i].status = s]  BY <2>2
    <3> QED  BY <3>1, OrderSettled
  <2> QED  BY <2>1, <2>2 DEF Answered
<1>5. storage \in Cart /\ referral \in Codes \cup {None} /\ DOMAIN tab = Tabs
  BY DEF PriceInv, ShopTyped, FormsPriced
<1>6. FormsPriced' /\ ShopTyped'
  <2>1. CASE tab' = tab
    BY <1>0, <2>1, FormsStayPriced DEF PriceInv, ShopTyped, shopVars
  <2>2. CASE tab' = [tab EXCEPT ![t].submitting = FALSE]
    <3> PICK form : form = [tab[t] EXCEPT !.submitting = FALSE]  OBVIOUS
    <3>1. /\ form \in Tab /\ form.applied = tab[t].applied /\ form.source = tab[t].source
          /\ form.cart = tab[t].cart /\ form.fresh = tab[t].fresh /\ form.page = tab[t].page
          /\ form.validating = tab[t].validating /\ ~form.submitting
          /\ form.previewing = tab[t].previewing /\ form.auto = tab[t].auto
      BY <1>1 DEF Tab
    <3>2. Priced(tab[t], price, coupon) => Priced(form, price, coupon)  BY <3>1 DEF Priced
    <3>3. PricedForm(form, price, coupon)  BY <1>1, <3>1, <3>2 DEF PricedForm
    <3>4. tab' = [tab EXCEPT ![t] = form]  BY <2>2
    <3> QED  BY <1>0, <1>5, <3>3, <3>4, OneFormPriced DEF shopVars
  <2>3. CASE /\ tab[t].submitting
             /\ tab' = [tab EXCEPT ![t].page = "paying", ![t].submitting = FALSE,
                                   ![t].order = request[t].order]
    <3> PICK n \in Nat : n = request[t].order  BY <1>2 DEF PricedRequest, Request
    <3> PICK form : form = [tab[t] EXCEPT !.page = "paying", !.submitting = FALSE, !.order = n]
      OBVIOUS
    <3>1. /\ form \in Tab /\ form.applied = tab[t].applied /\ form.source = tab[t].source
          /\ form.page = "paying" /\ form.validating = tab[t].validating /\ ~form.submitting
          /\ form.previewing = tab[t].previewing /\ form.auto = tab[t].auto
      BY <1>1 DEF Tab
    <3>2. tab[t].validating = None  BY <1>1, <2>3 DEF PricedForm
    <3>3. PricedForm(form, price, coupon)  BY <1>1, <3>1, <3>2 DEF PricedForm
    <3>4. tab' = [tab EXCEPT ![t] = form]
      <4> PICK f1 : f1 = [tab[t] EXCEPT !.page = "paying"]  OBVIOUS
      <4> PICK f2 : f2 = [f1 EXCEPT !.submitting = FALSE]  OBVIOUS
      <4> PICK f3 : f3 = [f2 EXCEPT !.order = n]  OBVIOUS
      <4> PICK X1 : X1 = [tab EXCEPT ![t] = f1]  OBVIOUS
      <4> PICK X2 : X2 = [tab EXCEPT ![t] = f2]  OBVIOUS
      <4>1. tab' = [X1 EXCEPT ![t].submitting = FALSE, ![t].order = n]  BY <2>3
      <4>2. [X1 EXCEPT ![t].submitting = FALSE] = X2  BY <1>5
      <4>3. tab' = [X2 EXCEPT ![t].order = n]  BY <4>1, <4>2
      <4>4. tab' = [tab EXCEPT ![t] = f3]  BY <1>5, <4>3
      <4>5. f3 = form  OBVIOUS
      <4> QED  BY <4>4, <4>5
    <3> QED  BY <1>0, <1>5, <3>3, <3>4, OneFormPriced DEF shopVars
  <2> QED  BY <2>1, <2>2, <2>3 DEF Answered
<1> QED  BY <1>3, <1>4, <1>6 DEF PriceInv

\* What becomes of the order changes no amount.
LEMMA AfterKeepsPrices ==
    ASSUME PriceInv, NEW t \in Tabs, Pay(t) \/ Return(t) \/ Poll(t) \/ \E i \in DOMAIN orders : Fail(i)
    PROVE  PriceInv'
<1>1. ASSUME NEW i, NEW s \in {"paid", "failed"}, orders' = [orders EXCEPT ![i].status = s],
             UNCHANGED <<shopVars, account, buyer, browserVars, request>>
      PROVE  PriceInv'
  <2>1. OrdersPriced'  BY <1>1, OrderSettled
  <2> QED  BY <1>1, <2>1, FormsStayPriced, RequestsStayPriced
         DEF PriceInv, ShopTyped, shopVars, browserVars
<1>2. CASE Pay(t)
  <2> PICK s \in {"paid", "failed"} : s = "paid"  OBVIOUS
  <2> PICK i : i = tab[t].order  OBVIOUS
  <2>1. orders' = [orders EXCEPT ![i].status = s]
        /\ UNCHANGED <<shopVars, account, buyer, browserVars, request>>
    BY <1>2 DEF Pay
  <2> QED  BY <1>1, <2>1
<1>3. CASE \E i \in DOMAIN orders : Fail(i)
  <2> PICK i : Fail(i)  BY <1>3
  <2> PICK s \in {"paid", "failed"} : s = "failed"  OBVIOUS
  <2>1. orders' = [orders EXCEPT ![i].status = s]
        /\ UNCHANGED <<shopVars, account, buyer, browserVars, request>>
    BY DEF Fail
  <2> QED  BY <1>1, <2>1
<1>4. tab[t] \in Tab /\ storage \in Cart /\ referral \in Codes \cup {None}
      /\ DOMAIN tab = Tabs /\ PricedForm(tab[t], price, coupon)
  BY DEF PriceInv, FormsPriced, PricedForm, ShopTyped
<1>5. CASE Return(t)
  <2> PICK view \in {"shop", "checkout", "success"} : view = "success"  OBVIOUS
  <2> PICK g : g = Opened(view, storage, referral)  OBVIOUS
  <2> PICK n \in Nat : n = tab[t].order  BY <1>4 DEF Tab
  <2> PICK form : form = [g EXCEPT !.order = n]  OBVIOUS
  <2>1. /\ g \in Tab /\ g.page = "success" /\ g.validating = None /\ ~g.submitting /\ ~g.previewing
        /\ g.source = None /\ g.applied = None
    BY <1>4, OpenedShape
  <2>2. /\ form \in Tab /\ form.page = "success" /\ form.validating = None /\ ~form.submitting
        /\ ~form.previewing /\ form.source = None /\ form.applied = None
    BY <2>1 DEF Tab
  <2>3. PricedForm(form, price, coupon)  BY <2>2, NamesAssumption DEF PricedForm
  <2>4. tab' = [tab EXCEPT ![t] = form] /\ UNCHANGED <<shopVars, customerVars, storage, referral, request>>
    BY <1>5 DEF Return
  <2> QED  BY <2>3, <2>4, FormKeepsPrices
<1>6. CASE Poll(t)
  <2> PICK form : form = [tab[t] EXCEPT !.cart = EmptyCart, !.order = 0, !.fresh = FALSE]  OBVIOUS
  <2>1. /\ form \in Tab /\ form.applied = tab[t].applied /\ form.source = tab[t].source
        /\ ~form.fresh /\ form.page = tab[t].page
        /\ form.validating = tab[t].validating /\ form.submitting = tab[t].submitting
        /\ form.previewing = tab[t].previewing /\ form.auto = tab[t].auto
    BY <1>4, EmptyCartShape DEF Tab
  <2>2. PricedForm(form, price, coupon)  BY <1>4, <2>1 DEF PricedForm
  <2>3. tab' = [tab EXCEPT ![t] = form]
    <3> PICK f1 : f1 = [tab[t] EXCEPT !.cart = EmptyCart]  OBVIOUS
    <3> PICK f2 : f2 = [f1 EXCEPT !.order = 0]  OBVIOUS
    <3> PICK f3 : f3 = [f2 EXCEPT !.fresh = FALSE]  OBVIOUS
    <3> PICK X1 : X1 = [tab EXCEPT ![t] = f1]  OBVIOUS
    <3> PICK X2 : X2 = [tab EXCEPT ![t] = f2]  OBVIOUS
    <3>1. tab' = [X1 EXCEPT ![t].order = 0, ![t].fresh = FALSE]  BY <1>6 DEF Poll
    <3>2. [X1 EXCEPT ![t].order = 0] = X2  BY <1>4
    <3>3. tab' = [X2 EXCEPT ![t].fresh = FALSE]  BY <3>1, <3>2
    <3>4. tab' = [tab EXCEPT ![t] = f3]  BY <1>4, <3>3
    <3>5. f3 = form  OBVIOUS
    <3> QED  BY <3>4, <3>5
  <2>4. /\ UNCHANGED <<shopVars, customerVars, referral, request>> /\ storage' \in Cart
    BY <1>6, EmptyCartShape DEF Poll
  <2> QED  BY <1>4, <2>2, <2>3, <2>4, OneFormPriced, RequestsStayPriced, OrdersStayPriced
         DEF PriceInv, shopVars, customerVars
<1> QED  BY <1>2, <1>3, <1>5, <1>6

LEMMA CartOfShape ==
    ASSUME scope \in Scopes, NEW items \in Quantities PROVE CartOf(items) \in Cart
<1>1. scope.price \in [Variants -> Nat]  BY ScopesAssumption
<1>2. ASSUME NEW v \in Variants
      PROVE  [n |-> items[v], price |-> IF items[v] = 0 THEN 0 ELSE scope.price[v]] \in Line
  <2> PICK p : p = IF items[v] = 0 THEN 0 ELSE scope.price[v]  OBVIOUS
  <2>1. p \in Nat  BY <1>1
  <2>2. items[v] \in 0..MaxQuantity  BY DEF Quantities
  <2> QED  BY <2>1, <2>2 DEF Line
<1> QED  BY <1>2 DEF CartOf, Cart

LEMMA InitPriced == Init => PriceInv
<1> SUFFICES ASSUME Init PROVE PriceInv  OBVIOUS
<1>0. /\ scope \in Scopes /\ price = scope.price /\ published = scope.published /\ active = Codes
      /\ coupon = scope.coupon /\ account = scope.account /\ buyer = None /\ orders = <<>>
      /\ storage \in {CartOf(scope.items[t]) : t \in scope.tabs}
      /\ referral \in {scope.code[t] : t \in scope.tabs}
      /\ tab = [t \in Tabs |-> Opened(scope.page, CartOf(scope.items[t]), scope.code[t])]
      /\ request = [t \in Tabs |-> None]
  BY DEF Init
<1>1. /\ scope.tabs \subseteq Tabs /\ scope.page \in {"shop", "checkout"}
      /\ scope.items \in [Tabs -> Quantities] /\ scope.code \in [Tabs -> Codes \cup {None}]
      /\ scope.published \subseteq Variants /\ scope.price \in [Variants -> Nat]
      /\ scope.coupon \in [Coupons -> CouponRow] /\ scope.account \in BOOLEAN
      /\ CapsAreAmounts => \A k \in Coupons : scope.coupon[k].cap \in Nat \cup {None}
  BY <1>0, ScopesAssumption DEF CapsAreAmounts
<1>2. \A t \in Tabs : CartOf(scope.items[t]) \in Cart /\ scope.code[t] \in Codes \cup {None}
  BY <1>0, <1>1, CartOfShape
<1>3. ShopTyped
  <2>1. storage \in Cart /\ referral \in Codes \cup {None}  BY <1>0, <1>1, <1>2
  <2>2. coupon \in [Coupons -> CouponRow] /\ \A k \in Coupons : Sums(coupon[k])
    BY <1>0, <1>1 DEF Sums
  <2> QED  BY <1>0, <1>1, <2>1, <2>2 DEF ShopTyped
<1>4. FormsPriced
  <2>1. ASSUME NEW t \in Tabs PROVE PricedForm(tab[t], price, coupon)
    <3> PICK view \in {"shop", "checkout", "success"} : view = scope.page  BY <1>1
    <3> PICK cart \in Cart : cart = CartOf(scope.items[t])  BY <1>2
    <3> PICK c \in Codes \cup {None} : c = scope.code[t]  BY <1>2
    <3> PICK form : form = Opened(view, cart, c)  OBVIOUS
    <3>1. tab[t] = form  BY <1>0
    <3>2. /\ form \in Tab /\ form.cart = cart /\ form.validating = None /\ ~form.submitting
          /\ ~form.previewing /\ form.source = None /\ form.applied = None
      BY OpenedShape
    <3>3. \A v \in Variants : cart[v].n > 0 => cart[v].price = price[v]
      <4>1. ASSUME NEW v \in Variants, cart[v].n > 0 PROVE cart[v].price = price[v]
        <5> PICK items \in Quantities : items = scope.items[t]  BY <1>1
        <5>1. cart[v] = [n |-> items[v], price |-> IF items[v] = 0 THEN 0 ELSE scope.price[v]]
          BY DEF CartOf
        <5>2. items[v] \in Int /\ cart[v].n = items[v]  BY <5>1, NamesAssumption DEF Quantities
        <5>3. items[v] # 0  BY <4>1, <5>2
        <5> QED  BY <1>0, <5>1, <5>3
      <4> QED  BY <4>1
    <3>4. Priced(form, price, coupon)  BY <3>2, <3>3 DEF Priced
    <3> QED  BY <3>1, <3>2, <3>4, NamesAssumption DEF PricedForm
  <2>2. tab = [t \in Tabs |-> tab[t]]  BY <1>0
  <2>3. tab \in [Tabs -> Tab]  BY <2>1, <2>2 DEF PricedForm
  <2> QED  BY <2>1, <2>3 DEF FormsPriced
<1>5. RequestsPriced  BY <1>0 DEF RequestsPriced
<1>6. OrdersPriced  BY <1>0 DEF OrdersPriced
<1> QED  BY <1>3, <1>4, <1>5, <1>6 DEF PriceInv

LEMMA PricesStay ==
    PriceInv /\ [Next]_vars => PriceInv'
<1> SUFFICES ASSUME PriceInv, [Next]_vars PROVE PriceInv'  OBVIOUS
<1>1. CASE UNCHANGED vars
  BY <1>1, FormsStayPriced, RequestsStayPriced, OrdersStayPriced
  DEF PriceInv, ShopTyped, vars, shopVars, customerVars, browserVars
<1>2. CASE Administration  BY <1>2, AdministrationKeepsPrices
<1>3. ASSUME NEW t \in scope.tabs, Browse(t) \/ Begin(t) \/ Commit(t) \/ Answered(t) \/ Pay(t)
      PROVE  PriceInv'
  <2>1. t \in Tabs  BY ScopesAssumption DEF PriceInv, ShopTyped
  <2>2. CASE Browse(t)
    BY <2>1, <2>2, LoadKeepsPrices, CartKeepsPrices, CartValidatedKeepsPrices, ReferralFieldKeepsPrices,
       CouponFieldKeepsPrices, SubmitKeepsPrices, AfterKeepsPrices
    DEF Browse
  <2> QED
    BY <1>3, <2>1, <2>2, BeginKeepsPrices, CommitKeepsPrices, AnsweredKeepsPrices, AfterKeepsPrices
<1>4. CASE \E i \in DOMAIN orders : Fail(i)
  <2> PICK i \in DOMAIN orders : Fail(i)  BY <1>4
  <2> PICK s \in {"paid", "failed"} : s = "failed"  OBVIOUS
  <2>1. orders' = [orders EXCEPT ![i].status = s]
        /\ UNCHANGED <<shopVars, account, buyer, browserVars, request>>
    BY DEF Fail
  <2>2. OrdersPriced'  BY <2>1, OrderSettled
  <2> QED  BY <2>1, <2>2, FormsStayPriced, RequestsStayPriced
         DEF PriceInv, ShopTyped, shopVars, browserVars
<1> QED  BY <1>1, <1>2, <1>3, <1>4 DEF Next

LEMMA PriceInvariant == Spec => []PriceInv
  BY InitPriced, PricesStay, PTL DEF Spec

\* The rows, the tabs, the requests and the orders have their types in every state, and a
\* tab only previews, validates and submits what its page allows.
THEOREM StoreTypeCorrect == Spec => []TypeOK
<1>1. PriceInv => TypeOK
  BY DEF PriceInv, ShopTyped, FormsPriced, RequestsPriced, OrdersPriced, TypeOK
<1> QED  BY <1>1, PriceInvariant, PTL

\* No order costs less than nothing or, while nothing was edited and no coupon came with
\* the link, more than its page showed: for any carts, prices, codes and coupons whose cap is an
\* amount, in any number of tabs, whatever answer comes last.
THEOREM PricedRightHolds ==
    ASSUME CapsAreAmounts PROVE Spec => []PricedRight
<1>1. PriceInv => PricedRight
  BY DEF PriceInv, OrdersPriced, PricedOrder, PricedRight
<1> QED  BY <1>1, PriceInvariant, PTL

-----------------------------------------------------------------------------
(* The administration of a product: types *)

\* The instance counts as its context does.
LEMMA CatalogCounts ==
    \A S : Catalog!Cardinality(S) = Cardinality(S) /\ (Catalog!IsFiniteSet(S) <=> IsFiniteSet(S))
BY DEF Catalog!Cardinality, Cardinality, Catalog!IsFiniteSet, IsFiniteSet

\* The values of a column, and a row or a part of one that has such values.
Columns == {"item", "status", "base", "mode", "role", "overlay"}
Of == [item |-> Catalog!Items, status |-> Catalog!Statuses, base |-> Nat, mode |-> Catalog!Modes, role |-> BOOLEAN, overlay |-> Catalog!Overlays]
Typed(f) == \A c \in DOMAIN f \cap Columns : f[c] \in Of[c]

FormOK(f) == Columns \cup {"pm"} \subseteq DOMAIN f /\ Typed(f)
PageOK(p) ==
    /\ {"pc", "seen", "form"} \subseteq DOMAIN p /\ p.pc \in {"closed", "loading", "ready", "waiting"}
    /\ p.pc \in {"ready", "waiting"} => FormOK(p.form) /\ p.seen.base \in Nat
PagesOK == DOMAIN page = Admins /\ \A a \in Admins : PageOK(page[a])

\* The columns of a variant a request writes.
EntryOK(e) ==
    \/ e = NULL
    \/ /\ e.id \in Ids \cup {NULL}
       /\ DOMAIN e.set \subseteq {"price", "stock"}
       /\ \A c \in DOMAIN e.set : e.set[c] \in Nat
PutOK(r) ==
    /\ {"fields", "entry"} \subseteq DOMAIN r
    /\ DOMAIN r.fields \subseteq Columns /\ Typed(r.fields) /\ EntryOK(r.entry)
CatalogRequestOK(r) ==
    /\ {"pc", "kind"} \subseteq DOMAIN r
    /\ r.kind = "put" => PutOK(r)
    /\ r.kind = "deleteVariant" => "variant" \in DOMAIN r /\ r.variant \in Ids
RequestsOK ==
    /\ DOMAIN req = Admins
    /\ \A a \in Admins : /\ req[a].pc # "idle" => page[a].pc = "waiting"
                         /\ req[a].pc \in {"sent", "checked"} => CatalogRequestOK(req[a])

\* The product and what its variants owe.
ProductOK == product # NULL => product \in Catalog!Products /\ Catalog!AgentPortalComplete(product)
RowsOK ==
    /\ variant \in [Ids -> Catalog!Rows \cup {NULL}]
    /\ \A v \in Ids : variant[v] # NULL => product # NULL
    /\ undercut \subseteq Catalog!Live
OrdersOK ==
    /\ order \in [Orders -> [st : {"none", "pending", "paid", "closed"}, variant : Ids \cup {NULL}]]
    /\ \A o \in Orders : order[o].st = "pending" /\ order[o].variant # NULL => order[o].variant \in Catalog!Live
StockOK == ProductOK /\ RowsOK /\ OrdersOK /\ Catalog!HeldStockRemains

DraftRows == [price : Nat, stock : Nat]
DraftOK ==
    /\ draft \in [pc : {"edit", "sent", "checked", "gone"}, base : Nat, pm : {"included", "excluded"},
                  rows : Seq(DraftRows), mode : Catalog!Modes, role : BOOLEAN]
    /\ draft.pc \in {"sent", "checked"} => Catalog!AgentPortalComplete(draft)

Files == Seq(Catalog!FileRows) \ {<<>>}
SheetOK ==
    /\ sheet \in [pc : {"idle", "previewing", "importing"}, file : Files \cup {NULL}, previewed : BOOLEAN,
                  rows : Seq(Catalog!FileRows)]
    /\ sheet.previewed \/ sheet.pc = "previewing" => sheet.file \in Files
    /\ sheet.pc = "importing" => sheet.rows # <<>>

CatalogInv == task \in Tasks /\ PagesOK /\ RequestsOK /\ StockOK /\ DraftOK /\ SheetOK

-----------------------------------------------------------------------------
(* Rows, and rows of which some columns are written *)

LEMMA OverShape ==
    ASSUME NEW f, NEW g
    PROVE  /\ DOMAIN Catalog!Over(f, g) = DOMAIN f \cup DOMAIN g
           /\ \A c \in DOMAIN f : Catalog!Over(f, g)[c] = f[c]
           /\ \A c \in DOMAIN g \ DOMAIN f : Catalog!Over(f, g)[c] = g[c]
BY DEF Catalog!Over

LEMMA OverTyped ==
    ASSUME NEW f, NEW g, Typed(f), Typed(g)
    PROVE  Typed(Catalog!Over(f, g))
  <1> SUFFICES ASSUME NEW c \in DOMAIN Catalog!Over(f, g) \cap Columns
               PROVE  Catalog!Over(f, g)[c] \in Of[c]
    BY DEF Typed
  <1>1. CASE c \in DOMAIN f
    BY <1>1 DEF Catalog!Over, Typed
  <1>2. CASE c \notin DOMAIN f
    <2>1. c \in DOMAIN g \ DOMAIN f
      BY <1>2, OverShape
    <2> QED
      BY <2>1 DEF Catalog!Over, Typed
  <1> QED
    BY <1>1, <1>2

LEMMA ProductTyped ==
    ASSUME NEW p \in Catalog!Products
    PROVE  DOMAIN p = Columns /\ Typed(p)
BY DEF Catalog!Products, Columns, Typed, Of

LEMMA TypedProduct ==
    ASSUME NEW p, p = [c \in Columns |-> p[c]], Typed(p)
    PROVE  p \in Catalog!Products /\ p # NULL
  <1>1. DOMAIN p = Columns
    OBVIOUS
  <1>2. /\ p["item"] \in Catalog!Items /\ p["status"] \in Catalog!Statuses /\ p["base"] \in Nat
        /\ p["mode"] \in Catalog!Modes /\ p["role"] \in BOOLEAN /\ p["overlay"] \in Catalog!Overlays
    BY <1>1 DEF Columns, Typed, Of
  <1>3. p \in Catalog!Products
    BY <1>2 DEF Catalog!Products, Columns
  <1> QED
    BY <1>3, CatalogAssumption DEF Catalog!ScopesAssumption

LEMMA OverProduct ==
    ASSUME NEW f, DOMAIN f \subseteq Columns, Typed(f), NEW p \in Catalog!Products
    PROVE  Catalog!Over(f, p) \in Catalog!Products /\ Catalog!Over(f, p) # NULL
  <1> DEFINE q == Catalog!Over(f, p)
  <1>1. DOMAIN q = Columns /\ Typed(q)
    BY ProductTyped, OverShape, OverTyped
  <1>2. q = [c \in Columns |-> q[c]]
    BY <1>1 DEF Catalog!Over
  <1> HIDE DEF q
  <1>3. q \in Catalog!Products /\ q # NULL
    BY <1>1, <1>2, TypedProduct
  <1> QED
    BY <1>3 DEF q

LEMMA RowIsThere ==
    ASSUME NEW r \in Catalog!Rows
    PROVE  r # NULL
BY CatalogAssumption DEF Catalog!ScopesAssumption

LEMMA StartedShape ==
    ASSUME RowsOK, NEW v \in Ids
    PROVE  /\ Catalog!Started(v) \in Catalog!Rows
           /\ variant[v] = NULL => Catalog!Started(v).reserved = 0 /\ Catalog!Started(v).stock = 0
           /\ variant[v] # NULL => Catalog!Started(v) = variant[v]
BY DEF RowsOK, Catalog!Started, Catalog!Rows

LEMMA OverRow ==
    ASSUME NEW set, DOMAIN set \subseteq {"price", "stock"}, \A c \in DOMAIN set : set[c] \in Nat,
           NEW r \in Catalog!Rows
    PROVE  /\ Catalog!Over(set, r) \in Catalog!Rows
           /\ Catalog!Over(set, r).reserved = r.reserved
           /\ Catalog!Over(set, r).stock = IF "stock" \in DOMAIN set THEN set.stock ELSE r.stock
  <1> DEFINE q == Catalog!Over(set, r)
  <1>1. DOMAIN r = {"price", "stock", "reserved"} /\ r.price \in Nat /\ r.stock \in Int /\ r.reserved \in Nat
    BY DEF Catalog!Rows
  <1>2. DOMAIN q = {"price", "stock", "reserved"}
    BY <1>1, OverShape
  <1>3. q.reserved = r.reserved
    <2>1. "reserved" \in DOMAIN r \ DOMAIN set
      BY <1>1
    <2> QED
      BY <2>1 DEF Catalog!Over
  <1>4. q.stock = IF "stock" \in DOMAIN set THEN set.stock ELSE r.stock
    BY <1>1 DEF Catalog!Over
  <1>5. q.price = IF "price" \in DOMAIN set THEN set.price ELSE r.price
    BY <1>1 DEF Catalog!Over
  <1>6. q.price \in Nat /\ q.stock \in Int /\ q.reserved \in Nat
    BY <1>1, <1>3, <1>4, <1>5
  <1>7. q = [c \in {"price", "stock", "reserved"} |-> q[c]]
    BY <1>2 DEF Catalog!Over
  <1> HIDE DEF q
  <1>8. q \in Catalog!Rows
    BY <1>6, <1>7 DEF Catalog!Rows
  <1> QED
    BY <1>3, <1>4, <1>8 DEF q

LEMMA ChoiceShape ==
    ASSUME CatalogInv, NEW field, NEW value, <<field, value>> \in task.choices
    PROVE  field \in Columns \ {"base"} /\ value \in Of[field]
  <1>1. <<field, value>> \in Catalog!Choices
    BY CatalogAssumption DEF Catalog!ScopesAssumption, CatalogInv
  <1> QED
    BY <1>1 DEF Catalog!Choices, Columns, Of

LEMMA PriceShape ==
    ASSUME NEW amount \in Nat, NEW pm
    PROVE  Catalog!Included(amount, pm) \in Nat /\ Catalog!ExcludedEstimate(amount) \in Nat
BY DEF Catalog!Included, Catalog!ExcludedEstimate

LEMMA TableShape ==
    ASSUME CatalogInv
    PROVE  task.prices \subseteq Nat /\ task.stocks \subseteq Nat /\ task.files \subseteq Files
BY CatalogAssumption DEF Catalog!ScopesAssumption, CatalogInv, Files

-----------------------------------------------------------------------------
(* The stock *)

LEMMA NobodyHolds ==
    ASSUME StockOK, NEW v \in Ids, variant[v] = NULL
    PROVE  Catalog!HeldBy(v) = {} /\ Catalog!Cardinality(Catalog!HeldBy(v)) = 0
  <1>1. v # NULL
    BY CatalogAssumption DEF Catalog!ScopesAssumption
  <1>2. Catalog!HeldBy(v) = {}
    BY <1>1 DEF StockOK, OrdersOK, Catalog!HeldBy, Catalog!ItemsOf, Catalog!Live
  <1> QED
    BY CatalogCounts, <1>2, FS_EmptySet

LEMMA HeldFinite ==
    ASSUME NEW v
    PROVE  Catalog!IsFiniteSet(Catalog!HeldBy(v)) /\ Catalog!Cardinality(Catalog!HeldBy(v)) \in Nat
  <1>1. Catalog!HeldBy(v) \subseteq Orders
    BY DEF Catalog!HeldBy, Catalog!ItemsOf
  <1> QED
    BY CatalogCounts, <1>1, CatalogAssumption, FS_Subset, FS_CardinalityType DEF Catalog!ScopesAssumption

\* Nobody's stock moves, whatever the prices become.
LEMMA StockStays ==
    ASSUME StockOK, ProductOK', order' = order, undercut' = undercut,
           product' # NULL \/ product = NULL,
           variant' \in [Ids -> Catalog!Rows \cup {NULL}],
           \A v \in Ids :
             /\ variant'[v] = NULL <=> variant[v] = NULL
             /\ variant[v] # NULL => /\ variant'[v].stock = variant[v].stock
                                     /\ variant'[v].reserved = variant[v].reserved
    PROVE  StockOK'
  <1>1. Catalog!Live' = Catalog!Live
    BY DEF Catalog!Live
  <1>2. \A v \in Ids : Catalog!HeldBy(v)' = Catalog!HeldBy(v)
    BY DEF Catalog!HeldBy, Catalog!ItemsOf
  <1>3. RowsOK' /\ OrdersOK'
    BY <1>1 DEF StockOK, RowsOK, OrdersOK
  <1>4. Catalog!HeldStockRemains'
    BY <1>1, <1>2 DEF StockOK, Catalog!HeldStockRemains, Catalog!Live
  <1> QED
    BY <1>3, <1>4 DEF StockOK

\* One row is written, over one that is there or for the first time.
LEMMA RowWritten ==
    ASSUME StockOK, ProductOK', product' # NULL, order' = order,
           NEW v \in Ids, NEW r \in Catalog!Rows, variant' = [variant EXCEPT ![v] = r],
           r.reserved = (IF variant[v] = NULL THEN 0 ELSE variant[v].reserved),
           \/ undercut' = Catalog!Undercut(v, r.stock) /\ r.stock \in Nat
           \/ undercut' = undercut /\ r.stock = (IF variant[v] = NULL THEN 0 ELSE variant[v].stock)
    PROVE  StockOK'
  <1>1. r # NULL
    BY RowIsThere
  <1>2. /\ variant' \in [Ids -> Catalog!Rows \cup {NULL}] /\ variant'[v] = r
        /\ \A w \in Ids \ {v} : variant'[w] = variant[w]
    BY DEF StockOK, RowsOK
  <1>3. Catalog!Live' = Catalog!Live \cup {v}
    BY <1>1, <1>2 DEF Catalog!Live
  <1>4. \A w \in Ids : Catalog!HeldBy(w)' = Catalog!HeldBy(w)
    BY DEF Catalog!HeldBy, Catalog!ItemsOf
  <1>5. undercut' \subseteq undercut \cup {v} /\ \A w \in undercut : w # v => w \in undercut'
    BY DEF Catalog!Undercut
  <1>6. RowsOK'
    BY <1>2, <1>3, <1>5 DEF StockOK, RowsOK
  <1>7. OrdersOK'
    BY <1>3 DEF StockOK, OrdersOK
  <1>8. r.reserved = Catalog!Cardinality(Catalog!HeldBy(v))
    BY NobodyHolds DEF StockOK, Catalog!HeldStockRemains, Catalog!Live
  <1>9. v \notin undercut' => r.stock >= r.reserved
    <2>1. CASE variant[v] = NULL
      <3>1. r.reserved = 0 /\ r.stock \in Nat
        BY <2>1
      <3> QED
        BY <3>1
    <2>2. CASE variant[v] # NULL /\ undercut' = undercut /\ r.stock = variant[v].stock
      BY <2>2 DEF StockOK, Catalog!HeldStockRemains, Catalog!Live
    <2>3. CASE variant[v] # NULL /\ undercut' = Catalog!Undercut(v, r.stock)
      <3>1. variant[v].reserved \in Nat /\ r.stock \in Int
        BY <2>3 DEF StockOK, RowsOK, Catalog!Rows
      <3> QED
        BY <2>3, <3>1 DEF Catalog!Undercut
    <2> QED
      BY <2>1, <2>2, <2>3
  <1>10. Catalog!HeldStockRemains'
    <2> SUFFICES ASSUME NEW w \in Catalog!Live'
                 PROVE  /\ variant'[w].reserved = Catalog!Cardinality(Catalog!HeldBy(w)')
                        /\ w \notin undercut' => variant'[w].stock >= variant'[w].reserved
      BY DEF Catalog!HeldStockRemains
    <2>1. CASE w = v
      BY <2>1, <1>2, <1>4, <1>8, <1>9
    <2>2. CASE w # v
      BY <2>2, <1>2, <1>3, <1>4, <1>5 DEF StockOK, Catalog!HeldStockRemains, Catalog!Live
    <2> QED
      BY <2>1, <2>2
  <1> QED
    BY <1>6, <1>7, <1>10 DEF StockOK

\* The rows of a removed variant's orders are set to NULL.
LEMMA VariantRemoved ==
    ASSUME StockOK, UNCHANGED product, NEW v \in Ids, variant[v] # NULL,
           variant' = [variant EXCEPT ![v] = NULL], undercut' = undercut \ {v},
           order' = [o \in Orders |-> IF o \in Catalog!ItemsOf(v) THEN [order[o] EXCEPT !.variant = NULL] ELSE order[o]]
    PROVE  StockOK'
  <1>1. /\ variant' \in [Ids -> Catalog!Rows \cup {NULL}] /\ variant'[v] = NULL
        /\ \A w \in Ids \ {v} : variant'[w] = variant[w]
    BY DEF StockOK, RowsOK
  <1>2. Catalog!Live' = Catalog!Live \ {v}
    BY <1>1 DEF Catalog!Live
  <1>3. RowsOK' /\ ProductOK'
    BY <1>1, <1>2 DEF StockOK, RowsOK, ProductOK
  <1>4. v # NULL
    BY CatalogAssumption DEF Catalog!ScopesAssumption
  <1>5. OrdersOK'
    <2> SUFFICES ASSUME NEW o \in Orders
                 PROVE  /\ order'[o] \in [st : {"none", "pending", "paid", "closed"}, variant : Ids \cup {NULL}]
                        /\ order'[o].st = "pending" /\ order'[o].variant # NULL => order'[o].variant \in Catalog!Live'
      BY DEF OrdersOK
    <2>1. CASE o \in Catalog!ItemsOf(v)
      BY <2>1 DEF StockOK, OrdersOK
    <2>2. CASE o \notin Catalog!ItemsOf(v)
      BY <2>2, <1>2 DEF StockOK, OrdersOK, Catalog!ItemsOf
    <2> QED
      BY <2>1, <2>2
  <1>6. \A w \in Ids \ {v} : Catalog!HeldBy(w)' = Catalog!HeldBy(w)
    <2> SUFFICES ASSUME NEW w \in Ids \ {v}, NEW o \in Orders
                 PROVE  order'[o].st = order[o].st /\ (order'[o].variant = w <=> order[o].variant = w)
      BY DEF Catalog!HeldBy, Catalog!ItemsOf
    <2>1. CASE o \in Catalog!ItemsOf(v)
      <3>1. order'[o].variant = NULL /\ order'[o].st = order[o].st /\ order[o].variant = v
        BY <2>1 DEF StockOK, OrdersOK, Catalog!ItemsOf
      <3>2. w # NULL
        BY CatalogAssumption DEF Catalog!ScopesAssumption
      <3> QED
        BY <3>1, <3>2
    <2>2. CASE o \notin Catalog!ItemsOf(v)
      BY <2>2
    <2> QED
      BY <2>1, <2>2
  <1>7. Catalog!HeldStockRemains'
    BY <1>1, <1>2, <1>6 DEF StockOK, Catalog!HeldStockRemains, Catalog!Live
  <1> QED
    BY <1>3, <1>5, <1>7 DEF StockOK

LEMMA ProductRemoved ==
    ASSUME StockOK, \A o \in Orders : order[o].st = "none", UNCHANGED order,
           product' = NULL, variant' = [v \in Ids |-> NULL], undercut' = {}
    PROVE  StockOK'
  <1>1. Catalog!Live' = {}
    BY DEF Catalog!Live
  <1> QED
    BY <1>1 DEF StockOK, ProductOK, RowsOK, OrdersOK, Catalog!HeldStockRemains

LEMMA ProductMade ==
    ASSUME StockOK, product = NULL, ProductOK', product' # NULL, UNCHANGED <<order, undercut>>,
           variant' \in [Ids -> Catalog!Rows \cup {NULL}],
           \A v \in Ids : variant'[v] # NULL => variant'[v].reserved = 0 /\ variant'[v].stock >= 0
    PROVE  StockOK'
  <1>1. \A v \in Ids : variant[v] = NULL
    BY DEF StockOK, RowsOK
  <1>2. Catalog!Live = {} /\ undercut = {}
    BY <1>1 DEF Catalog!Live, StockOK, RowsOK
  <1>3. \A v \in Ids : Catalog!HeldBy(v)' = Catalog!HeldBy(v) /\ Catalog!Cardinality(Catalog!HeldBy(v)) = 0
    BY <1>1, NobodyHolds DEF Catalog!HeldBy, Catalog!ItemsOf
  <1>4. RowsOK' /\ OrdersOK'
    BY <1>2 DEF StockOK, RowsOK, OrdersOK
  <1>5. Catalog!HeldStockRemains'
    BY <1>3 DEF Catalog!HeldStockRemains, Catalog!Live
  <1> QED
    BY <1>4, <1>5 DEF StockOK

\* One order is made, or leaves its state, and its row's stock with it.
LEMMA OrderMoves ==
    ASSUME StockOK, UNCHANGED <<product, undercut>>, NEW v \in Catalog!Live, NEW r \in Catalog!Rows,
           NEW o \in Orders, NEW st \in {"pending", "paid", "closed"},
           \/ order[o].st = "none" /\ st = "pending" /\ r.reserved = variant[v].reserved + 1
           \/ order[o].st = "none" /\ st = "paid" /\ r.reserved = variant[v].reserved
           \/ order[o].st = "pending" /\ order[o].variant = v /\ st # "pending"
              /\ r.reserved = variant[v].reserved - 1,
           order' = [order EXCEPT ![o] = [st |-> st, variant |-> v]],
           variant' = [variant EXCEPT ![v] = r],
           v \notin undercut => r.stock >= r.reserved
    PROVE  StockOK'
  <1>1. v \in Ids /\ r # NULL
    BY RowIsThere DEF Catalog!Live
  <1>2. /\ variant' \in [Ids -> Catalog!Rows \cup {NULL}] /\ variant'[v] = r
        /\ \A w \in Ids \ {v} : variant'[w] = variant[w]
    BY <1>1 DEF StockOK, RowsOK
  <1>3. Catalog!Live' = Catalog!Live
    BY <1>1, <1>2 DEF Catalog!Live
  <1>4. order'[o] = [st |-> st, variant |-> v] /\ \A u \in Orders \ {o} : order'[u] = order[u]
    BY DEF StockOK, OrdersOK
  <1>5. RowsOK' /\ ProductOK'
    BY <1>2, <1>3 DEF StockOK, RowsOK, ProductOK, Catalog!Live
  <1>6. OrdersOK'
    BY <1>1, <1>3, <1>4 DEF StockOK, OrdersOK
  <1>7. \A w \in Catalog!Live \ {v} : Catalog!HeldBy(w)' = Catalog!HeldBy(w)
    BY <1>4 DEF Catalog!HeldBy, Catalog!ItemsOf
  <1>8. r.reserved = Catalog!Cardinality(Catalog!HeldBy(v)')
    <2>1. Catalog!Cardinality(Catalog!HeldBy(v)) = variant[v].reserved /\ Catalog!IsFiniteSet(Catalog!HeldBy(v))
          /\ Catalog!Cardinality(Catalog!HeldBy(v)) \in Nat
      BY HeldFinite DEF StockOK, Catalog!HeldStockRemains
    <2>2. CASE order[o].st = "pending"
      <3>1. o \in Catalog!HeldBy(v) /\ Catalog!HeldBy(v)' = Catalog!HeldBy(v) \ {o}
        BY <1>4, <2>2 DEF Catalog!HeldBy, Catalog!ItemsOf
      <3>2. Catalog!Cardinality(Catalog!HeldBy(v) \ {o}) = Catalog!Cardinality(Catalog!HeldBy(v)) - 1
        BY CatalogCounts, <2>1, <3>1, FS_RemoveElement
      <3> QED
        BY <2>1, <2>2, <3>1, <3>2
    <2>3. CASE order[o].st # "pending" /\ st = "pending"
      <3>1. o \notin Catalog!HeldBy(v) /\ Catalog!HeldBy(v)' = Catalog!HeldBy(v) \cup {o}
        BY <1>4, <2>3 DEF Catalog!HeldBy, Catalog!ItemsOf
      <3>2. Catalog!Cardinality(Catalog!HeldBy(v) \cup {o}) = Catalog!Cardinality(Catalog!HeldBy(v)) + 1
        BY CatalogCounts, <2>1, <3>1, FS_AddElement
      <3> QED
        BY <2>1, <2>3, <3>1, <3>2
    <2>4. CASE order[o].st # "pending" /\ st # "pending"
      <3>1. Catalog!HeldBy(v)' = Catalog!HeldBy(v)
        BY <1>4, <2>4 DEF Catalog!HeldBy, Catalog!ItemsOf
      <3> QED
        BY <2>1, <2>4, <3>1
    <2> QED
      BY <2>2, <2>3, <2>4
  <1>9. Catalog!HeldStockRemains'
    BY <1>2, <1>3, <1>7, <1>8 DEF StockOK, Catalog!HeldStockRemains, Catalog!Live
  <1> QED
    BY <1>5, <1>6, <1>9 DEF StockOK

LEMMA LiveRow ==
    ASSUME StockOK, NEW v \in Catalog!Live
    PROVE  /\ v \in Ids /\ variant[v] \in Catalog!Rows /\ product # NULL
           /\ DOMAIN variant[v] = {"price", "stock", "reserved"}
           /\ variant[v].stock \in Int /\ variant[v].reserved \in Nat /\ variant[v].price \in Nat
BY DEF StockOK, RowsOK, Catalog!Live, Catalog!Rows

LEMMA SellStock ==
    ASSUME StockOK, NEW o \in Orders, NEW v \in Ids, Catalog!Sell(o, v)
    PROVE  StockOK'
  <1>1. v \in Catalog!Live
    BY DEF Catalog!Sell, Catalog!Live
  <1> DEFINE h == variant[v].reserved + 1
  <1> PICK r : r = [variant[v] EXCEPT !.stock = variant[v].stock, !.reserved = h]
    OBVIOUS
  <1>2. h \in Nat /\ variant[v].stock \in Int /\ variant[v].stock >= h
    BY <1>1, LiveRow DEF Catalog!Sell, Catalog!Available
  <1>3. r \in Catalog!Rows /\ r.stock = variant[v].stock /\ r.reserved = h
    BY <1>1, <1>2, LiveRow DEF Catalog!Rows
  <1>4. [variant[v] EXCEPT !.reserved = @ + 1] = r
    BY <1>1, LiveRow DEF Catalog!Rows
  <1>5. variant' = [variant EXCEPT ![v] = r]
    BY <1>4 DEF Catalog!Sell
  <1>6. order[o].st = "none" /\ order' = [order EXCEPT ![o] = [st |-> "pending", variant |-> v]]
        /\ UNCHANGED <<product, undercut>>
    BY DEF Catalog!Sell
  <1> QED
    BY <1>1, <1>2, <1>3, <1>5, <1>6, OrderMoves

LEMMA ImportOneStock ==
    ASSUME StockOK, NEW o \in Orders, order[o].st = "none", NEW v \in Ids,
           Catalog!ImportOne(o, v), UNCHANGED <<product, undercut>>
    PROVE  StockOK'
  <1>1. CASE Catalog!Importable(v)
    <2>1. v \in Catalog!Live
      BY <1>1 DEF Catalog!Importable, Catalog!Live
    <2> DEFINE n == variant[v].stock - 1
    <2> PICK r : r = [variant[v] EXCEPT !.stock = n, !.reserved = variant[v].reserved]
      OBVIOUS
    <2>2. n \in Int /\ variant[v].reserved \in Nat /\ n >= variant[v].reserved
      BY <1>1, <2>1, LiveRow DEF Catalog!Importable, Catalog!Available
    <2>3. r \in Catalog!Rows /\ r.stock = n /\ r.reserved = variant[v].reserved
      BY <2>1, <2>2, LiveRow DEF Catalog!Rows
    <2>4. [variant[v] EXCEPT !.stock = @ - 1] = r
      BY <2>1, LiveRow DEF Catalog!Rows
    <2>5. variant' = [variant EXCEPT ![v] = r] /\ order' = [order EXCEPT ![o] = [st |-> "paid", variant |-> v]]
      BY <1>1, <2>4 DEF Catalog!ImportOne
    <2> QED
      BY <2>1, <2>2, <2>3, <2>5, OrderMoves
  <1>2. CASE ~Catalog!Importable(v)
    <2>1. UNCHANGED <<product, variant, order, undercut>>
      BY <1>2 DEF Catalog!ImportOne
    <2> QED
      BY <2>1, StockStays DEF StockOK, ProductOK, RowsOK
  <1> QED
    BY <1>1, <1>2

LEMMA SettleStock ==
    ASSUME StockOK, NEW o \in Orders, NEW st \in {"paid", "closed"}, NEW sold \in {0, 1}, Catalog!Settle(o, st, sold)
    PROVE  StockOK'
  <1> DEFINE v == order[o].variant
  <1>1. order[o] \in [st : {"none", "pending", "paid", "closed"}, variant : Ids \cup {NULL}]
        /\ order[o].st = "pending" /\ UNCHANGED <<product, undercut>>
    BY DEF StockOK, OrdersOK, Catalog!Settle
  <1>2. [order[o] EXCEPT !.st = st] = [st |-> st, variant |-> v]
    BY <1>1
  <1>3. order' = [order EXCEPT ![o] = [st |-> st, variant |-> v]]
    BY <1>2 DEF Catalog!Settle
  <1>4. CASE v = NULL
    <2>1. variant' = variant
      BY <1>4 DEF Catalog!Settle
    <2>2. order'[o] = [st |-> st, variant |-> NULL] /\ \A u \in Orders \ {o} : order'[u] = order[u]
      BY <1>3, <1>4 DEF StockOK, OrdersOK
    <2>3. Catalog!Live' = Catalog!Live
      BY <2>1 DEF Catalog!Live
    <2>4. ProductOK' /\ RowsOK'
      BY <1>1, <2>1, <2>3 DEF StockOK, ProductOK, RowsOK
    <2>7. OrdersOK'
      <3>1. DOMAIN order' = Orders /\ order' = [u \in Orders |-> order'[u]]
        BY <1>3 DEF StockOK, OrdersOK
      <3> QED
        BY <1>1, <2>2, <2>3, <3>1 DEF StockOK, OrdersOK
    <2>5. \A w \in Ids : Catalog!HeldBy(w)' = Catalog!HeldBy(w)
      <3>1. NULL \notin Ids
        BY CatalogAssumption DEF Catalog!ScopesAssumption
      <3> QED
        BY <1>4, <2>2, <3>1 DEF Catalog!HeldBy, Catalog!ItemsOf
    <2>6. Catalog!HeldStockRemains'
      BY <1>1, <2>1, <2>3, <2>5 DEF StockOK, Catalog!HeldStockRemains, Catalog!Live
    <2> QED
      BY <2>4, <2>6, <2>7 DEF StockOK
  <1>5. CASE v # NULL
    <2>1. v \in Catalog!Live
      BY <1>1, <1>5 DEF StockOK, OrdersOK
    <2>2. o \in Catalog!HeldBy(v)
      BY <1>1 DEF Catalog!HeldBy, Catalog!ItemsOf
    <2>3. variant[v].reserved = Catalog!Cardinality(Catalog!HeldBy(v)) /\ Catalog!Cardinality(Catalog!HeldBy(v)) # 0
          /\ (v \notin undercut => variant[v].stock >= variant[v].reserved)
      BY CatalogCounts, <2>1, <2>2, HeldFinite, FS_EmptySet DEF StockOK, Catalog!HeldStockRemains
    <2> DEFINE n == variant[v].stock - sold
               h == variant[v].reserved - 1
    <2> PICK r : r = [variant[v] EXCEPT !.stock = n, !.reserved = h]
      OBVIOUS
    <2>4. n \in Int /\ h \in Nat /\ (v \notin undercut => n >= h)
      BY <2>1, <2>3, LiveRow
    <2>5. r \in Catalog!Rows /\ r.stock = n /\ r.reserved = h
      BY <2>1, <2>4, LiveRow DEF Catalog!Rows
    <2>6. variant' = [variant EXCEPT ![v] = r]
      <3>1. variant' = [variant EXCEPT ![v].stock = @ - sold, ![v].reserved = @ - 1]
        BY <1>5 DEF Catalog!Settle
      <3> QED
        BY <3>1, <2>1, LiveRow DEF StockOK, RowsOK
    <2> QED
      BY <1>1, <1>3, <2>1, <2>4, <2>5, <2>6, OrderMoves
  <1> QED
    BY <1>4, <1>5

-----------------------------------------------------------------------------
(* The edit page and its requests *)

LEMMA TablesStay ==
    ASSUME CatalogInv, UNCHANGED <<Catalog!tables, undercut>>
    PROVE  StockOK'
  <1>1. UNCHANGED <<product, variant, order, undercut>>
    BY DEF Catalog!tables
  <1> QED
    BY <1>1, StockStays DEF CatalogInv, StockOK, ProductOK, RowsOK

LEMMA SheetsStay ==
    ASSUME CatalogInv, UNCHANGED <<draft, sheet, task>>
    PROVE  task' \in Tasks /\ DraftOK' /\ SheetOK'
BY DEF CatalogInv, DraftOK, SheetOK

LEMMA PageMoves ==
    ASSUME CatalogInv, NEW a \in Admins, page[a].pc # "waiting", UNCHANGED req,
           NEW p, PageOK(p), page' = [page EXCEPT ![a] = p]
    PROVE  PagesOK' /\ RequestsOK'
  <1>1. DOMAIN page' = Admins /\ page'[a] = p /\ \A b \in Admins \ {a} : page'[b] = page[b]
    BY DEF CatalogInv, PagesOK
  <1>2. req[a].pc = "idle"
    BY DEF CatalogInv, RequestsOK
  <1>3. PagesOK'
    BY <1>1 DEF CatalogInv, PagesOK
  <1>4. RequestsOK'
    BY <1>1, <1>2 DEF CatalogInv, RequestsOK
  <1> QED
    BY <1>3, <1>4

LEMMA OpenKeeps ==
    ASSUME CatalogInv, NEW a \in Admins, Catalog!Open(a)
    PROVE  CatalogInv'
  <1> PICK p : p = [page[a] EXCEPT !.pc = "loading"]
    OBVIOUS
  <1>1. PageOK(page[a]) /\ page' = [page EXCEPT ![a] = p] /\ page[a].pc = "closed"
    BY DEF CatalogInv, PagesOK, Catalog!Open
  <1>2. PageOK(p)
    BY <1>1 DEF PageOK
  <1>3. PagesOK' /\ RequestsOK'
    BY <1>1, <1>2, PageMoves DEF Catalog!Open
  <1> QED
    BY <1>3, TablesStay, SheetsStay DEF CatalogInv, Catalog!Open

LEMMA LoadKeeps ==
    ASSUME CatalogInv, NEW a \in Admins, Catalog!Load(a)
    PROVE  CatalogInv'
  <1> PICK p : p = IF product = NULL THEN Catalog!Blank
                   ELSE [pc |-> "ready", form |-> Catalog!Form(product),
                         seen |-> [base |-> product.base, overlay |-> product.overlay,
                                   variant |-> variant, rule |-> rule]]
    OBVIOUS
  <1>1. page' = [page EXCEPT ![a] = p] /\ page[a].pc = "loading"
    BY DEF Catalog!Load
  <1>2. PageOK(p)
    <2>1. CASE product = NULL
      BY <2>1 DEF Catalog!Blank, PageOK
    <2>2. CASE product # NULL
      <3>1. product \in Catalog!Products
        BY <2>2 DEF CatalogInv, StockOK, ProductOK
      <3>2. DOMAIN product = Columns /\ Typed(product) /\ product.base \in Nat
        BY <3>1, ProductTyped DEF Catalog!Products
      <3>3. Typed([pm |-> "included"])
        BY DEF Typed, Columns
      <3>4. FormOK(Catalog!Form(product))
        BY <3>2, <3>3, OverShape, OverTyped DEF FormOK, Catalog!Form
      <3> QED
        BY <2>2, <3>2, <3>4 DEF PageOK
    <2> QED
      BY <2>1, <2>2
  <1>3. PagesOK' /\ RequestsOK'
    BY <1>1, <1>2, PageMoves DEF Catalog!Load
  <1> QED
    BY <1>3, TablesStay, SheetsStay DEF CatalogInv, Catalog!Load

LEMMA EditKeeps ==
    ASSUME CatalogInv, NEW a \in Admins, NEW form, Catalog!Edit(a, form), FormOK(form)
    PROVE  CatalogInv'
  <1> PICK p : p = [page[a] EXCEPT !.form = form]
    OBVIOUS
  <1>1. PageOK(page[a]) /\ page' = [page EXCEPT ![a] = p] /\ page[a].pc = "ready"
    BY DEF CatalogInv, PagesOK, Catalog!Edit
  <1>2. PageOK(p)
    BY <1>1 DEF PageOK
  <1>3. PagesOK' /\ RequestsOK'
    BY <1>1, <1>2, PageMoves DEF Catalog!Edit
  <1> QED
    BY <1>3, TablesStay, SheetsStay DEF CatalogInv, Catalog!Edit

LEMMA FilledForm ==
    ASSUME NEW f, FormOK(f), NEW c \in Columns, NEW value \in Of[c]
    PROVE  FormOK([f EXCEPT ![c] = value])
BY DEF FormOK, Typed

LEMMA ReadyForm ==
    ASSUME CatalogInv, NEW a \in Admins, page[a].pc = "ready"
    PROVE  FormOK(page[a].form) /\ page[a].seen.base \in Nat
BY DEF CatalogInv, PagesOK, PageOK

LEMMA TypeKeeps ==
    ASSUME CatalogInv, NEW a \in Admins, Catalog!Type(a)
    PROVE  CatalogInv'
  <1>1. ASSUME NEW p \in task.prices, Catalog!TypePrice(a, p) PROVE CatalogInv'
    <2>1. page[a].pc = "ready" /\ Catalog!Edit(a, [page[a].form EXCEPT !.base = p])
      BY <1>1 DEF Catalog!TypePrice, Catalog!Edit
    <2>2. p \in Of["base"] /\ "base" \in Columns
      BY TableShape DEF Of, Columns
    <2> QED
      BY <2>1, <2>2, ReadyForm, FilledForm, EditKeeps
  <1>2. ASSUME NEW pm, Catalog!PriceModeChange(a, pm) PROVE CatalogInv'
    <2> PICK n : n = IF pm = "excluded" THEN Catalog!ExcludedEstimate(page[a].seen.base) ELSE page[a].seen.base
      OBVIOUS
    <2> PICK g : g = [page[a].form EXCEPT !.pm = pm]
      OBVIOUS
    <2>1. page[a].pc = "ready"
      BY <1>2 DEF Catalog!PriceModeChange, Catalog!Edit
    <2>2. Catalog!Edit(a, [page[a].form EXCEPT !.pm = pm, !.base = n])
      BY <1>2 DEF Catalog!PriceModeChange
    <2>3. Catalog!Edit(a, [g EXCEPT !["base"] = n])
      BY <2>2
    <2>4. n \in Of["base"] /\ "base" \in Columns
      BY <2>1, ReadyForm, PriceShape DEF Of, Columns
    <2>5. FormOK(g)
      BY <2>1, ReadyForm DEF FormOK, Typed, Columns
    <2> QED
      BY <2>3, <2>4, <2>5, FilledForm, EditKeeps
  <1>3. ASSUME NEW c \in task.choices, Catalog!Choose(a, c[1], c[2]) PROVE CatalogInv'
    <2> PICK field, value : field = c[1] /\ value = c[2]
      OBVIOUS
    <2>1. <<field, value>> \in task.choices
      BY <1>3 DEF Catalog!Choose
    <2>2. page[a].pc = "ready" /\ Catalog!Edit(a, [page[a].form EXCEPT ![field] = value])
      BY <1>3 DEF Catalog!Choose, Catalog!Edit
    <2>3. field \in Columns /\ value \in Of[field]
      BY <2>1, ChoiceShape
    <2> QED
      BY <2>2, <2>3, ReadyForm, FilledForm, EditKeeps
  <1> QED
    BY <1>1, <1>2, <1>3 DEF Catalog!Type

\* What a request asks for, before it is sent.
LEMMA AskKeeps ==
    ASSUME CatalogInv, NEW a \in Admins, NEW r, Catalog!Ask(a, r), "kind" \in DOMAIN r,
           r.kind = "put" => PutOK(r),
           r.kind = "deleteVariant" => "variant" \in DOMAIN r /\ r.variant \in Ids,
           "pc" \notin DOMAIN r
    PROVE  CatalogInv'
  <1> PICK q, p : q = Catalog!Over([pc |-> "sent"], r) /\ p = [page[a] EXCEPT !.pc = "waiting"]
    OBVIOUS
  <1>1. PageOK(page[a]) /\ page[a].pc = "ready" /\ page' = [page EXCEPT ![a] = p] /\ req' = [req EXCEPT ![a] = q]
    BY DEF CatalogInv, PagesOK, Catalog!Ask
  <1>2. PageOK(p) /\ p.pc = "waiting"
    BY <1>1 DEF PageOK
  <1>3. DOMAIN q = DOMAIN r \cup {"pc"} /\ q.pc = "sent"
    BY DEF Catalog!Over
  <1>4. \A c \in DOMAIN r : q[c] = r[c]
    <2>1. \A c \in DOMAIN r : c \notin DOMAIN [pc |-> "sent"]
      OBVIOUS
    <2> QED
      BY <2>1 DEF Catalog!Over
  <1>5. CatalogRequestOK(q)
    <2>1. q.kind = r.kind
      BY <1>4
    <2>2. q.kind = "put" => q.fields = r.fields /\ q.entry = r.entry
      BY <1>4, <2>1 DEF PutOK
    <2>3. q.kind = "deleteVariant" => q.variant = r.variant
      BY <1>4, <2>1
    <2> QED
      BY <1>3, <2>1, <2>2, <2>3 DEF CatalogRequestOK, PutOK
  <1>6. DOMAIN page' = Admins /\ page'[a] = p /\ \A b \in Admins \ {a} : page'[b] = page[b]
    BY <1>1 DEF CatalogInv, PagesOK
  <1>7. DOMAIN req' = Admins /\ req'[a] = q /\ \A b \in Admins \ {a} : req'[b] = req[b]
    BY <1>1 DEF CatalogInv, RequestsOK
  <1>8. PagesOK'
    BY <1>2, <1>6 DEF CatalogInv, PagesOK
  <1>9. RequestsOK'
    BY <1>2, <1>5, <1>6, <1>7 DEF CatalogInv, RequestsOK
  <1> QED
    BY <1>8, <1>9, TablesStay, SheetsStay DEF CatalogInv, Catalog!Ask

LEMMA NoFields ==
    PutOK(Catalog!Put(<<>>, NULL)) /\ DOMAIN <<>> = {} /\ Typed(<<>>)
BY DEF PutOK, Catalog!Put, Typed, EntryOK

LEMMA PutKeeps ==
    ASSUME CatalogInv, NEW a \in Admins, NEW fields, NEW entry, Catalog!Ask(a, Catalog!Put(fields, entry)),
           DOMAIN fields \subseteq Columns, Typed(fields), EntryOK(entry)
    PROVE  CatalogInv'
  <1> PICK r : r = Catalog!Put(fields, entry)
    OBVIOUS
  <1>1. DOMAIN r = {"kind", "fields", "entry"} /\ r.kind = "put" /\ r.fields = fields /\ r.entry = entry
    BY DEF Catalog!Put
  <1>2. PutOK(r)
    BY <1>1 DEF PutOK
  <1> QED
    BY <1>1, <1>2, AskKeeps

LEMMA SaveKeeps ==
    ASSUME CatalogInv, NEW a \in Admins, Catalog!Save(a)
    PROVE  CatalogInv'
  <1> PICK f : f = page[a].form
    OBVIOUS
  <1> PICK fields : fields = [item |-> f.item, status |-> f.status, base |-> Catalog!Included(f.base, f.pm),
                              mode |-> f.mode, role |-> f.role]
    OBVIOUS
  <1>1. page[a].pc = "ready" /\ Catalog!Ask(a, Catalog!Put(fields, NULL))
    BY DEF Catalog!Save, Catalog!Ask
  <1>2. FormOK(f)
    BY <1>1, ReadyForm
  <1>3. f["base"] \in Nat /\ f["item"] \in Catalog!Items /\ f["status"] \in Catalog!Statuses /\ f["mode"] \in Catalog!Modes /\ f["role"] \in BOOLEAN
    BY <1>2 DEF FormOK, Typed, Columns, Of
  <1>4. Catalog!Included(f.base, f.pm) \in Nat
    BY <1>3, PriceShape
  <1>5. DOMAIN fields \subseteq Columns /\ Typed(fields)
    BY <1>3, <1>4 DEF Columns, Typed, Of
  <1>6. EntryOK(NULL)
    BY DEF EntryOK
  <1> QED
    BY <1>1, <1>5, <1>6, PutKeeps

LEMMA SaveOverlayKeeps ==
    ASSUME CatalogInv, NEW a \in Admins, Catalog!SaveOverlay(a)
    PROVE  CatalogInv'
  <1> PICK fields : fields = [overlay |-> page[a].form.overlay]
    OBVIOUS
  <1>1. page[a].pc = "ready" /\ Catalog!Ask(a, Catalog!Put(fields, NULL))
    BY DEF Catalog!SaveOverlay
  <1>2. page[a].form["overlay"] \in Of["overlay"]
    BY <1>1, ReadyForm DEF FormOK, Typed, Columns
  <1>3. DOMAIN fields \subseteq Columns /\ Typed(fields)
    BY <1>2 DEF Columns, Typed
  <1>4. EntryOK(NULL)
    BY DEF EntryOK
  <1> QED
    BY <1>1, <1>3, <1>4, PutKeeps

LEMMA SaveFieldKeeps ==
    ASSUME CatalogInv, NEW a \in Admins, NEW field, NEW value, Catalog!SaveField(a, field, value)
    PROVE  CatalogInv'
  <1>1. field \in Columns /\ value \in Of[field]
    BY ChoiceShape DEF Catalog!SaveField
  <1>2. DOMAIN Catalog!Only(field, value) \subseteq Columns /\ Typed(Catalog!Only(field, value))
    BY <1>1 DEF Catalog!Only, Typed
  <1>3. EntryOK(NULL)
    BY DEF EntryOK
  <1> QED
    BY <1>2, <1>3, PutKeeps DEF Catalog!SaveField

LEMMA EntryKeeps ==
    ASSUME CatalogInv, NEW a \in Admins, NEW entry, Catalog!Ask(a, Catalog!Put(<<>>, entry)), EntryOK(entry)
    PROVE  CatalogInv'
BY NoFields, PutKeeps

LEMMA PressKeeps ==
    ASSUME CatalogInv, NEW a \in Admins, Catalog!Press(a)
    PROVE  CatalogInv'
  <1>1. ASSUME NEW c \in task.choices, Catalog!SaveField(a, c[1], c[2]) PROVE CatalogInv'
    BY <1>1, SaveFieldKeeps
  <1>2. ASSUME NEW v \in Ids, NEW n \in task.stocks, Catalog!UpdateStock(a, v, n) PROVE CatalogInv'
    <2> PICK e : e = [id |-> v, set |-> [stock |-> n]]
      OBVIOUS
    <2>1. n \in Nat /\ Catalog!Ask(a, Catalog!Put(<<>>, e))
      BY <1>2, TableShape DEF Catalog!UpdateStock
    <2>2. EntryOK(e)
      BY <2>1 DEF EntryOK
    <2> QED
      BY <2>1, <2>2, EntryKeeps
  <1>3. ASSUME NEW v \in Ids, NEW p \in task.prices, Catalog!UpdateVariantPrice(a, v, p) PROVE CatalogInv'
    <2> PICK e : e = [id |-> v, set |-> [price |-> p]]
      OBVIOUS
    <2>1. p \in Nat /\ Catalog!Ask(a, Catalog!Put(<<>>, e))
      BY <1>3, TableShape DEF Catalog!UpdateVariantPrice
    <2>2. EntryOK(e)
      BY <2>1 DEF EntryOK
    <2> QED
      BY <2>1, <2>2, EntryKeeps
  <1>4. ASSUME NEW p \in task.prices, NEW n \in task.stocks, Catalog!AddVariant(a, p, n) PROVE CatalogInv'
    <2> PICK e : e = [id |-> NULL, set |-> [price |-> p, stock |-> n]]
      OBVIOUS
    <2>1. p \in Nat /\ n \in Nat /\ Catalog!Ask(a, Catalog!Put(<<>>, e))
      BY <1>4, TableShape DEF Catalog!AddVariant
    <2>2. EntryOK(e)
      BY <2>1 DEF EntryOK
    <2> QED
      BY <2>1, <2>2, EntryKeeps
  <1>5. ASSUME NEW v \in Ids, Catalog!DeleteVariant(a, v) PROVE CatalogInv'
    <2> PICK r : r = [kind |-> "deleteVariant", variant |-> v]
      OBVIOUS
    <2>1. Catalog!Ask(a, r) /\ DOMAIN r = {"kind", "variant"} /\ r.kind = "deleteVariant" /\ r.variant \in Ids
      BY <1>5 DEF Catalog!DeleteVariant
    <2> QED
      BY <2>1, AskKeeps
  <1>6. ASSUME Catalog!DeleteProduct(a) PROVE CatalogInv'
    <2> PICK r : r = [kind |-> "deleteProduct"]
      OBVIOUS
    <2>1. Catalog!Ask(a, r) /\ DOMAIN r = {"kind"} /\ r.kind = "deleteProduct"
      BY <1>6 DEF Catalog!DeleteProduct
    <2> QED
      BY <2>1, AskKeeps
  <1>7. ASSUME NEW k, NEW fields, Catalog!AddRule(a, k, fields) PROVE CatalogInv'
    <2> PICK r : r = [kind |-> "addRule", key |-> k, patch |-> fields]
      OBVIOUS
    <2>1. Catalog!Ask(a, r) /\ DOMAIN r = {"kind", "key", "patch"} /\ r.kind = "addRule"
      BY <1>7 DEF Catalog!AddRule
    <2> QED
      BY <2>1, AskKeeps
  <1>8. ASSUME NEW k, NEW field, Catalog!UpdateRule(a, k, field) PROVE CatalogInv'
    <2> PICK r : r = [kind |-> "patchRule", key |-> k, patch |-> Catalog!Only(field, ~page[a].seen.rule[k][field])]
      OBVIOUS
    <2>1. Catalog!Ask(a, r) /\ DOMAIN r = {"kind", "key", "patch"} /\ r.kind = "patchRule"
      BY <1>8 DEF Catalog!UpdateRule
    <2> QED
      BY <2>1, AskKeeps
  <1> QED
    BY <1>1, <1>2, <1>3, <1>4, <1>5, <1>6, <1>7, <1>8, SaveKeeps, SaveOverlayKeeps DEF Catalog!Press

-----------------------------------------------------------------------------
(* The routes *)

LEMMA RequestMoves ==
    ASSUME CatalogInv, NEW a \in Admins, req[a].pc # "idle", UNCHANGED page,
           NEW r, r.pc \in {"sent", "checked"} => CatalogRequestOK(r), req' = [req EXCEPT ![a] = r]
    PROVE  PagesOK' /\ RequestsOK'
  <1>1. DOMAIN req' = Admins /\ req'[a] = r /\ \A b \in Admins \ {a} : req'[b] = req[b]
    BY DEF CatalogInv, RequestsOK
  <1> QED
    BY <1>1 DEF CatalogInv, RequestsOK, PagesOK

LEMMA CheckKeeps ==
    ASSUME CatalogInv, NEW a \in Admins, Catalog!Check(a)
    PROVE  CatalogInv'
  <1> PICK q : q = [req[a] EXCEPT !.pc = "checked"]
    OBVIOUS
  <1> PICK r : r = IF Catalog!Checked(req[a]) THEN q ELSE [pc |-> "failed"]
    OBVIOUS
  <1>1. CatalogRequestOK(req[a]) /\ req[a].pc = "sent" /\ req' = [req EXCEPT ![a] = r]
    BY DEF CatalogInv, RequestsOK, Catalog!Check
  <1>2. CatalogRequestOK(q)
    BY <1>1 DEF CatalogRequestOK, PutOK
  <1>3. r.pc \in {"sent", "checked"} => CatalogRequestOK(r)
    BY <1>2
  <1>4. UNCHANGED <<page, draft, sheet, task>>
    BY DEF Catalog!Check, Catalog!clients
  <1>5. PagesOK' /\ RequestsOK'
    BY <1>1, <1>3, <1>4, RequestMoves
  <1> QED
    BY <1>4, <1>5, TablesStay, SheetsStay DEF CatalogInv, Catalog!Check

LEMMA RefuseKeeps ==
    ASSUME CatalogInv, NEW a \in Admins, req[a].pc = "checked", Catalog!Refuse(a)
    PROVE  CatalogInv'
  <1> PICK r : r = [pc |-> "failed"]
    OBVIOUS
  <1>1. req' = [req EXCEPT ![a] = r] /\ UNCHANGED <<page, draft, sheet, task>>
    BY DEF Catalog!Refuse, Catalog!clients
  <1>2. PagesOK' /\ RequestsOK'
    BY <1>1, RequestMoves
  <1> QED
    BY <1>1, <1>2, TablesStay, SheetsStay DEF CatalogInv, Catalog!Refuse

LEMMA DoneKeeps ==
    ASSUME CatalogInv, NEW a \in Admins, req[a].pc = "checked", Catalog!Done(a), StockOK'
    PROVE  CatalogInv'
  <1> PICK r : r = [pc |-> "done"]
    OBVIOUS
  <1>1. req' = [req EXCEPT ![a] = r] /\ UNCHANGED <<page, draft, sheet, task>>
    BY DEF Catalog!Done, Catalog!clients
  <1>2. PagesOK' /\ RequestsOK'
    BY <1>1, RequestMoves
  <1> QED
    BY <1>1, <1>2, SheetsStay DEF CatalogInv

LEMMA CommitPutKeeps ==
    ASSUME CatalogInv, NEW a \in Admins, Catalog!CommitPut(a)
    PROVE  CatalogInv'
  <1> PICK fields, e : fields = req[a].fields /\ e = req[a].entry
    OBVIOUS
  <1>1. /\ req[a].pc = "checked" /\ DOMAIN fields \subseteq Columns /\ Typed(fields) /\ EntryOK(e)
    BY DEF Catalog!CommitPut, CatalogInv, RequestsOK, CatalogRequestOK, PutOK
  <1>2. CASE Catalog!Writable(a) /\ Catalog!Done(a) /\ product' = Catalog!Over(fields, product) /\ order' = order
    <2>1. product \in Catalog!Products /\ product # NULL /\ Catalog!AgentPortalComplete(product')
      BY <1>2 DEF Catalog!Writable, Catalog!Constraint, CatalogInv, StockOK, ProductOK
    <2>2. product' \in Catalog!Products /\ product' # NULL
      BY <1>1, <1>2, <2>1, OverProduct
    <2>3. ProductOK' /\ StockOK
      BY <2>1, <2>2 DEF ProductOK, CatalogInv
    <2>4. ASSUME NEW v \in Catalog!Target(a), Catalog!WriteEntry(a, v) PROVE StockOK'
      <3>1. v \in Ids /\ e # NULL
        BY <2>4 DEF Catalog!Target
      <3>2. DOMAIN e.set \subseteq {"price", "stock"} /\ \A c \in DOMAIN e.set : e.set[c] \in Nat
        BY <1>1, <3>1 DEF EntryOK
      <3> PICK r : r = Catalog!Over(e.set, Catalog!Started(v))
        OBVIOUS
      <3>3. /\ Catalog!Started(v) \in Catalog!Rows
            /\ variant[v] = NULL => Catalog!Started(v).reserved = 0 /\ Catalog!Started(v).stock = 0
            /\ variant[v] # NULL => Catalog!Started(v) = variant[v]
        BY <2>3, <3>1, StartedShape DEF StockOK
      <3>4. /\ r \in Catalog!Rows /\ r.reserved = Catalog!Started(v).reserved
            /\ r.stock = IF "stock" \in DOMAIN e.set THEN e.set.stock ELSE Catalog!Started(v).stock
        BY <3>2, <3>3, OverRow
      <3>5. variant' = [variant EXCEPT ![v] = r]
        BY <2>4 DEF Catalog!WriteEntry
      <3>6. r.reserved = IF variant[v] = NULL THEN 0 ELSE variant[v].reserved
        BY <3>3, <3>4
      <3>7. \/ undercut' = Catalog!Undercut(v, r.stock) /\ r.stock \in Nat
            \/ undercut' = undercut /\ r.stock = (IF variant[v] = NULL THEN 0 ELSE variant[v].stock)
        <4>1. CASE "stock" \in DOMAIN e.set
          BY <4>1, <2>4, <3>2, <3>4 DEF Catalog!WriteEntry
        <4>2. CASE "stock" \notin DOMAIN e.set
          BY <4>2, <2>4, <3>3, <3>4 DEF Catalog!WriteEntry
        <4> QED
          BY <4>1, <4>2
      <3> QED
        BY <1>2, <2>2, <2>3, <3>1, <3>4, <3>5, <3>6, <3>7, RowWritten
    <2>5. ASSUME e = NULL, variant' = Catalog!Cascaded(a), UNCHANGED undercut PROVE StockOK'
      <3>1. RowsOK /\ \A v \in Ids : Catalog!Cascades(a, v) => v \in Catalog!Live /\ "base" \in DOMAIN fields
        BY <2>3 DEF Catalog!Cascades, StockOK
      <3>2. "base" \in DOMAIN fields => fields.base \in Nat
        BY <1>1 DEF Typed, Columns, Of
      <3>3. ASSUME NEW v \in Ids
            PROVE  /\ variant'[v] \in Catalog!Rows \cup {NULL}
                   /\ variant'[v] = NULL <=> variant[v] = NULL
                   /\ variant[v] # NULL => /\ variant'[v].stock = variant[v].stock
                                           /\ variant'[v].reserved = variant[v].reserved
        <4>1. CASE Catalog!Cascades(a, v)
          <5> PICK n : n = fields.base
            OBVIOUS
          <5> PICK r : r = [variant[v] EXCEPT !.price = n]
            OBVIOUS
          <5>1. variant'[v] = r
            BY <4>1, <2>5 DEF Catalog!Cascaded
          <5>2. variant[v] \in Catalog!Rows /\ n \in Nat
            BY <4>1, <2>3, <3>1, <3>2, LiveRow
          <5>3. r \in Catalog!Rows /\ r.stock = variant[v].stock /\ r.reserved = variant[v].reserved
            BY <5>2 DEF Catalog!Rows
          <5> QED
            BY <5>1, <5>2, <5>3, RowIsThere
        <4>2. CASE ~Catalog!Cascades(a, v)
          <5>1. variant'[v] = variant[v]
            BY <4>2, <2>5 DEF Catalog!Cascaded
          <5> QED
            BY <5>1, <3>1 DEF RowsOK
        <4> QED
          BY <4>1, <4>2
      <3>4. variant' \in [Ids -> Catalog!Rows \cup {NULL}]
        <4>1. variant' = [v \in Ids |-> variant'[v]]
          BY <2>5 DEF Catalog!Cascaded
        <4> QED
          BY <4>1, <3>3
      <3> QED
        BY <1>2, <2>2, <2>3, <2>5, <3>3, <3>4, StockStays
    <2>6. StockOK'
      <3>1. CASE Catalog!Writable(a) /\ \E v \in Catalog!Target(a) : Catalog!WriteEntry(a, v)
        BY <3>1, <2>4
      <3>2. CASE e = NULL /\ variant' = Catalog!Cascaded(a) /\ UNCHANGED undercut
        BY <3>2, <2>5
      <3> QED
        BY <1>2, <3>1, <3>2 DEF Catalog!CommitPut
    <2> QED
      BY <1>1, <1>2, <2>6, DoneKeeps
  <1>3. CASE ~Catalog!Writable(a) /\ Catalog!Refuse(a)
    BY <1>1, <1>3, RefuseKeeps
  <1> QED
    BY <1>2, <1>3 DEF Catalog!CommitPut

LEMMA CommitDeleteVariantKeeps ==
    ASSUME CatalogInv, NEW a \in Admins, Catalog!CommitDeleteVariant(a)
    PROVE  CatalogInv'
  <1> PICK v : v = req[a].variant
    OBVIOUS
  <1>1. req[a].pc = "checked" /\ v \in Ids /\ StockOK
    BY DEF Catalog!CommitDeleteVariant, CatalogInv, RequestsOK, CatalogRequestOK
  <1>2. CASE variant[v] = NULL /\ Catalog!Refuse(a)
    BY <1>1, <1>2, RefuseKeeps
  <1>3. CASE /\ variant[v] # NULL /\ variant' = [variant EXCEPT ![v] = NULL] /\ undercut' = undercut \ {v}
             /\ order' = [o \in Orders |-> IF o \in Catalog!ItemsOf(v) THEN [order[o] EXCEPT !.variant = NULL] ELSE order[o]]
             /\ UNCHANGED product /\ Catalog!Done(a)
    <2>1. StockOK'
      BY <1>1, <1>3, VariantRemoved
    <2> QED
      BY <1>1, <1>3, <2>1, DoneKeeps
  <1> QED
    BY <1>2, <1>3 DEF Catalog!CommitDeleteVariant

LEMMA CommitDeleteProductKeeps ==
    ASSUME CatalogInv, NEW a \in Admins, Catalog!CommitDeleteProduct(a)
    PROVE  CatalogInv'
  <1>1. req[a].pc = "checked" /\ StockOK
    BY DEF Catalog!CommitDeleteProduct, CatalogInv
  <1>2. CASE Catalog!Refuse(a)
    BY <1>1, <1>2, RefuseKeeps
  <1>3. CASE /\ product' = NULL /\ variant' = [v \in Ids |-> NULL] /\ undercut' = {}
             /\ Catalog!Unreferenced /\ UNCHANGED order /\ Catalog!Done(a)
    <2>1. StockOK'
      BY <1>1, <1>3, ProductRemoved DEF Catalog!Unreferenced
    <2> QED
      BY <1>1, <1>3, <2>1, DoneKeeps
  <1> QED
    BY <1>2, <1>3 DEF Catalog!CommitDeleteProduct

LEMMA CommitRuleKeeps ==
    ASSUME CatalogInv, NEW a \in Admins, Catalog!CommitRule(a)
    PROVE  CatalogInv'
  <1>1. req[a].pc = "checked" /\ StockOK
    BY DEF Catalog!CommitRule, CatalogInv
  <1>2. CASE Catalog!Refuse(a)
    BY <1>1, <1>2, RefuseKeeps
  <1>3. CASE Catalog!Done(a) /\ UNCHANGED <<product, variant, order, undercut>>
    <2>1. StockOK'
      BY <1>1, <1>3, StockStays DEF StockOK, ProductOK, RowsOK
    <2> QED
      BY <1>1, <1>3, <2>1, DoneKeeps
  <1> QED
    BY <1>2, <1>3 DEF Catalog!CommitRule

LEMMA AnswerKeeps ==
    ASSUME CatalogInv, NEW a \in Admins, NEW lost \in BOOLEAN, Catalog!Answer(a, lost)
    PROVE  CatalogInv'
  <1> PICK pc : pc = IF req[a].pc = "done" /\ ~lost THEN "loading" ELSE "ready"
    OBVIOUS
  <1> PICK p : p = [page[a] EXCEPT !.pc = pc]
    OBVIOUS
  <1>1. /\ req[a].pc # "idle" /\ pc \in {"loading", "ready"}
        /\ page' = [page EXCEPT ![a] = p] /\ req' = [req EXCEPT ![a] = Catalog!Idle]
    BY DEF Catalog!Answer
  <1>2. PageOK(page[a]) /\ page[a].pc = "waiting"
    BY <1>1 DEF CatalogInv, PagesOK, RequestsOK
  <1>3. PageOK(p)
    BY <1>1, <1>2 DEF PageOK
  <1>4. DOMAIN page' = Admins /\ page'[a] = p /\ \A b \in Admins \ {a} : page'[b] = page[b]
    BY <1>1 DEF CatalogInv, PagesOK
  <1>5. DOMAIN req' = Admins /\ req'[a] = Catalog!Idle /\ \A b \in Admins \ {a} : req'[b] = req[b]
    BY <1>1 DEF CatalogInv, RequestsOK
  <1>6. PagesOK'
    BY <1>3, <1>4 DEF CatalogInv, PagesOK
  <1>7. RequestsOK'
    BY <1>4, <1>5 DEF CatalogInv, RequestsOK, Catalog!Idle
  <1> QED
    BY <1>6, <1>7, TablesStay, SheetsStay DEF CatalogInv, Catalog!Answer

LEMMA ServeKeeps ==
    ASSUME CatalogInv, NEW a \in Admins, Catalog!Serve(a)
    PROVE  CatalogInv'
BY CheckKeeps, CommitPutKeeps, CommitDeleteVariantKeeps, CommitDeleteProductKeeps, CommitRuleKeeps, AnswerKeeps DEF Catalog!Serve

-----------------------------------------------------------------------------
(* The creation page *)

LEMMA PagesStay ==
    ASSUME CatalogInv, UNCHANGED <<page, req>>
    PROVE  PagesOK' /\ RequestsOK'
BY DEF CatalogInv, PagesOK, RequestsOK

LEMMA SheetStays ==
    ASSUME CatalogInv, UNCHANGED sheet
    PROVE  SheetOK'
BY DEF CatalogInv, SheetOK

LEMMA DraftStays ==
    ASSUME CatalogInv, UNCHANGED draft
    PROVE  DraftOK'
BY DEF CatalogInv, DraftOK

LEMMA DraftRowsShape ==
    ASSUME CatalogInv
    PROVE  /\ draft.rows \in Seq(DraftRows) /\ Len(draft.rows) \in Nat
           /\ DOMAIN draft.rows = 1..Len(draft.rows)
           /\ \A i \in DOMAIN draft.rows : draft.rows[i] \in DraftRows
  <1>1. draft.rows \in Seq(DraftRows)
    BY DEF CatalogInv, DraftOK
  <1> QED
    BY <1>1, ElementOfSeq, LenProperties

LEMMA RowsOfDraft ==
    ASSUME CatalogInv, NEW rows, DOMAIN rows = DOMAIN draft.rows, rows = [i \in DOMAIN rows |-> rows[i]],
           \A i \in DOMAIN rows : rows[i] \in DraftRows
    PROVE  rows \in Seq(DraftRows)
  <1>1. rows \in [1..Len(draft.rows) -> DraftRows] /\ Len(draft.rows) \in Nat
    BY DraftRowsShape
  <1> QED
    BY <1>1, SeqDef

LEMMA EditDraftKeeps ==
    ASSUME CatalogInv, NEW d, Catalog!EditDraft(d), d.pc = "edit",
           d \in [pc : {"edit", "sent", "checked", "gone"}, base : Nat, pm : {"included", "excluded"},
                  rows : Seq(DraftRows), mode : Catalog!Modes, role : BOOLEAN]
    PROVE  CatalogInv'
  <1>1. DraftOK'
    BY DEF Catalog!EditDraft, DraftOK
  <1>2. UNCHANGED <<Catalog!tables, undercut, page, req, sheet, task>>
    BY DEF Catalog!EditDraft
  <1> QED
    BY <1>1, <1>2, TablesStay, PagesStay, SheetStays DEF CatalogInv

LEMMA DraftRowsKeep ==
    ASSUME CatalogInv, NEW rows, rows \in Seq(DraftRows), Catalog!EditDraft([draft EXCEPT !.rows = rows])
    PROVE  CatalogInv'
  <1> PICK d : d = [draft EXCEPT !.rows = rows]
    OBVIOUS
  <1>1. Catalog!EditDraft(d) /\ draft.pc = "edit"
    BY DEF Catalog!EditDraft
  <1>2. d \in [pc : {"edit", "sent", "checked", "gone"}, base : Nat, pm : {"included", "excluded"},
               rows : Seq(DraftRows), mode : Catalog!Modes, role : BOOLEAN] /\ d.pc = draft.pc
    BY DEF CatalogInv, DraftOK
  <1> QED
    BY <1>1, <1>2, EditDraftKeeps

LEMMA DraftPriceKeeps ==
    ASSUME CatalogInv, NEW p \in task.prices, Catalog!DraftPrice(p)
    PROVE  CatalogInv'
  <1> PICK rows : rows = [i \in DOMAIN draft.rows |->
                            IF draft.rows[i].price = draft.base THEN [draft.rows[i] EXCEPT !.price = p]
                            ELSE draft.rows[i]]
    OBVIOUS
  <1> PICK d : d = [draft EXCEPT !.base = p, !.rows = rows]
    OBVIOUS
  <1>1. p \in Nat
    BY TableShape
  <1>2. \A i \in DOMAIN rows : rows[i] \in DraftRows
    BY <1>1, DraftRowsShape DEF DraftRows
  <1>3. rows \in Seq(DraftRows)
    BY <1>2, RowsOfDraft
  <1>4. draft.pc = "edit"
    BY DEF Catalog!DraftPrice, Catalog!EditDraft
  <1>5. d \in [pc : {"edit", "sent", "checked", "gone"}, base : Nat, pm : {"included", "excluded"},
               rows : Seq(DraftRows), mode : Catalog!Modes, role : BOOLEAN] /\ d.pc = "edit"
    BY <1>1, <1>3, <1>4 DEF CatalogInv, DraftOK
  <1>6. Catalog!EditDraft(d)
    BY DEF Catalog!DraftPrice, CatalogInv, DraftOK
  <1> QED
    BY <1>5, <1>6, EditDraftKeeps

LEMMA SetRowKeeps ==
    ASSUME CatalogInv, NEW i, NEW p \in task.prices, NEW n \in task.stocks, Catalog!SetRow(i, p, n)
    PROVE  CatalogInv'
  <1> PICK r : r = [price |-> p, stock |-> n]
    OBVIOUS
  <1> PICK rows : rows = [draft.rows EXCEPT ![i] = r]
    OBVIOUS
  <1>1. r \in DraftRows
    BY TableShape DEF DraftRows
  <1>2. \A j \in DOMAIN rows : rows[j] \in DraftRows
    BY <1>1, DraftRowsShape
  <1>3. rows \in Seq(DraftRows)
    BY <1>2, RowsOfDraft
  <1>4. Catalog!EditDraft([draft EXCEPT !.rows = rows])
    BY DEF Catalog!SetRow, CatalogInv, DraftOK
  <1> QED
    BY <1>3, <1>4, DraftRowsKeep

LEMMA AddRowKeeps ==
    ASSUME CatalogInv, Catalog!AddRow
    PROVE  CatalogInv'
  <1> PICK r : r = Catalog!DraftRow(draft.base)
    OBVIOUS
  <1> PICK rows : rows = Append(draft.rows, r)
    OBVIOUS
  <1>1. r \in DraftRows
    BY DEF CatalogInv, DraftOK, Catalog!DraftRow, DraftRows
  <1>2. rows \in Seq(DraftRows)
    BY <1>1, DraftRowsShape, AppendProperties
  <1>3. Catalog!EditDraft([draft EXCEPT !.rows = rows])
    BY DEF Catalog!AddRow
  <1> QED
    BY <1>2, <1>3, DraftRowsKeep

LEMMA RemoveRowKeeps ==
    ASSUME CatalogInv, Catalog!RemoveRow
    PROVE  CatalogInv'
  <1> PICK rows : rows = Tail(draft.rows)
    OBVIOUS
  <1>1. draft.rows # <<>>
    BY DraftRowsShape, EmptySeq DEF Catalog!RemoveRow
  <1>2. rows \in Seq(DraftRows)
    BY <1>1, DraftRowsShape, HeadTailProperties
  <1>3. Catalog!EditDraft([draft EXCEPT !.rows = rows])
    BY DEF Catalog!RemoveRow
  <1> QED
    BY <1>2, <1>3, DraftRowsKeep

LEMMA DraftModeKeeps ==
    ASSUME CatalogInv, NEW pm \in {"included", "excluded"}, Catalog!DraftMode(pm)
    PROVE  CatalogInv'
  <1> PICK d : d = [draft EXCEPT !.pm = pm]
    OBVIOUS
  <1>1. d \in [pc : {"edit", "sent", "checked", "gone"}, base : Nat, pm : {"included", "excluded"},
               rows : Seq(DraftRows), mode : Catalog!Modes, role : BOOLEAN] /\ d.pc = draft.pc
    BY DEF CatalogInv, DraftOK
  <1>2. Catalog!EditDraft(d) /\ draft.pc = "edit"
    BY DEF Catalog!DraftMode, Catalog!EditDraft
  <1> QED
    BY <1>1, <1>2, EditDraftKeeps

LEMMA CreateKeeps ==
    ASSUME CatalogInv, NEW mode \in Catalog!Modes, NEW role \in BOOLEAN, Catalog!Create(mode, role)
    PROVE  CatalogInv'
  <1>1. DraftOK'
    BY DEF CatalogInv, DraftOK, Catalog!Create, Catalog!AgentPortalComplete
  <1> QED
    BY <1>1, TablesStay, PagesStay, SheetStays DEF CatalogInv, Catalog!Create

LEMMA CheckCreateKeeps ==
    ASSUME CatalogInv, Catalog!CheckCreate
    PROVE  CatalogInv'
  <1>1. DraftOK'
    BY DEF CatalogInv, DraftOK, Catalog!CheckCreate, Catalog!AgentPortalComplete
  <1> QED
    BY <1>1, TablesStay, PagesStay, SheetStays DEF CatalogInv, Catalog!CheckCreate

LEMMA CommitCreateKeeps ==
    ASSUME CatalogInv, Catalog!CommitCreate
    PROVE  CatalogInv'
  <1>1. DraftOK'
    BY DEF CatalogInv, DraftOK, Catalog!CommitCreate
  <1>2. CASE product # NULL /\ UNCHANGED <<Catalog!tables, page, req, sheet, undercut, task>>
    BY <1>1, <1>2, TablesStay, PagesStay, SheetStays DEF CatalogInv
  <1>3. CASE /\ product = NULL /\ UNCHANGED <<order, page, req, sheet, undercut, task>>
             /\ product' = [item |-> "nft", status |-> "draft", base |-> Catalog!Included(draft.base, draft.pm),
                            mode |-> draft.mode, role |-> draft.role, overlay |-> NULL]
             /\ variant' = [v \in Ids |->
                  IF v \in DOMAIN draft.rows
                  THEN [price |-> Catalog!Asked(v), stock |-> draft.rows[v].stock, reserved |-> 0] ELSE NULL]
    <2>1. draft.base \in Nat /\ draft.mode \in Catalog!Modes /\ draft.role \in BOOLEAN /\ Catalog!AgentPortalComplete(draft)
      BY DEF CatalogInv, DraftOK, Catalog!CommitCreate
    <2>2. product' \in Catalog!Products /\ Catalog!AgentPortalComplete(product')
      BY <1>3, <2>1, PriceShape DEF Catalog!Products, Catalog!Items, Catalog!Statuses, Catalog!Overlays, Catalog!AgentPortalComplete
    <2>3. product' # NULL
      BY <2>2, CatalogAssumption DEF Catalog!ScopesAssumption
    <2>4. ASSUME NEW v \in DOMAIN draft.rows
          PROVE  Catalog!Asked(v) \in Nat /\ draft.rows[v].stock \in Nat
      <3>1. draft.rows[v] \in DraftRows
        BY DraftRowsShape
      <3>2. draft.rows[v].price \in Nat /\ draft.rows[v].stock \in Nat
        BY <3>1 DEF DraftRows
      <3>3. Catalog!Included(draft.base, draft.pm) \in Nat /\ Catalog!Included(draft.rows[v].price, draft.pm) \in Nat
        BY <2>1, <3>2, PriceShape
      <3> QED
        BY <3>2, <3>3 DEF Catalog!Asked
    <2>5. ASSUME NEW v \in Ids
          PROVE  /\ variant'[v] \in Catalog!Rows \cup {NULL}
                 /\ variant'[v] # NULL => variant'[v].reserved = 0 /\ variant'[v].stock >= 0
      <3>1. CASE v \in DOMAIN draft.rows
        BY <1>3, <2>4, <3>1 DEF Catalog!Rows
      <3>2. CASE v \notin DOMAIN draft.rows
        BY <1>3, <3>2
      <3> QED
        BY <3>1, <3>2
    <2>6. variant' \in [Ids -> Catalog!Rows \cup {NULL}]
      <3>1. variant' = [v \in Ids |-> variant'[v]]
        BY <1>3
      <3> QED
        BY <3>1, <2>5
    <2>7. StockOK'
      BY <1>3, <2>2, <2>3, <2>5, <2>6, ProductMade DEF CatalogInv, ProductOK
    <2> QED
      BY <1>1, <1>3, <2>7, PagesStay, SheetStays DEF CatalogInv
  <1> QED
    BY <1>2, <1>3 DEF Catalog!CommitCreate

LEMMA CreationKeeps ==
    ASSUME CatalogInv, Catalog!Creation
    PROVE  CatalogInv'
  <1>1. {"none", "agent_portal"} = Catalog!Modes
    BY DEF Catalog!Modes
  <1> QED
    BY <1>1, DraftPriceKeeps, DraftModeKeeps, AddRowKeeps, RemoveRowKeeps, SetRowKeeps, CreateKeeps,
       CheckCreateKeeps, CommitCreateKeeps DEF Catalog!Creation

-----------------------------------------------------------------------------
(* The imports and the sales *)

LEMMA RestStays ==
    ASSUME CatalogInv, UNCHANGED <<page, req, draft, task>>, SheetOK', StockOK'
    PROVE  CatalogInv'
BY PagesStay, DraftStays DEF CatalogInv

LEMMA SheetMoves ==
    ASSUME CatalogInv, UNCHANGED <<Catalog!tables, page, req, draft, undercut, task>>, SheetOK'
    PROVE  CatalogInv'
BY RestStays, TablesStay

LEMMA ChooseFileKeeps ==
    ASSUME CatalogInv, NEW f \in task.files, Catalog!ChooseFile(f)
    PROVE  CatalogInv'
  <1>1. f \in Files
    BY TableShape
  <1>2. SheetOK'
    BY <1>1 DEF CatalogInv, SheetOK, Catalog!ChooseFile
  <1> QED
    BY <1>2, RestStays, TablesStay DEF Catalog!ChooseFile

LEMMA PreviewKeeps ==
    ASSUME CatalogInv, Catalog!Preview \/ Catalog!Previewed
    PROVE  CatalogInv'
  <1>1. SheetOK'
    BY DEF CatalogInv, SheetOK, Catalog!Preview, Catalog!Previewed
  <1> QED
    BY <1>1, RestStays, TablesStay DEF Catalog!Preview, Catalog!Previewed

LEMMA ImportKeeps ==
    ASSUME CatalogInv, Catalog!Import
    PROVE  CatalogInv'
  <1>1. sheet.file \in Seq(Catalog!FileRows) /\ sheet.file # <<>>
    BY DEF CatalogInv, SheetOK, Catalog!Import, Files
  <1>2. SheetOK'
    BY <1>1 DEF CatalogInv, SheetOK, Catalog!Import
  <1> QED
    BY <1>2, RestStays, TablesStay DEF Catalog!Import

LEMMA ImportStopsKeeps ==
    ASSUME CatalogInv, Catalog!ImportStops
    PROVE  CatalogInv'
  <1>1. <<>> \in Seq(Catalog!FileRows)
    BY EmptySeq
  <1>2. SheetOK'
    BY <1>1 DEF CatalogInv, SheetOK, Catalog!ImportStops
  <1> QED
    BY <1>2, RestStays, TablesStay DEF Catalog!ImportStops

LEMMA NextRowKeeps ==
    ASSUME CatalogInv, sheet.pc = "importing", Catalog!NextRow
    PROVE  Head(sheet.rows) \in Catalog!FileRows /\ SheetOK'
  <1>1. sheet.rows \in Seq(Catalog!FileRows) /\ sheet.rows # <<>>
    BY DEF CatalogInv, SheetOK
  <1>2. Head(sheet.rows) \in Catalog!FileRows /\ Tail(sheet.rows) \in Seq(Catalog!FileRows)
        /\ Len(Tail(sheet.rows)) = Len(sheet.rows) - 1
    BY <1>1, HeadTailProperties
  <1>3. Len(sheet.rows) # 1 => Tail(sheet.rows) # <<>>
    <2>1. Len(sheet.rows) \in Nat
      BY <1>1, LenProperties
    <2>2. Len(<<>>) = 0
      OBVIOUS
    <2> SUFFICES ASSUME Len(sheet.rows) # 1, Tail(sheet.rows) = <<>>
                 PROVE  FALSE
      OBVIOUS
    <2>3. Len(Tail(sheet.rows)) = 0
      BY <2>2
    <2> QED
      BY <1>2, <2>1, <2>3
  <1> PICK rows, pc : rows = Tail(sheet.rows) /\ pc = IF Len(sheet.rows) = 1 THEN "idle" ELSE "importing"
    OBVIOUS
  <1>4. sheet' = [sheet EXCEPT !.rows = rows, !.pc = pc]
    BY DEF Catalog!NextRow, CatalogInv, SheetOK
  <1>5. SheetOK'
    BY <1>2, <1>3, <1>4 DEF CatalogInv, SheetOK
  <1> QED
    BY <1>2, <1>5

LEMMA ImportProductRowKeeps ==
    ASSUME CatalogInv, Catalog!ImportProductRow
    PROVE  CatalogInv'
  <1> PICK r : r = Head(sheet.rows)
    OBVIOUS
  <1>1. SheetOK' /\ r \in Catalog!FileRows /\ r.kind = "product" /\ StockOK
    BY NextRowKeeps DEF Catalog!ImportProductRow, CatalogInv
  <1>2. r.variant \in Ids /\ r.price \in Nat /\ r.stock \in Nat /\ r.item \in Catalog!Items /\ r.status \in Catalog!Statuses
    BY <1>1 DEF Catalog!FileRows
  <1> PICK v, new : /\ v = r.variant
                    /\ new = [price |-> r.price, stock |-> r.stock,
                              reserved |-> IF variant[v] = NULL THEN 0 ELSE variant[v].reserved]
    OBVIOUS
  <1>3. /\ product' = IF product = NULL
                      THEN [item |-> r.item, status |-> r.status, base |-> r.price, mode |-> "none", role |-> FALSE,
                            overlay |-> NULL]
                      ELSE [product EXCEPT !.item = r.item, !.status = r.status]
        /\ undercut' = Catalog!Undercut(v, new.stock) /\ order' = order
        /\ UNCHANGED <<page, req, draft, task>>
    BY DEF Catalog!ImportProductRow
  <1>4. variant' = [variant EXCEPT ![v] = new]
    BY <1>1, <1>2 DEF Catalog!ImportProductRow, StockOK, RowsOK
  <1>5. product' \in Catalog!Products /\ Catalog!AgentPortalComplete(product')
    <2>1. CASE product = NULL
      BY <1>2, <1>3, <2>1 DEF Catalog!Products, Catalog!Modes, Catalog!Overlays, Catalog!AgentPortalComplete
    <2>2. CASE product # NULL
      <3>1. product \in Catalog!Products /\ Catalog!AgentPortalComplete(product)
        BY <1>1, <2>2 DEF StockOK, ProductOK
      <3> QED
        BY <1>2, <1>3, <2>2, <3>1 DEF Catalog!Products, Catalog!AgentPortalComplete
    <2> QED
      BY <2>1, <2>2
  <1>6. product' # NULL /\ ProductOK'
    BY <1>5, CatalogAssumption DEF Catalog!ScopesAssumption, ProductOK
  <1>7. new \in Catalog!Rows
    BY <1>1, <1>2 DEF StockOK, RowsOK, Catalog!Rows
  <1>8. StockOK'
    BY <1>1, <1>2, <1>3, <1>4, <1>6, <1>7, RowWritten
  <1> QED
    BY <1>1, <1>3, <1>8, RestStays

LEMMA ImportOrderRowKeeps ==
    ASSUME CatalogInv, NEW o \in Orders, Catalog!ImportOrderRow(o)
    PROVE  CatalogInv'
  <1> PICK r, v : r = Head(sheet.rows) /\ v = r.variant
    OBVIOUS
  <1>1. SheetOK' /\ r \in Catalog!FileRows /\ r.kind = "order" /\ StockOK
    BY NextRowKeeps DEF Catalog!ImportOrderRow, CatalogInv
  <1>2. v \in Ids
    BY <1>1 DEF Catalog!FileRows
  <1>3. order[o].st = "none" /\ Catalog!ImportOne(o, v) /\ UNCHANGED <<product, undercut>>
    BY DEF Catalog!ImportOrderRow
  <1>4. StockOK'
    BY <1>1, <1>2, <1>3, ImportOneStock
  <1> QED
    BY <1>1, <1>4, RestStays DEF Catalog!ImportOrderRow

LEMMA ImportBadRowKeeps ==
    ASSUME CatalogInv, Catalog!ImportBadRow
    PROVE  CatalogInv'
  <1>1. SheetOK'
    BY NextRowKeeps DEF Catalog!ImportBadRow
  <1> QED
    BY <1>1, RestStays, TablesStay DEF Catalog!ImportBadRow

LEMMA ExternalOrderKeeps ==
    ASSUME CatalogInv, NEW o \in Orders, NEW v \in Ids, Catalog!ExternalOrder(o, v)
    PROVE  CatalogInv'
  <1>1. StockOK'
    BY ImportOneStock DEF Catalog!ExternalOrder, CatalogInv
  <1>2. UNCHANGED <<page, req, draft, sheet, task>>
    BY DEF Catalog!ExternalOrder, Catalog!clients
  <1> QED
    BY <1>1, <1>2, SheetStays, RestStays

LEMMA ImportsKeep ==
    ASSUME CatalogInv, Catalog!Imports
    PROVE  CatalogInv'
BY ChooseFileKeeps, PreviewKeeps, ImportKeeps, ImportStopsKeeps, ImportProductRowKeeps, ImportOrderRowKeeps,
   ImportBadRowKeeps, ExternalOrderKeeps DEF Catalog!Imports

LEMMA SalesKeep ==
    ASSUME CatalogInv, Catalog!Sales
    PROVE  CatalogInv'
  <1>1. ASSUME NEW o \in Orders, NEW v \in Ids, Catalog!Sell(o, v) PROVE CatalogInv'
    <2>1. UNCHANGED <<page, req, draft, sheet, task>> /\ StockOK'
      BY <1>1, SellStock DEF Catalog!Sell, Catalog!clients, CatalogInv
    <2> QED
      BY <2>1, SheetStays, RestStays
  <1>2. ASSUME NEW o \in Orders, Catalog!Pay(o) \/ Catalog!Expire(o) PROVE CatalogInv'
    <2>1. Catalog!Settle(o, "paid", 1) \/ Catalog!Settle(o, "closed", 0)
      BY <1>2 DEF Catalog!Pay, Catalog!Expire
    <2>2. StockOK'
      <3>1. CASE Catalog!Settle(o, "paid", 1)
        BY <3>1, SettleStock DEF CatalogInv
      <3>2. CASE Catalog!Settle(o, "closed", 0)
        BY <3>2, SettleStock DEF CatalogInv
      <3> QED
        BY <2>1, <3>1, <3>2
    <2>3. UNCHANGED <<page, req, draft, sheet, task>>
      BY <2>1 DEF Catalog!Settle, Catalog!clients
    <2> QED
      BY <2>2, <2>3, SheetStays, RestStays
  <1> QED
    BY <1>1, <1>2 DEF Catalog!Sales

LEMMA CatalogStutters ==
    ASSUME CatalogInv, UNCHANGED Catalog!vars
    PROVE  CatalogInv'
BY TablesStay, PagesStay, SheetsStay DEF Catalog!vars, Catalog!tables, CatalogInv

LEMMA CatalogStep ==
    ASSUME CatalogInv, [Catalog!Next]_Catalog!vars
    PROVE  CatalogInv'
BY OpenKeeps, LoadKeeps, TypeKeeps, PressKeeps, ServeKeeps, CreationKeeps, ImportsKeep, SalesKeep, CatalogStutters DEF Catalog!Next

LEMMA CatalogStarts == Catalog!Init => CatalogInv
  <1> SUFFICES ASSUME Catalog!Init PROVE CatalogInv
    OBVIOUS
  <1>1. /\ task \in Tasks
        /\ task.product # NULL => task.product \in Catalog!Products /\ Catalog!AgentPortalComplete(task.product)
        /\ task.variant \in [Ids -> Catalog!Rows \union {NULL}]
        /\ \A v \in Ids : task.variant[v] # NULL =>
             task.product # NULL /\ task.variant[v].reserved = 0 /\ task.variant[v].stock >= 0
    BY CatalogAssumption DEF Catalog!Init, Catalog!ScopesAssumption
  <1>2. PagesOK /\ RequestsOK
    BY DEF Catalog!Init, PagesOK, PageOK, RequestsOK, Catalog!Blank, Catalog!Idle
  <1>3. ProductOK /\ RowsOK
    BY <1>1 DEF Catalog!Init, ProductOK, RowsOK
  <1>4. OrdersOK
    BY DEF Catalog!Init, OrdersOK
  <1>5. \A v \in Ids : Catalog!HeldBy(v) = {}
    BY DEF Catalog!HeldBy, Catalog!ItemsOf, Catalog!Init
  <1>6. Catalog!HeldStockRemains
    <2>1. Catalog!Cardinality({}) = 0
      BY CatalogCounts, FS_EmptySet
    <2> QED
      BY <1>1, <1>5, <2>1 DEF Catalog!HeldStockRemains, Catalog!Live, Catalog!Init
  <1>7. DraftOK
    <2> PICK r : r = Catalog!DraftRow(0)
      OBVIOUS
    <2>1. r \in DraftRows
      BY DEF Catalog!DraftRow, DraftRows
    <2>2. <<r>> \in Seq(DraftRows)
      BY <2>1
    <2> QED
      BY <2>2 DEF Catalog!Init, DraftOK, Catalog!Modes
  <1>8. SheetOK
    BY EmptySeq DEF Catalog!Init, SheetOK
  <1> QED
    BY <1>1, <1>2, <1>3, <1>4, <1>6, <1>7, <1>8 DEF CatalogInv, StockOK

-----------------------------------------------------------------------------
(* What the invariants say *)

LEMMA CatalogInvariant == Catalog!Spec => []CatalogInv
  <1>1. CatalogInv /\ [Catalog!Next]_Catalog!vars => CatalogInv'
    BY CatalogStep
  <1> QED
    BY <1>1, CatalogStarts, PTL DEF Catalog!Spec

\* The product, its variants, the orders and the states of the edit pages have their
\* types in every state, whatever an administrator typed and a file contained.
THEOREM CatalogTypeCorrect == Catalog!Spec => []Catalog!TypeOK
  <1>1. CatalogInv => Catalog!TypeOK
    BY DEF CatalogInv, StockOK, ProductOK, RowsOK, OrdersOK, PagesOK, PageOK, Catalog!TypeOK
  <1> QED
    BY <1>1, CatalogInvariant, PTL

\* reserved_stock is the number of pending orders of the variant and the stock covers
\* them, until an administrator or a file writes a stock below what is held: for any
\* administrators, variants and orders, whatever was read before it was written.
THEOREM HeldStockRemainsHolds == Catalog!Spec => []HeldStockRemains
  <1>1. CatalogInv => HeldStockRemains
    BY DEF CatalogInv, StockOK, HeldStockRemains
  <1> QED
    BY <1>1, CatalogInvariant, PTL

\* A product for the agency portal has its access settings, although a route validates
\* a partial update against the product as it was before the transaction: the check
\* constraint of the table sees the row that is written.
THEOREM PortalAccessIsCompleteHolds == Catalog!Spec => []PortalAccessIsComplete
  <1>1. CatalogInv => PortalAccessIsComplete
    BY DEF CatalogInv, StockOK, ProductOK, PortalAccessIsComplete, Catalog!PortalAccessIsComplete
  <1> QED
    BY <1>1, CatalogInvariant, PTL

\* Both sides of the shop as one run explores them: what a customer's orders show, and
\* what the administration of a product leaves true, in one behaviour.
THEOREM ShopCorrect ==
    ASSUME CapsAreAmounts
    PROVE  ShopSpec => /\ []PricedRight /\ []OncePerCustomer /\ AttributionIsPermanent
                       /\ []HeldStockRemains /\ []PortalAccessIsComplete
  <1>1. ShopInit => Init /\ Catalog!Init
    BY DEF ShopInit
  <1>2. [ShopNext]_allVars => [Next]_vars
    BY DEF ShopNext, allVars
  <1>3. [ShopNext]_allVars => [Catalog!Next]_Catalog!vars
    BY DEF ShopNext, allVars, catalogVars, Catalog!vars
  <1>4. ShopSpec => Spec /\ Catalog!Spec
    BY <1>1, <1>2, <1>3, PTL DEF ShopSpec, Spec, Catalog!Spec
  <1> QED
    BY <1>4, PricedRightHolds, OncePerCustomerHolds, AttributionIsPermanentHolds, HeldStockRemainsHolds, PortalAccessIsCompleteHolds, PTL

=============================================================================

----------------------------- MODULE Storefront -----------------------------
(***************************************************************************)
(* One customer shopping in several browser tabs: the cart kept in the     *)
(* browser, the checkout form with its referral code and coupons, and the  *)
(* transaction that turns a submitted form into a pending order.           *)
(*                                                                         *)
(*   client/src/context/CartContext.tsx, lib/cart.ts, lib/referral.ts      *)
(*   client/src/pages/ProductDetailPage, CartPage, CheckoutPage,           *)
(*                    CheckoutSuccessPage.tsx                              *)
(*   server/src/routes/cart.ts, referrals.ts, checkout.ts                  *)
(*   server/src/routes/admin/coupons.ts, admin and agency/referralLinks.ts *)
(*   server/src/services/coupon.ts, referral.ts                            *)
(*   server/src/modules/checkout/                                          *)
(*                                                                         *)
(* A tab's answers arrive one at a time and in any order; an answer is     *)
(* computed when it arrives, and what the form keeps of it grows old from  *)
(* then on.  The transaction is two steps: what it reads once it holds the *)
(* variants' row locks, and the rest, which the coupon's row lock makes    *)
(* one step.  What happens to the order afterwards is in OrderPayments,    *)
(* and so is the coupon's total limit; here an order is paid or fails.     *)
(*                                                                         *)
(* A scope, chosen at the start, says what the shop offers, where the tabs *)
(* are and what may happen.  Bounds: MaxQuantity, MaxOrders.               *)
(***************************************************************************)
EXTENDS Integers, FiniteSets, Sequences, FiniteSetsExt

CONSTANTS
    Tabs,         \* browser tabs
    Codes,        \* referral codes; a code without an active link is unknown
    Coupons,      \* coupon codes
    Variants,     \* variants on sale
    None,         \* NULL
    Scopes,       \* what may be the case, a set of scopes
    MaxQuantity,  \* bound on the quantity of a cart line
    MaxOrders     \* bound on the orders created

VARIABLES
    scope,      \* the scope; it never changes
    price,      \* price[v]: product_variants.price
    published,  \* variants whose product is published
    active,     \* codes whose referral link is active
    coupon,     \* coupon[k]: the coupons row
    account,    \* a users row with the customer's e-mail address exists
    buyer,      \* users.referred_by_referral_link_id, by its code
    orders,     \* the customer's orders, oldest first
    storage,    \* the cart in localStorage
    referral,   \* the referral code in localStorage
    tab,        \* tab[t]: what a tab's components hold
    request     \* request[t]: the create-session request of a tab

shopVars == <<scope, price, published, active, coupon>>
customerVars == <<account, buyer, orders>>
browserVars == <<storage, referral, tab>>
vars == <<shopVars, customerVars, browserVars, request>>

\* reprice, unpublish, links and coupons: an administrator edits a price, a
\* product, a link or a coupon; shop: the customer fills the cart; fail: an
\* answer is lost or is an error; unpaid: a payment fails.  A scope also lists
\* the codes of ?ref= addresses (refs), those typed into the form (retyped) and
\* the coupons the customer knows (typed).
Happenings == {"reprice", "unpublish", "links", "coupons", "shop", "fail", "unpaid"}

Line == [n: 0..MaxQuantity, price: Nat]
Cart == [Variants -> Line]
EmptyCart == [v \in Variants |-> [n |-> 0, price |-> 0]]
Quantities == [Variants -> 0..MaxQuantity]
Items(cart) == [v \in Variants |-> cart[v].n]
In(items) == {v \in Variants : items[v] > 0}

\* cap and minimum are maximum_discount_amount and minimum_order_amount; agents
\* are the links of the agencies in scope; products those a discount is for.
CouponRow == [kind: {"fixed", "percentage"}, value: Nat, cap: Int \cup {None},
              minimum: Nat, products: SUBSET Variants,
              agents: SUBSET (Codes \cup {None}), newOnly: BOOLEAN,
              perCustomer: Nat, active: BOOLEAN]

\* A preview of a coupon: its code and the final amount.
Preview == [coupon: Coupons, total: Int]

\* fresh: since /api/cart/validate agreed with the cart, neither it nor the
\* shop has changed.
Tab == [page: {"shop", "checkout", "paying", "success"}, cart: Cart,
        validating: Cart \cup {None},
        code: Codes \cup {None}, resolving: BOOLEAN, auto: Coupons \cup {None},
        previewing: BOOLEAN, asking: Coupons \cup {None},
        applied: Preview \cup {None}, source: {"auto", "manual", None},
        submitting: BOOLEAN, order: Nat, fresh: BOOLEAN]

Request == [pc: {"begin", "commit", "answer"}, items: Quantities,
            code: Codes \cup {None}, coupon: Coupons \cup {None},
            shown: Int, source: {"auto", "manual", None}, fresh: BOOLEAN,
            known: BOOLEAN, attributed: BOOLEAN, link: Codes \cup {None},
            order: Nat]

Order == [status: {"pending", "paid", "failed"}, items: Quantities,
          link: Codes \cup {None}, coupon: Coupons \cup {None},
          original: Nat, discount: Int, total: Int,
          shown: Int, source: {"auto", "manual", None}, fresh: BOOLEAN]

\* What a scope may say: rows, prices and stocks, what an administrator sets and a
\* customer types are of their types, the tabs and their carts some of those there can be.
ASSUME NamesAssumption ==
    /\ IsFiniteSet(Variants) /\ MaxQuantity \in Nat
    /\ None \notin Codes \cup Coupons \cup Preview \cup {"auto", "manual"}
ASSUME ScopesAssumption ==
    \A s \in Scopes :
       /\ s.tabs \subseteq Tabs /\ s.page \in {"shop", "checkout"}
       /\ s.items \in [Tabs -> Quantities] /\ s.code \in [Tabs -> Codes \cup {None}]
       /\ s.published \subseteq Variants /\ s.stock \in [Variants -> Nat]
       /\ s.price \in [Variants -> Nat] /\ s.prices \in [Variants -> SUBSET Nat]
       /\ s.coupon \in [Coupons -> CouponRow] /\ s.caps \subseteq Int \cup {None}
       /\ s.auto \in [Codes -> Coupons \cup {None}] /\ s.typed \subseteq Coupons
       /\ s.refs \cup s.retyped \subseteq Codes \cup {None}
       /\ s.account \in BOOLEAN /\ s.loggedIn \in BOOLEAN

TypeOK ==
    /\ scope \in Scopes
    /\ price \in [Variants -> Nat]
    /\ published \subseteq Variants
    /\ active \subseteq Codes
    /\ coupon \in [Coupons -> CouponRow]
    /\ account \in BOOLEAN
    /\ buyer \in Codes \cup {None}
    /\ orders \in Seq(Order)
    /\ storage \in Cart
    /\ referral \in Codes \cup {None}
    /\ tab \in [Tabs -> Tab]
    /\ request \in [Tabs -> Request \cup {None}]

\* The form of a checkout page that was just opened.
Form(t, page) ==
    [tab[t] EXCEPT !.page = page, !.validating = None, !.code = referral,
       !.resolving = (page = "checkout" /\ referral # None), !.auto = None,
       !.previewing = FALSE, !.asking = None, !.applied = None, !.source = None,
       !.submitting = FALSE]

\* A page that was just loaded with the given cart.
Opened(page, cart, code) ==
    [page |-> page, cart |-> cart, validating |-> None, code |-> code,
     resolving |-> (page = "checkout" /\ code # None), auto |-> None,
     previewing |-> FALSE, asking |-> None, applied |-> None, source |-> None,
     submitting |-> FALSE, order |-> 0, fresh |-> TRUE]

CartOf(items) == [v \in Variants |->
                    [n |-> items[v], price |-> IF items[v] = 0 THEN 0 ELSE scope.price[v]]]

Init ==
    /\ scope \in Scopes
    /\ price = scope.price
    /\ published = scope.published
    /\ active = Codes
    /\ coupon = scope.coupon
    /\ account = scope.account
    /\ buyer = None
    /\ orders = <<>>
    /\ storage \in {CartOf(scope.items[t]) : t \in scope.tabs}
    /\ referral \in {scope.code[t] : t \in scope.tabs}
    /\ tab = [t \in Tabs |-> Opened(scope.page, CartOf(scope.items[t]), scope.code[t])]
    /\ request = [t \in Tabs |-> None]

May(happening) == happening \in scope.env

\* What the tabs show, and what they have sent, may not be the truth any more.
Outdate ==
    /\ tab' = [t \in Tabs |-> [tab[t] EXCEPT !.fresh = FALSE]]
    /\ request' = [t \in Tabs |->
                     IF request[t] = None THEN None ELSE [request[t] EXCEPT !.fresh = FALSE]]

\* FOR UPDATE: a transaction holds the row of the variant.
LockedBy(t, v) ==
    request[t] # None /\ request[t].pc = "commit" /\ request[t].items[v] > 0

-----------------------------------------------------------------------------
(* The shop's administration *)

Reprice(v) ==
    /\ May("reprice")
    /\ \A t \in Tabs : ~LockedBy(t, v)
    /\ \E p \in scope.prices[v] \ {price[v]} : price' = [price EXCEPT ![v] = p]
    /\ Outdate
    /\ UNCHANGED <<scope, published, active, coupon, customerVars, storage, referral>>

Unpublish(v) ==
    /\ May("unpublish") /\ v \in published
    /\ published' = published \ {v}
    /\ UNCHANGED <<scope, price, active, coupon, customerVars, browserVars, request>>

\* PUT /referral-links/:id/status; a link is never edited otherwise.
SwitchLink(c) ==
    /\ May("links")
    /\ active' = IF c \in active THEN active \ {c} ELSE active \cup {c}
    /\ UNCHANGED <<scope, price, published, coupon, customerVars, browserVars, request>>

\* PATCH /coupons/:id checks the limits only together with a discount field, so
\* any cap is accepted.
PatchCoupon(k) ==
    /\ May("coupons")
    /\ \E cap \in scope.caps \ {coupon[k].cap} : coupon' = [coupon EXCEPT ![k].cap = cap]
    /\ Outdate
    /\ UNCHANGED <<scope, price, published, active, customerVars, storage, referral>>

\* Activated, deactivated or deleted.
SwitchCoupon(k) ==
    /\ May("coupons")
    /\ coupon' = [coupon EXCEPT ![k].active = ~@]
    /\ Outdate
    /\ UNCHANGED <<scope, price, published, active, customerVars, storage, referral>>

-----------------------------------------------------------------------------
(* Referral links and coupons as the server reads them *)

\* resolveReferral: the active link of a code.
Resolved(c) == IF c \in active THEN c ELSE None

\* couponAutoApply of a link and its coupon, fixed when the link was issued.
AutoCoupon(link) == IF link = None THEN None ELSE scope.auto[link]

\* A sum, counted unit by unit.
Total(part) == Cardinality(UNION {{x} \X (1..part[x]) : x \in DOMAIN part})

\* What the items cost at present prices.
Amount(items, S) == Total([v \in S |-> price[v] * items[v]])

\* calculateDiscountAmount
Discount(k, items) ==
    LET eligible == Amount(items, coupon[k].products)
        raw == IF coupon[k].kind = "fixed" THEN coupon[k].value
               ELSE (eligible * coupon[k].value) \div 100
        capped == IF coupon[k].cap = None THEN raw ELSE Min({raw, coupon[k].cap})
    IN  IF eligible <= 0 THEN 0 ELSE Min({capped, eligible})

\* The customer's usages of a coupon that are reserved or used.
Usages(k) == {i \in DOMAIN orders : orders[i].coupon = k /\ orders[i].status # "failed"}
HasPaid == \E i \in DOMAIN orders : orders[i].status = "paid"

\* The scopes of products, agencies and customers; known tells whether the
\* server knows who the customer is.
ForItems(k, items) == In(items) \cap coupon[k].products # {}
ForAgency(k, link) == link \in coupon[k].agents
ForCustomer(k, known) == coupon[k].newOnly => known /\ ~HasPaid
UsageLeft(k, known) == known => Cardinality(Usages(k)) < coupon[k].perCustomer

\* validateCoupon
Valid(k, items, link, known) ==
    /\ coupon[k].active
    /\ Amount(items, Variants) >= coupon[k].minimum
    /\ ForItems(k, items) /\ ForAgency(k, link)
    /\ ForCustomer(k, known) /\ UsageLeft(k, known)

-----------------------------------------------------------------------------
(* Cart and product pages *)

\* Every change of the cart is written to localStorage as a whole.
SetCart(t, cart) ==
    /\ tab' = [tab EXCEPT ![t].cart = cart, ![t].fresh = FALSE]
    /\ storage' = cart

\* A page is loaded, maybe with ?ref= in its address; a cart older than 7 days is
\* dropped.
Load(t) ==
    /\ May("shop")
    /\ \E c \in scope.refs \cup {referral}, cart \in {storage, EmptyCart},
          page \in {"shop", "checkout"} :
         /\ referral' = c
         /\ tab' = [tab EXCEPT ![t] = [Opened(page, cart, c) EXCEPT !.fresh = FALSE]]
         /\ storage' = cart
    /\ UNCHANGED <<shopVars, customerVars, request>>

BackToCart(t) ==
    /\ May("shop")
    /\ tab[t].page = "checkout"
    /\ tab' = [tab EXCEPT ![t] = Form(t, "shop")]
    /\ UNCHANGED <<shopVars, customerVars, storage, referral, request>>

\* The price is the one the product page was loaded with.
AddItem(t, v) ==
    /\ May("shop")
    /\ tab[t].page = "shop" /\ v \in published
    /\ tab[t].cart[v].n < MaxQuantity                    \* bound
    /\ LET line == tab[t].cart[v]
       IN  \E p \in IF line.n = 0 THEN scope.prices[v] ELSE {line.price} :
             SetCart(t, [tab[t].cart EXCEPT ![v] = [n |-> line.n + 1, price |-> p]])
    /\ UNCHANGED <<shopVars, customerVars, referral, request>>

\* updateQuantity and removeItem; the inputs stay enabled while the cart is
\* being validated.
ChangeLine(t, v) ==
    /\ May("shop")
    /\ tab[t].page = "shop" /\ tab[t].cart[v].n > 0
    /\ \/ \E n \in 1..MaxQuantity \ {tab[t].cart[v].n} :
            SetCart(t, [tab[t].cart EXCEPT ![v].n = n])
       \/ SetCart(t, [tab[t].cart EXCEPT ![v] = [n |-> 0, price |-> 0]])
    /\ UNCHANGED <<shopVars, customerVars, referral, request>>

ProceedToCheckout(t) ==
    /\ tab[t].page = "shop" /\ tab[t].validating = None
    /\ In(Items(tab[t].cart)) # {}
    /\ tab' = [tab EXCEPT ![t].validating = tab[t].cart]
    /\ UNCHANGED <<shopVars, customerVars, storage, referral, request>>

\* POST /cart/validate
Available(v) ==
    LET open == {i \in DOMAIN orders : orders[i].status # "failed"}
    IN  scope.stock[v] - Total([i \in open |-> orders[i].items[v]])
Validated(line, v) ==
    IF line.n = 0 \/ v \notin published \/ Available(v) <= 0
    THEN [n |-> 0, price |-> 0]
    ELSE [n |-> Min({line.n, Available(v)}), price |-> price[v]]

\* The answer is applied to the cart as it was when the button was pressed: with
\* a difference that cart is put back and shown, without one the checkout page
\* opens with whatever the cart has become.
CartValidated(t) ==
    LET sent == tab[t].validating
        next == [v \in Variants |-> Validated(sent[v], v)]
    IN  /\ sent # None
        /\ \/ /\ next # sent
              /\ tab' = [tab EXCEPT ![t].cart = next, ![t].validating = None]
              /\ storage' = next
           \/ /\ next = sent
              /\ tab' = [tab EXCEPT ![t] =
                           [Form(t, "checkout") EXCEPT !.fresh = (tab[t].cart = sent)]]
              /\ UNCHANGED storage
           \/ /\ May("fail")
              /\ tab' = [tab EXCEPT ![t].validating = None]
              /\ UNCHANGED storage
        /\ UNCHANGED <<shopVars, customerVars, referral, request>>

-----------------------------------------------------------------------------
(* The checkout form *)

\* autoApplyCouponCode is set: only a change starts or cancels a preview, and
\* what is applied stays.
SetAuto(form, k) ==
    [form EXCEPT !.auto = k,
       !.previewing = IF k = form.auto THEN form.previewing ELSE k # None]

EditReferral(t, c) ==
    /\ c \in scope.retyped
    /\ tab[t].page = "checkout" /\ c # tab[t].code
    /\ LET form == [tab[t] EXCEPT !.code = c, !.resolving = (c # None)]
       IN  tab' = [tab EXCEPT ![t] = IF c = None THEN SetAuto(form, None) ELSE form]
    /\ UNCHANGED <<shopVars, customerVars, storage, referral, request>>

\* The answer for the code now in the form; those for earlier codes are ignored.
ReferralResolved(t) ==
    /\ tab[t].page = "checkout" /\ tab[t].resolving
    /\ \E k \in {AutoCoupon(Resolved(tab[t].code))}
                  \cup (IF May("fail") THEN {None} ELSE {}) :
         tab' = [tab EXCEPT ![t] = SetAuto([tab[t] EXCEPT !.resolving = FALSE], k)]
    /\ UNCHANGED <<shopVars, customerVars, storage, referral, request>>

\* POST /checkout/coupons/validate
Previewed(t, k) ==
    LET items == Items(tab[t].cart)
    IN  IF Valid(k, items, Resolved(tab[t].code), account /\ scope.loggedIn)
        THEN {[coupon |-> k, total |-> Amount(items, Variants) - Discount(k, items)]}
        ELSE {}

\* The preview of an automatic coupon; an error or a refusal is not shown.
AutoPreviewed(t) ==
    /\ tab[t].page = "checkout" /\ tab[t].previewing
    /\ \/ \E p \in Previewed(t, tab[t].auto) :
            tab' = [tab EXCEPT ![t].previewing = FALSE, ![t].applied = p,
                               ![t].source = "auto"]
       \/ /\ Previewed(t, tab[t].auto) = {} \/ May("fail")
          /\ tab' = [tab EXCEPT ![t].previewing = FALSE]
    /\ UNCHANGED <<shopVars, customerVars, storage, referral, request>>

\* The field for a coupon is there only while no coupon is shown and the link
\* brings none.
AskCoupon(t, k) ==
    /\ tab[t].page = "checkout" /\ k \in scope.typed
    /\ tab[t].applied = None /\ tab[t].auto = None /\ tab[t].asking = None
    /\ tab' = [tab EXCEPT ![t].asking = k]
    /\ UNCHANGED <<shopVars, customerVars, storage, referral, request>>

\* Mutation: the source of an applied coupon is not recorded.
ShownCouponUnsourced(form, p) == [form EXCEPT !.asking = None, !.applied = p]

ShownCoupon(form, p) ==
    [form EXCEPT !.asking = None, !.applied = p, !.source = "manual"]

CouponAnswered(t) ==
    /\ tab[t].page = "checkout" /\ tab[t].asking # None
    /\ \/ \E p \in Previewed(t, tab[t].asking) :
            tab' = [tab EXCEPT ![t] = ShownCoupon(tab[t], p)]
       \/ /\ Previewed(t, tab[t].asking) = {} \/ May("fail")
          /\ tab' = [tab EXCEPT ![t].asking = None]
    /\ UNCHANGED <<shopVars, customerVars, storage, referral, request>>

\* Only a coupon the customer typed can be taken off again.
RemoveCoupon(t) ==
    /\ tab[t].page = "checkout" /\ tab[t].source = "manual"
    /\ tab' = [tab EXCEPT ![t].applied = None, ![t].source = None]
    /\ UNCHANGED <<shopVars, customerVars, storage, referral, request>>

\* The amount the page shows.
Shown(t) ==
    IF tab[t].applied # None THEN tab[t].applied.total
    ELSE Total([v \in Variants |-> tab[t].cart[v].price * tab[t].cart[v].n])

\* A coupon that came with the link is left to the server.
Submit(t) ==
    /\ tab[t].page = "checkout" /\ ~tab[t].submitting /\ request[t] = None
    /\ Len(orders) + Cardinality({u \in Tabs : request[u] # None}) < MaxOrders  \* bound
    /\ In(Items(tab[t].cart)) # {}
    /\ tab' = [tab EXCEPT ![t].submitting = TRUE]
    /\ request' = [request EXCEPT ![t] =
                     [pc |-> "begin", items |-> Items(tab[t].cart), code |-> tab[t].code,
                      coupon |-> IF tab[t].source = "manual" THEN tab[t].applied.coupon
                                                             ELSE None,
                      shown |-> Shown(t), source |-> tab[t].source,
                      fresh |-> tab[t].fresh, known |-> FALSE, attributed |-> FALSE,
                      link |-> None, order |-> 0]]
    /\ UNCHANGED <<shopVars, customerVars, storage, referral>>

-----------------------------------------------------------------------------
(* createPendingOrder *)

Refuse(t) == request' = [request EXCEPT ![t].pc = "answer"]

\* Mutation: variants are read without a lock.
LockFree(t) == TRUE

\* Nobody else holds the row of a variant of this order.
Unlocked(t) ==
    \A u \in Tabs \ {t}, v \in In(request[t].items) : ~LockedBy(u, v)

\* assertStockAvailable
Orderable(items) ==
    \A v \in In(items) : v \in published /\ items[v] <= Available(v)

\* A buyer who has an attribution keeps it, whatever the code and the status of
\* the link (resolveReferralByAttribution).
Referral(r) == IF buyer # None THEN buyer ELSE Resolved(r.code)

\* assertAgentRequiredSatisfied
AgentMissing(items, link) == link = None /\ In(items) \cap scope.agentOnly # {}

\* Locks the variants, then reads the account and the links.
Begin(t) ==
    LET r == request[t]
        link == Referral(r)
        accepted == Orderable(r.items) /\ ~AgentMissing(r.items, link)
    IN  /\ r # None /\ r.pc = "begin"
        /\ Unlocked(t)
        /\ \/ /\ accepted
              /\ request' = [request EXCEPT ![t].pc = "commit", ![t].known = account,
                               ![t].attributed = (buyer # None), ![t].link = link]
           \/ ~accepted /\ Refuse(t)
        /\ UNCHANGED <<shopVars, customerVars, browserVars>>

\* The coupon of the request comes first, then the link's automatic one.
EffectiveCoupon(r) == IF r.coupon # None THEN r.coupon ELSE AutoCoupon(r.link)

\* Mutation: usages are not counted again under the lock.
ReservableUncounted(r) ==
    LET k == EffectiveCoupon(r) IN k # None /\ Valid(k, r.items, r.link, FALSE)

\* reserveCouponUsage accepts the coupon.  At this point the account exists.
Reservable(r) ==
    LET k == EffectiveCoupon(r) IN k # None /\ Valid(k, r.items, r.link, TRUE)

\* The coupon that is written to the order.
Granted(r) == IF Reservable(r) THEN EffectiveCoupon(r) ELSE None

NewOrder(r) ==
    LET k == Granted(r)
        discount == IF k = None THEN 0 ELSE Discount(k, r.items)
    IN  [status |-> "pending", items |-> r.items, link |-> r.link, coupon |-> k,
         original |-> Amount(r.items, Variants), discount |-> discount,
         total |-> Amount(r.items, Variants) - discount,
         shown |-> r.shown, source |-> r.source, fresh |-> r.fresh]

\* attachReferralAttribution, decided on what was read.
Attributed(r) == IF ~r.attributed /\ r.link # None THEN r.link ELSE buyer

\* The rest of the transaction.  It fails when a guest account was created with
\* the same address in the meantime, or when a coupon the customer typed is
\* refused; a refused automatic coupon is dropped.
Commit(t) ==
    LET r == request[t]
        taken == ~r.known /\ account
        refused == r.coupon # None /\ ~Reservable(r)
    IN  /\ r # None /\ r.pc = "commit"
        /\ \/ /\ ~taken /\ ~refused
              /\ account' = TRUE
              /\ buyer' = Attributed(r)
              /\ orders' = Append(orders, NewOrder(r))
              /\ request' = [request EXCEPT ![t].pc = "answer", ![t].order = Len(orders) + 1]
           \/ /\ taken \/ refused
              /\ Refuse(t)
              /\ UNCHANGED customerVars
        /\ UNCHANGED <<shopVars, browserVars>>

\* The answer redirects to Stripe; an error, also a lost answer, is shown.  When
\* the session could not be created the order is cancelled.
Answered(t) ==
    LET r == request[t]
        left == ~tab[t].submitting        \* the page is not there any more
        failed == [tab EXCEPT ![t].submitting = FALSE]
    IN  /\ r # None /\ r.pc = "answer"
        /\ \/ /\ r.order # 0
              /\ tab' = IF left THEN tab
                        ELSE [tab EXCEPT ![t].page = "paying", ![t].submitting = FALSE,
                                         ![t].order = r.order]
              /\ UNCHANGED orders
           \/ /\ r.order = 0 \/ May("fail")
              /\ tab' = IF left THEN tab ELSE failed
              /\ UNCHANGED orders
           \/ /\ r.order # 0 /\ orders[r.order].status = "pending" /\ May("fail")
              /\ tab' = IF left THEN tab ELSE failed
              /\ orders' = [orders EXCEPT ![r.order].status = "failed"]
        /\ request' = [request EXCEPT ![t] = None]
        /\ UNCHANGED <<shopVars, account, buyer, storage, referral>>

-----------------------------------------------------------------------------
(* After the order *)

\* OrderPayments: the session is paid by the customer it was shown to, or fails.
Pay(t) ==
    /\ tab[t].page = "paying" /\ orders[tab[t].order].status = "pending"
    /\ orders' = [orders EXCEPT ![tab[t].order].status = "paid"]
    /\ UNCHANGED <<shopVars, account, buyer, browserVars, request>>

Fail(i) ==
    /\ May("unpaid")
    /\ orders[i].status = "pending"
    /\ orders' = [orders EXCEPT ![i].status = "failed"]
    /\ UNCHANGED <<shopVars, account, buyer, browserVars, request>>

\* Stripe sends the customer back to the success page, a new document.
Return(t) ==
    /\ tab[t].page = "paying"
    /\ tab' = [tab EXCEPT ![t] = [Opened("success", storage, referral) EXCEPT
                                    !.order = tab[t].order]]
    /\ UNCHANGED <<shopVars, customerVars, storage, referral, request>>

\* The success page empties the cart once the order is paid; while it is pending
\* it asks again, for a minute.
Poll(t) ==
    /\ tab[t].page = "success" /\ tab[t].order # 0
    /\ orders[tab[t].order].status = "paid"
    /\ tab' = [tab EXCEPT ![t].cart = EmptyCart, ![t].order = 0, ![t].fresh = FALSE]
    /\ storage' = EmptyCart
    /\ UNCHANGED <<shopVars, customerVars, referral, request>>

-----------------------------------------------------------------------------

Administration ==
    \/ \E v \in Variants : Reprice(v) \/ Unpublish(v)
    \/ \E c \in Codes : SwitchLink(c)
    \/ \E k \in Coupons : PatchCoupon(k) \/ SwitchCoupon(k)

Browse(t) ==
    \/ Load(t) \/ BackToCart(t) \/ ProceedToCheckout(t) \/ CartValidated(t)
    \/ \E v \in Variants : AddItem(t, v) \/ ChangeLine(t, v)
    \/ \E c \in Codes \cup {None} : EditReferral(t, c)
    \/ \E k \in Coupons : AskCoupon(t, k)
    \/ ReferralResolved(t) \/ AutoPreviewed(t) \/ CouponAnswered(t)
    \/ RemoveCoupon(t) \/ Submit(t) \/ Return(t) \/ Poll(t)

Next ==
    \/ Administration
    \/ \E t \in scope.tabs : Browse(t) \/ Begin(t) \/ Commit(t) \/ Answered(t) \/ Pay(t)
    \/ \E i \in DOMAIN orders : Fail(i)

Spec == Init /\ [][Next]_vars

-----------------------------------------------------------------------------
(* Properties *)

\* Nobody pays more than the page showed, if the cart was validated and nothing
\* was edited since, unless it was an automatic coupon that the server did not
\* grant; and whatever is edited while a form is open, a discount never exceeds
\* the order (the amount the page shows is computed apart from the order's).
PricedRight ==
    \A i \in DOMAIN orders :
       LET o == orders[i]
       IN  /\ o.total >= 0
           /\ o.fresh /\ o.source # "auto" => o.total <= o.shown

\* A customer never holds more usages of a coupon than it allows per customer,
\* however many tabs order at once (reserveCouponUsage counts under the lock of
\* the coupon's row).
OncePerCustomer ==
    \A k \in Coupons : Cardinality(Usages(k)) <= coupon[k].perCustomer

\* The attribution of the first order is for good: no later code, in no tab,
\* replaces it, if the orders share a variant, on whose row lock they wait for
\* each other (orders without a common variant may overlap: see README).
Sharing ==
    /\ ~May("shop") /\ scope.page = "checkout"
    /\ \A t, u \in scope.tabs : In(scope.items[t]) \cap In(scope.items[u]) # {}
AttributionIsPermanent == [][Sharing /\ buyer # None => buyer' = buyer]_vars

=============================================================================

--------------------------- MODULE OrderPayments ---------------------------
(***************************************************************************)
(* The money side of an order: the checkout request that reserves stock    *)
(* and a coupon, the Stripe Checkout Session, the events Stripe sends, the *)
(* bank transfers an administrator confirms, and what each of them does to *)
(* the payment status, the stock and the coupon.                           *)
(*                                                                         *)
(*   server/src/modules/checkout/application/*.usecase.ts                  *)
(*   server/src/modules/checkout/infrastructure/checkoutItem.repository.ts *)
(*   server/src/routes/checkout.ts, server/src/services/stripeCheckout.ts  *)
(*   server/src/services/stripeWebhookHandlers.ts, orderFulfillment.ts     *)
(*   server/src/services/bankTransfer.ts, coupon.ts, orderLookup.ts        *)
(*                                                                         *)
(* Every handler is a READ COMMITTED transaction that reads the order      *)
(* without a lock, decides, and then writes by primary key.  It is two     *)
(* steps here: the read with its guard, and the writes with the commit     *)
(* (the first write locks the order row, so the writes are one step).      *)
(* createPendingOrder locks what it reads (FOR UPDATE) and is one step.    *)
(*                                                                         *)
(* Quantities are sets of units, so that a sum is a cardinality.           *)
(*                                                                         *)
(* Bounds: a scope names the orders that are placed, the slots for handler *)
(* transactions (one: they run serially), how many events whose handler    *)
(* committed but was never marked as succeeded are handled again (see      *)
(* StripeInbox), and what else may happen.  A behaviour stays in the scope *)
(* it starts in.                                                           *)
(***************************************************************************)
EXTENDS Integers, FiniteSets

CONSTANTS
    Orders,           \* checkout requests that reach createPendingOrder
    Variants,         \* product variants
    Units,            \* every single item asked for
    OrderOf,          \* the order of a unit
    LineOf,           \* the order line of a unit
    VariantOf,        \* the variant of a unit
    InitialStock,     \* product_variants.stock at the start
    BankOrders,       \* orders paid by bank transfer; the others use Stripe
    CouponOrders,     \* orders that carry the coupon
    ReferredOrders,   \* orders with a referral link: they earn a commission
    UsageLimit,       \* coupons.total_usage_limit
    RestoreOnCancel,  \* coupons.restore_on_cancel
    Transactions,     \* slots for handler transactions
    Scopes            \* the scopes considered

\* decline: a card is refused; refund: a refund is made at Stripe; abort: a
\* transaction fails and is rolled back; crash: a checkout request dies.
Happenings == {"decline", "refund", "abort", "crash"}

ASSUME UnitAssumption ==
    /\ IsFiniteSet(Units)
    /\ OrderOf \in [Units -> Orders]
    /\ VariantOf \in [Units -> Variants]
    /\ \A u, x \in Units :
         OrderOf[u] = OrderOf[x] /\ LineOf[u] = LineOf[x]
           => VariantOf[u] = VariantOf[x]
ASSUME OrderAssumption ==
    /\ IsFiniteSet(Orders)
    /\ BankOrders \subseteq Orders
    /\ CouponOrders \subseteq Orders
    /\ ReferredOrders \subseteq Orders
ASSUME StockAssumption == InitialStock \in [Variants -> Nat]
ASSUME CouponAssumption == UsageLimit \in Nat /\ RestoreOnCancel \in BOOLEAN
ASSUME ScopeAssumption ==
    Scopes \subseteq [orders: SUBSET Orders, slots: SUBSET Transactions,
                      replays: Nat, env: SUBSET Happenings]

VARIABLES
    pay,            \* pay[o]: orders.payment_status, "none" before the INSERT
    pi,             \* pi[o]: orders.stripe_payment_intent_id is recorded
    granted,        \* granted[o]: runs of applyPaidOrderSideEffects committed
    stock,          \* stock[v]: product_variants.stock
    reserved,       \* reserved[v]: product_variants.reserved_stock
    usage,          \* usage[o]: coupon_usages.status, "none" without a row
    usedCount,      \* coupons.used_count
    reservedCount,  \* coupons.reserved_count
    stage,          \* stage[o]: where the checkout request of o stands
    session,        \* session[o]: the Checkout Session at Stripe
    refund,         \* refund[o]: what has been refunded at Stripe
    due,            \* events Stripe still has to deliver, <<order, type>>
    tx,             \* tx[t]: a handler transaction between read and commit
    replays,        \* number of replays so far
    scope           \* the scope of this behaviour, never changed

rowVars == <<pay, pi, granted>>
stockVars == <<stock, reserved>>
couponVars == <<usage, usedCount, reservedCount>>
stripeVars == <<session, refund>>
vars == <<rowVars, stockVars, couponVars, stage, stripeVars, due, tx, replays, scope>>

Payments == {"none", "pending", "paid", "failed", "expired", "refunded"}
Usages == {"none", "reserved", "used", "cancelled", "expired"}
Stages == {"new", "session", "record", "notify", "cancel", "done", "failed"}
Sessions == {"none", "open", "complete", "expired"}

\* checkout.session.completed, checkout.session.expired,
\* payment_intent.payment_failed, charge.refunded with a part or all refunded.
EventTypes == {"completed", "expired", "failed", "partial", "refunded"}

\* The other transactions: confirmBankTransferPayment, one order of
\* expireOverdueBankTransferOrders, cancelOrderReservation.
Ops == EventTypes \cup {"confirm", "overdue", "cancel"}

Running == [op: Ops, order: Orders]
Idle == [op |-> "idle"]

TypeOK ==
    /\ pay \in [Orders -> Payments]
    /\ pi \in [Orders -> BOOLEAN]
    /\ granted \in [Orders -> Nat]
    /\ stock \in [Variants -> Int]
    /\ reserved \in [Variants -> Int]
    /\ usage \in [Orders -> Usages]
    /\ usedCount \in Int
    /\ reservedCount \in Int
    /\ stage \in [Orders -> Stages]
    /\ session \in [Orders -> Sessions]
    /\ refund \in [Orders -> {"none", "partial", "full"}]
    /\ due \subseteq Orders \X EventTypes
    /\ tx \in [Transactions -> Running \cup {Idle}]
    /\ replays \in 0..scope.replays
    /\ scope \in Scopes

Init ==
    /\ pay = [o \in Orders |-> "none"]
    /\ pi = [o \in Orders |-> FALSE]
    /\ granted = [o \in Orders |-> 0]
    /\ stock = InitialStock
    /\ reserved = [v \in Variants |-> 0]
    /\ usage = [o \in Orders |-> "none"]
    /\ usedCount = 0
    /\ reservedCount = 0
    /\ stage = [o \in Orders |-> "new"]
    /\ session = [o \in Orders |-> "none"]
    /\ refund = [o \in Orders |-> "none"]
    /\ due = {}
    /\ tx = [t \in Transactions |-> Idle]
    /\ replays = 0
    /\ scope \in Scopes

-----------------------------------------------------------------------------
(* Stock *)

Ordered(os, v) == {u \in Units : OrderOf[u] \in os /\ VariantOf[u] = v}
Qty(o, v) == Cardinality(Ordered({o}, v))

LineQty(u) ==
    Cardinality({x \in Units : OrderOf[x] = OrderOf[u] /\ LineOf[x] = LineOf[u]})

\* assertStockAvailable: each line by itself fits in stock - reserved_stock.
InStock(o) ==
    \A u \in Units :
       OrderOf[u] = o =>
         stock[VariantOf[u]] - reserved[VariantOf[u]] >= LineQty(u)

Reserve(o) ==
    /\ reserved' = [v \in Variants |-> reserved[v] + Qty(o, v)]
    /\ UNCHANGED stock

\* Mutation: the items are not decremented.
ReleaseNothing(o) == o \in Orders /\ UNCHANGED stockVars

Release(o) ==
    /\ reserved' = [v \in Variants |-> reserved[v] - Qty(o, v)]
    /\ UNCHANGED stock

Sell(o) ==
    /\ stock' = [v \in Variants |-> stock[v] - Qty(o, v)]
    /\ reserved' = [v \in Variants |-> reserved[v] - Qty(o, v)]

-----------------------------------------------------------------------------
(* The coupon *)

\* assertUsageLimits, under the lock reserveCouponUsage takes on the coupon.
WithinLimit == usedCount + reservedCount < UsageLimit

SetUsage(o, status) == usage' = [usage EXCEPT ![o] = status]

\* An order without the coupon reserves nothing.  At the limit an automatic
\* coupon is dropped, a coupon typed in by hand fails the whole checkout.
ReserveCoupon(o) ==
    \/ /\ o \in CouponOrders /\ WithinLimit
       /\ SetUsage(o, "reserved")
       /\ reservedCount' = reservedCount + 1
       /\ UNCHANGED usedCount
    \/ /\ o \notin CouponOrders \/ ~WithinLimit
       /\ UNCHANGED couponVars

\* Mutation: payment leaves the usage reserved.
ConfirmCouponNot(o) == o \in Orders /\ UNCHANGED couponVars

\* confirmCouponUsage
ConfirmCoupon(o) ==
    \/ /\ usage[o] = "reserved"
       /\ SetUsage(o, "used")
       /\ usedCount' = usedCount + 1
       /\ reservedCount' = reservedCount - 1
    \/ /\ usage[o] # "reserved"
       /\ UNCHANGED couponVars

\* Mutation: a usage that has ended is cancelled once more.
CancelCouponAgain(o, reason) ==
    \/ /\ usage[o] # "none"
       /\ SetUsage(o, reason)
       /\ reservedCount' = reservedCount - 1
       /\ UNCHANGED usedCount
    \/ /\ usage[o] = "none"
       /\ UNCHANGED couponVars

\* cancelCouponUsage
CancelCoupon(o, reason) ==
    \/ /\ usage[o] = "reserved"
       /\ SetUsage(o, reason)
       /\ reservedCount' = reservedCount - 1
       /\ UNCHANGED usedCount
    \/ /\ usage[o] # "reserved"
       /\ UNCHANGED couponVars

\* restoreCouponUsageOnFullRefund
RestoreCoupon(o) ==
    \/ /\ usage[o] = "used" /\ RestoreOnCancel
       /\ SetUsage(o, "cancelled")
       /\ usedCount' = usedCount - 1
       /\ UNCHANGED reservedCount
    \/ /\ usage[o] # "used" \/ ~RestoreOnCancel
       /\ UNCHANGED couponVars

-----------------------------------------------------------------------------
(* The checkout request: POST /checkout/create-session *)

MoveTo(o, s) == stage' = [stage EXCEPT ![o] = s]

\* A request that is refused (no stock, coupon not usable) leaves no trace.
CreatePendingOrder(o) ==
    /\ stage[o] = "new" /\ o \in scope.orders
    /\ InStock(o)
    /\ Reserve(o)
    /\ ReserveCoupon(o)
    /\ pay' = [pay EXCEPT ![o] = "pending"]
    /\ MoveTo(o, IF o \in BankOrders THEN "notify" ELSE "session")
    /\ UNCHANGED <<pi, granted, stripeVars, due, tx, replays, scope>>

\* enqueueNotification writes the transfer instructions, or throws.
NotifyBankTransfer(o) ==
    /\ stage[o] = "notify"
    /\ \E s \in {"done", "cancel"} : MoveTo(o, s)
    /\ UNCHANGED <<rowVars, stockVars, couponVars, stripeVars, due, tx, replays, scope>>

\* createStripeCheckoutSession: on an error the session may exist all the same
\* (the answer was lost).
CreateSession(o) ==
    /\ stage[o] = "session"
    /\ \/ /\ session' = [session EXCEPT ![o] = "open"]
          /\ \E s \in {"record", "cancel"} : MoveTo(o, s)
       \/ /\ MoveTo(o, "cancel")
          /\ UNCHANGED session
    /\ UNCHANGED <<rowVars, stockVars, couponVars, refund, due, tx, replays, scope>>

\* The session id is stored and the customer gets the URL, or the update throws.
RecordSession(o) ==
    /\ stage[o] = "record"
    /\ \E s \in {"done", "cancel"} : MoveTo(o, s)
    /\ UNCHANGED <<rowVars, stockVars, couponVars, stripeVars, due, tx, replays, scope>>

\* The invocation dies between two of these steps.
Crash(o) ==
    /\ "crash" \in scope.env
    /\ stage[o] \in {"session", "record", "notify", "cancel"}
    /\ \A t \in Transactions : tx[t] # [op |-> "cancel", order |-> o]
    /\ MoveTo(o, "failed")
    /\ UNCHANGED <<rowVars, stockVars, couponVars, stripeVars, due, tx, replays, scope>>

-----------------------------------------------------------------------------
(* Stripe and the customer *)

Send(o, type) == due' = due \cup {<<o, type>>}

\* Only a request that succeeded gave its customer the URL of the session.
CustomerPays(o) ==
    /\ session[o] = "open" /\ stage[o] = "done"
    /\ session' = [session EXCEPT ![o] = "complete"]
    /\ Send(o, "completed")
    /\ UNCHANGED <<rowVars, stockVars, couponVars, stage, refund, tx, replays, scope>>

\* The card is refused; the session stays open and the customer may try again.
PaymentDeclined(o) ==
    /\ "decline" \in scope.env
    /\ session[o] = "open" /\ stage[o] = "done"
    /\ Send(o, "failed")
    /\ UNCHANGED <<rowVars, stockVars, couponVars, stage, stripeVars, tx, replays, scope>>

\* expires_at passes.
SessionExpires(o) ==
    /\ session[o] = "open"
    /\ session' = [session EXCEPT ![o] = "expired"]
    /\ Send(o, "expired")
    /\ UNCHANGED <<rowVars, stockVars, couponVars, stage, refund, tx, replays, scope>>

\* An operator refunds a payment, in part or in full, in the Stripe dashboard.
RefundAtStripe(o) ==
    /\ "refund" \in scope.env
    /\ session[o] = "complete"
    /\ \/ /\ refund[o] = "none"
          /\ refund' = [refund EXCEPT ![o] = "partial"]
          /\ Send(o, "partial")
       \/ /\ refund[o] # "full"
          /\ refund' = [refund EXCEPT ![o] = "full"]
          /\ Send(o, "refunded")
    /\ UNCHANGED <<rowVars, stockVars, couponVars, stage, session, tx, replays, scope>>

-----------------------------------------------------------------------------
(* Transactions: the read *)

\* Mutation: no idempotency guard.
CompletableAgain(o) == TRUE

\* The guards on the status that was read.  metadata.order_id finds the order
\* of the session's and the payment's events; a charge has none, so refunded
\* finds it by the payment intent that completed recorded.
Completable(o) == pay[o] # "paid"

\* Mutation: the expiry of a session is not handled.
NeverExpirable(o) == FALSE

Expirable(o) == pay[o] = "pending"

\* Mutation: a refused card counts whatever the status is.
AlwaysFailable(o) == TRUE

Failable(o) == pay[o] = "pending"
Refundable(o) == pi[o] /\ pay[o] # "refunded"

\* The handler goes on to write.  A partial refund only adds a note for the
\* administrator.
Applies(type, o) ==
    \/ type = "completed" /\ Completable(o)
    \/ type = "expired" /\ Expirable(o)
    \/ type = "failed" /\ Failable(o)
    \/ type = "refunded" /\ Refundable(o)

\* A slot of the scope with no transaction in it.
Free(t) == t \in scope.slots /\ tx[t] = Idle

Begin(t, op, o) ==
    /\ Free(t)
    /\ tx' = [tx EXCEPT ![t] = [op |-> op, order |-> o]]

\* An event is delivered: its handler goes on to write, or returns.
Webhook(t, o, type) ==
    /\ Free(t)
    /\ <<o, type>> \in due
    /\ due' = due \ {<<o, type>>}
    /\ \/ Applies(type, o) /\ Begin(t, type, o)
       \/ ~Applies(type, o) /\ UNCHANGED tx
    /\ UNCHANGED <<rowVars, stockVars, couponVars, stage, stripeVars, replays, scope>>

\* An administrator confirms a transfer; the daily job finds an order overdue.
\* Both insist on pending, and answer 400 or return otherwise.
ConfirmBankTransfer(t, o) ==
    /\ o \in BankOrders /\ pay[o] = "pending"
    /\ Begin(t, "confirm", o)
    /\ UNCHANGED <<rowVars, stockVars, couponVars, stage, stripeVars, due, replays, scope>>

ExpireOverdue(t, o) ==
    /\ o \in BankOrders /\ pay[o] = "pending"
    /\ Begin(t, "overdue", o)
    /\ UNCHANGED <<rowVars, stockVars, couponVars, stage, stripeVars, due, replays, scope>>

\* The catch block of the checkout request.
CancelReservation(t, o) ==
    /\ stage[o] = "cancel"
    /\ \A s \in Transactions : tx[s] # [op |-> "cancel", order |-> o]
    /\ \/ /\ pay[o] = "pending"
          /\ Begin(t, "cancel", o)
          /\ UNCHANGED stage
       \/ /\ pay[o] # "pending"
          /\ MoveTo(o, "failed")
          /\ UNCHANGED tx
    /\ UNCHANGED <<rowVars, stockVars, couponVars, stripeVars, due, replays, scope>>

-----------------------------------------------------------------------------
(* Transactions: the writes and the commit *)

SetPay(o, status) == pay' = [pay EXCEPT ![o] = status]

\* The transaction ends.  A crash before markStripeEventSucceeded makes the
\* inbox run the event again.
End(t) == tx' = [tx EXCEPT ![t] = Idle]
Redeliver(t) == due' = due \cup {<<tx[t].order, tx[t].op>>}
Commit(t) ==
    /\ End(t)
    /\ \/ UNCHANGED <<due, replays>>
       \/ /\ tx[t].op \in EventTypes /\ replays < scope.replays
          /\ Redeliver(t)
          /\ replays' = replays + 1

\* createCommissionForOrder fails on the unique order_id of commissions.
CommissionExists(o) == o \in ReferredOrders /\ granted[o] > 0

\* handleCheckoutSessionCompleted and confirmBankTransferPayment, with
\* applyPaidOrderSideEffects: granted stands for all the records it creates.
CommitPaid(t) ==
    /\ tx[t].op \in {"completed", "confirm"}
    /\ LET o == tx[t].order
       IN  /\ ~CommissionExists(o)
           /\ SetPay(o, "paid")
           /\ pi' = [pi EXCEPT ![o] = @ \/ tx[t].op = "completed"]
           /\ granted' = [granted EXCEPT ![o] = @ + 1]
           /\ Sell(o)
           /\ ConfirmCoupon(o)
    /\ Commit(t)
    /\ UNCHANGED <<stage, stripeVars, scope>>

\* handleCheckoutSessionExpired and expireOverdueBankTransferOrders
CommitExpired(t) ==
    /\ tx[t].op \in {"expired", "overdue"}
    /\ LET o == tx[t].order
       IN  SetPay(o, "expired") /\ Release(o) /\ CancelCoupon(o, "expired")
    /\ Commit(t)
    /\ UNCHANGED <<pi, granted, stage, stripeVars, scope>>

\* handlePaymentIntentFailed
CommitFailed(t) ==
    /\ tx[t].op = "failed"
    /\ SetPay(tx[t].order, "failed")
    /\ Commit(t)
    /\ UNCHANGED <<pi, granted, stockVars, couponVars, stage, stripeVars, scope>>

\* handleChargeRefunded; the records it revokes are OrderRecords' subject.
CommitRefunded(t) ==
    /\ tx[t].op = "refunded"
    /\ SetPay(tx[t].order, "refunded")
    /\ RestoreCoupon(tx[t].order)
    /\ Commit(t)
    /\ UNCHANGED <<pi, granted, stockVars, stage, stripeVars, scope>>

\* cancelOrderReservation
CommitCancelled(t) ==
    /\ tx[t].op = "cancel"
    /\ LET o == tx[t].order
       IN  /\ Release(o) /\ CancelCoupon(o, "cancelled") /\ SetPay(o, "failed")
           /\ MoveTo(o, "failed")
    /\ Commit(t)
    /\ UNCHANGED <<pi, granted, stripeVars, scope>>

\* The transaction throws and is rolled back: the event is delivered again, an
\* administrator gets an error, the checkout request ends.
Abort(t) ==
    /\ tx[t] # Idle
    /\ \/ "abort" \in scope.env
       \/ tx[t].op \in {"completed", "confirm"} /\ CommissionExists(tx[t].order)
    /\ End(t)
    /\ \/ tx[t].op \in EventTypes /\ Redeliver(t)
       \/ tx[t].op \notin EventTypes /\ UNCHANGED due
    /\ \/ tx[t].op = "cancel" /\ MoveTo(tx[t].order, "failed")
       \/ tx[t].op # "cancel" /\ UNCHANGED stage
    /\ UNCHANGED <<rowVars, stockVars, couponVars, stripeVars, replays, scope>>

-----------------------------------------------------------------------------
Request(o) ==
    \/ CreatePendingOrder(o) \/ NotifyBankTransfer(o)
    \/ CreateSession(o) \/ RecordSession(o) \/ Crash(o)
AtStripe(o) ==
    \/ CustomerPays(o) \/ PaymentDeclined(o)
    \/ SessionExpires(o) \/ RefundAtStripe(o)
Start(t, o) ==
    \/ \E type \in EventTypes : Webhook(t, o, type)
    \/ ConfirmBankTransfer(t, o) \/ ExpireOverdue(t, o) \/ CancelReservation(t, o)
Finish(t) ==
    \/ CommitPaid(t) \/ CommitExpired(t) \/ CommitFailed(t)
    \/ CommitRefunded(t) \/ CommitCancelled(t) \/ Abort(t)

Next ==
    \/ \E o \in Orders : Request(o) \/ AtStripe(o)
    \/ \E t \in Transactions, o \in Orders : Start(t, o)
    \/ \E t \in Transactions : Finish(t)

Spec == Init /\ [][Next]_vars

\* Requests and transactions run on; Stripe expires its sessions and delivers
\* its events, and the daily job reaches every overdue order.  Strong fairness
\* because the slots are shared here and are not in the program.
FairSpec ==
    /\ Spec
    /\ \A o \in Orders :
         /\ WF_vars(NotifyBankTransfer(o) \/ CreateSession(o) \/ RecordSession(o))
         /\ WF_vars(SessionExpires(o))
         /\ SF_vars(\E t \in Transactions :
                      \/ \E type \in EventTypes : Webhook(t, o, type)
                      \/ ExpireOverdue(t, o) \/ CancelReservation(t, o))
    /\ \A t \in Transactions : WF_vars(Finish(t))

-----------------------------------------------------------------------------
(* Properties *)

\* Handlers run one at a time.
Serial == \A t1, t2 \in scope.slots : t1 = t2

\* An order whose units are still counted in reserved_stock: it is pending, or
\* payment_failed left it failed with its reservation kept for the session.
Holds(o) == pay[o] = "pending" \/ (pay[o] = "failed" /\ stage[o] = "done")
Held == {o \in Orders : Holds(o)}
Sold == {o \in Orders : granted[o] > 0}

\* An event replayed after a refund makes the order paid once more, unless the
\* unique commissions.order_id stops it.
LateReplays == scope.replays > 0 /\ "refund" \in scope.env
PaidOnce(o) == o \in ReferredOrders \/ ~LateReplays

\* No order asks for a variant in two lines.
OneLineOf(v) ==
    \A u, x \in Units :
       OrderOf[u] = OrderOf[x] /\ VariantOf[u] = v /\ VariantOf[x] = v
         => LineOf[u] = LineOf[x]

\* While handlers run one at a time: every unit is reserved while its order is
\* open and sold once, so that whatever the order of events, aborts and crashes
\* reserved_stock is the sum over the open orders and stock what the sales left
\* (reserveStock, releaseStock, applyPaidOrderSideEffects); and no more is
\* promised than there is (assertStockAvailable under FOR UPDATE, which looks at
\* one line at a time).
StockLedger ==
    Serial /\ (\A o \in scope.orders : PaidOnce(o)) =>
      \A v \in Variants :
         /\ reserved[v] = Cardinality(Ordered(Held, v))
         /\ stock[v] = InitialStock[v] - Cardinality(Ordered(Sold, v))
         /\ OneLineOf(v) => reserved[v] <= stock[v]

\* The side effects of a payment happen at most once per order.  Where handlers
\* run one at a time the guards on payment_status absorb a replayed event
\* (handleCheckoutSessionCompleted), unless it is replayed after a refund; where
\* they overlap the unique commissions.order_id protects the orders with a
\* referral link, and only those.
FulfilledOnce ==
    \A o \in Orders :
       o \in ReferredOrders \/ (Serial /\ PaidOnce(o)) => granted[o] <= 1

\* The counters of the coupon are the number of its usages in each state, and
\* what it was granted for never exceeds total_usage_limit: also while handlers
\* of the same order overlap, for they re-read the usage under the order's lock.
CouponCounts ==
    /\ usedCount = Cardinality({o \in Orders : usage[o] = "used"})
    /\ reservedCount = Cardinality({o \in Orders : usage[o] = "reserved"})
CouponWithinLimit == usedCount + reservedCount <= UsageLimit
CouponLedger == CouponCounts /\ CouponWithinLimit

\* While handlers run one at a time: a paid order that was given a discount has
\* used up the coupon, and an open one still reserves it (confirmCouponUsage,
\* cancelCouponUsage).
DiscountIsCharged ==
    Serial =>
      \A o \in Orders :
         usage[o] # "none" /\ PaidOnce(o) =>
           /\ pay[o] = "paid" => usage[o] = "used"
           /\ pay[o] = "pending" => usage[o] = "reserved"

\* No event of the order is on its way or being handled.
Quiet(o) ==
    /\ \A type \in EventTypes : <<o, type>> \notin due
    /\ \A t \in Transactions : tx[t] # Idle => tx[t].order # o

\* While handlers run one at a time: once every event has been handled, in
\* whatever order, the payment status says what happened at Stripe: paid when
\* the customer paid, although a payment_failed of an earlier attempt may have
\* arrived last, and neither paid nor pending when the session expired.
OutcomeMatchesSession ==
    Serial =>
      \A o \in Orders :
         Quiet(o) =>
           /\ session[o] = "complete" /\ refund[o] # "full" => pay[o] = "paid"
           /\ session[o] = "expired" => pay[o] \in {"expired", "failed"}

\* When no order is open any more, nothing is reserved.  It does not hold: a
\* payment_failed before the expiry leaves the reservation (README, section 6).
Closed(o) == Quiet(o) /\ pay[o] # "pending" /\ session[o] # "open"
NothingHeldWhenClosed ==
    (\A o \in Orders : Closed(o)) => \A v \in Variants : reserved[v] = 0

\* Unless requests die or transactions fail, every order that was created is
\* settled in the end: none stays pending.
OrdersResolve ==
    scope.env \cap {"abort", "crash"} = {}
      => <>[](\A o \in Orders : pay[o] # "pending")

=============================================================================

------------------------ MODULE OrderPaymentsProofs ------------------------
(***************************************************************************)
(* Proofs about OrderPayments, for any number of orders, units, variants,  *)
(* overlapping transactions and replays, in any scope.                     *)
(***************************************************************************)
EXTENDS OrderPayments, FiniteSetTheorems, TLAPS

-----------------------------------------------------------------------------
(* Types *)

\* Quantities are natural numbers.
LEMMA QtyType ==
    ASSUME NEW o, NEW v
    PROVE  Qty(o, v) \in Nat
  <1>1. Ordered({o}, v) \subseteq Units
    BY DEF Ordered
  <1>2. IsFiniteSet(Ordered({o}, v))
    BY <1>1, UnitAssumption, FS_Subset
  <1> QED
    BY <1>2, FS_CardinalityType DEF Qty

StockTypeOK == stock \in [Variants -> Int] /\ reserved \in [Variants -> Int]
CouponTypeOK == usage \in [Orders -> Usages] /\ usedCount \in Int
                  /\ reservedCount \in Int

\* The stock operations keep the types.
LEMMA StockTypes ==
    ASSUME StockTypeOK, NEW o \in Orders, Reserve(o) \/ Release(o) \/ Sell(o)
    PROVE  StockTypeOK'
  <1>1. \A v \in Variants : Qty(o, v) \in Nat
    BY QtyType
  <1>2. \A v \in Variants : /\ stock[v] - Qty(o, v) \in Int
                            /\ reserved[v] - Qty(o, v) \in Int
                            /\ reserved[v] + Qty(o, v) \in Int
    BY <1>1 DEF StockTypeOK
  <1> QED
    BY <1>2 DEF StockTypeOK, Reserve, Release, Sell

\* The coupon operations keep the types.
LEMMA CouponTypes ==
    ASSUME CouponTypeOK, NEW o \in Orders,
           \/ ReserveCoupon(o) \/ ConfirmCoupon(o) \/ RestoreCoupon(o)
           \/ \E reason \in {"cancelled", "expired"} : CancelCoupon(o, reason)
    PROVE  CouponTypeOK'
BY DEF CouponTypeOK, Usages, SetUsage, couponVars, ReserveCoupon, ConfirmCoupon,
       RestoreCoupon, CancelCoupon

\* Ending a transaction keeps the types.
LEMMA CommitTypes ==
    ASSUME TypeOK, NEW t \in Transactions, tx[t] \in Running, Commit(t)
    PROVE  /\ tx' \in [Transactions -> Running \cup {Idle}]
           /\ due' \subseteq Orders \X EventTypes
           /\ replays' \in 0..scope.replays
  <1>1. tx[t].order \in Orders
    BY DEF Running
  <1>2. tx' \in [Transactions -> Running \cup {Idle}]
    BY DEF Commit, End, TypeOK
  <1>3. due' \subseteq Orders \X EventTypes
    BY <1>1 DEF Commit, Redeliver, TypeOK
  <1>4. replays' \in 0..scope.replays
    BY ScopeAssumption DEF Commit, TypeOK
  <1> QED
    BY <1>2, <1>3, <1>4

LEMMA BeginTypes ==
    ASSUME TypeOK, NEW t \in Transactions, NEW op \in Ops, NEW o \in Orders,
           Begin(t, op, o)
    PROVE  tx' \in [Transactions -> Running \cup {Idle}]
  <1>1. [op |-> op, order |-> o] \in Running
    BY DEF Running
  <1> QED
    BY <1>1 DEF Begin, Free, TypeOK

LEMMA TypeParts == TypeOK => StockTypeOK /\ CouponTypeOK
BY DEF TypeOK, StockTypeOK, CouponTypeOK

LEMMA InitTypeOK == Init => TypeOK
BY StockAssumption, ScopeAssumption
   DEF Init, TypeOK, Payments, Usages, Stages, Sessions, Idle

\* A transaction that does something is running on an order.
LEMMA RunningTx ==
    ASSUME TypeOK, NEW t \in Transactions, tx[t] # Idle
    PROVE  tx[t] \in Running /\ tx[t].order \in Orders /\ tx[t].op \in Ops
BY DEF TypeOK, Running

LEMMA RequestTypeOK ==
    ASSUME TypeOK, NEW o \in Orders, Request(o)
    PROVE  TypeOK'
  <1>1. CASE CreatePendingOrder(o)
    <2>1. StockTypeOK' /\ CouponTypeOK'
      BY <1>1, TypeParts, StockTypes, CouponTypes DEF CreatePendingOrder
    <2> QED
      BY <1>1, <2>1 DEF CreatePendingOrder, MoveTo, stripeVars, TypeOK,
         StockTypeOK, CouponTypeOK, Payments, Stages
  <1>2. CASE NotifyBankTransfer(o) \/ RecordSession(o) \/ Crash(o)
    BY <1>2 DEF NotifyBankTransfer, RecordSession, Crash, MoveTo, rowVars,
       stockVars, couponVars, stripeVars, TypeOK, Stages
  <1>3. CASE CreateSession(o)
    BY <1>3 DEF CreateSession, MoveTo, rowVars, stockVars, couponVars, TypeOK,
       Stages, Sessions
  <1> QED
    BY <1>1, <1>2, <1>3 DEF Request

LEMMA AtStripeTypeOK ==
    ASSUME TypeOK, NEW o \in Orders, AtStripe(o)
    PROVE  TypeOK'
  <1>1. ASSUME NEW type \in EventTypes, Send(o, type)
        PROVE  due' \subseteq Orders \X EventTypes
    BY <1>1 DEF Send, TypeOK
  <1> USE DEF rowVars, stockVars, couponVars, stripeVars, TypeOK
  <1>2. CASE CustomerPays(o)
    BY <1>1, <1>2 DEF CustomerPays, Sessions, EventTypes
  <1>3. CASE PaymentDeclined(o)
    BY <1>1, <1>3 DEF PaymentDeclined, EventTypes
  <1>4. CASE SessionExpires(o)
    BY <1>1, <1>4 DEF SessionExpires, Sessions, EventTypes
  <1>5. CASE RefundAtStripe(o)
    <2>1. due' \subseteq Orders \X EventTypes
      BY <1>1, <1>5 DEF RefundAtStripe, EventTypes
    <2> QED
      BY <1>5, <2>1 DEF RefundAtStripe
  <1> QED
    BY <1>2, <1>3, <1>4, <1>5 DEF AtStripe

LEMMA StartTypeOK ==
    ASSUME TypeOK, NEW t \in Transactions, NEW o \in Orders, Start(t, o)
    PROVE  TypeOK'
  <1>1. ASSUME NEW type \in EventTypes, Webhook(t, o, type)
        PROVE  TypeOK'
    <2>1. tx' \in [Transactions -> Running \cup {Idle}]
      BY <1>1, BeginTypes DEF Webhook, Ops, TypeOK
    <2> QED
      BY <1>1, <2>1 DEF Webhook, rowVars, stockVars, couponVars, stripeVars, TypeOK
  <1>2. CASE ConfirmBankTransfer(t, o)
    <2>1. tx' \in [Transactions -> Running \cup {Idle}]
      BY <1>2, BeginTypes DEF ConfirmBankTransfer, Ops
    <2> QED
      BY <1>2, <2>1 DEF ConfirmBankTransfer, rowVars, stockVars, couponVars,
         stripeVars, TypeOK
  <1>3. CASE ExpireOverdue(t, o)
    <2>1. tx' \in [Transactions -> Running \cup {Idle}]
      BY <1>3, BeginTypes DEF ExpireOverdue, Ops
    <2> QED
      BY <1>3, <2>1 DEF ExpireOverdue, rowVars, stockVars, couponVars,
         stripeVars, TypeOK
  <1>4. CASE CancelReservation(t, o)
    <2>1. tx' \in [Transactions -> Running \cup {Idle}]
      BY <1>4, BeginTypes DEF CancelReservation, Ops, TypeOK
    <2>2. stage' \in [Orders -> Stages]
      BY <1>4 DEF CancelReservation, MoveTo, TypeOK, Stages
    <2> QED
      BY <1>4, <2>1, <2>2 DEF CancelReservation, rowVars, stockVars, couponVars,
         stripeVars, TypeOK
  <1> QED
    BY <1>1, <1>2, <1>3, <1>4 DEF Start

\* What the five commits have in common.
Commits(t) == \/ CommitPaid(t) \/ CommitExpired(t) \/ CommitFailed(t)
              \/ CommitRefunded(t) \/ CommitCancelled(t)

LEMMA CommitRuns ==
    ASSUME TypeOK, NEW t \in Transactions, Commits(t) \/ Abort(t)
    PROVE  tx[t] \in Running /\ tx[t].order \in Orders /\ tx[t].op \in Ops
  <1>1. tx[t] # Idle
    BY DEF Commits, CommitPaid, CommitExpired, CommitFailed, CommitRefunded,
           CommitCancelled, Abort, Idle
  <1> QED
    BY <1>1, RunningTx

LEMMA FinishTypeOK ==
    ASSUME TypeOK, NEW t \in Transactions, Finish(t)
    PROVE  TypeOK'
  <1> DEFINE o == tx[t].order
  <1>1. tx[t] \in Running /\ o \in Orders
    BY CommitRuns DEF Finish, Commits
  <1>2. ASSUME Commit(t)
        PROVE  /\ tx' \in [Transactions -> Running \cup {Idle}]
               /\ due' \subseteq Orders \X EventTypes
               /\ replays' \in 0..scope.replays
    BY <1>1, <1>2, CommitTypes
  <1>3. ASSUME NEW status \in Payments, SetPay(o, status)
        PROVE  pay' \in [Orders -> Payments]
    BY <1>3 DEF SetPay, TypeOK
  <1>4. CASE CommitPaid(t)
    <2>1. StockTypeOK' /\ CouponTypeOK'
      BY <1>1, <1>4, TypeParts, StockTypes, CouponTypes DEF CommitPaid
    <2>2. pay' \in [Orders -> Payments]
      BY <1>3, <1>4 DEF CommitPaid, Payments
    <2>3. pi' \in [Orders -> BOOLEAN] /\ granted' \in [Orders -> Nat]
      BY <1>1, <1>4 DEF CommitPaid, TypeOK
    <2> QED
      BY <1>2, <1>4, <2>1, <2>2, <2>3 DEF CommitPaid, stripeVars, TypeOK,
         StockTypeOK, CouponTypeOK
  <1>5. CASE CommitExpired(t)
    <2>1. StockTypeOK' /\ CouponTypeOK'
      BY <1>1, <1>5, TypeParts, StockTypes, CouponTypes DEF CommitExpired
    <2>2. pay' \in [Orders -> Payments]
      BY <1>3, <1>5 DEF CommitExpired, Payments
    <2> QED
      BY <1>2, <1>5, <2>1, <2>2 DEF CommitExpired, stripeVars, TypeOK,
         StockTypeOK, CouponTypeOK
  <1>6. CASE CommitFailed(t)
    <2>1. pay' \in [Orders -> Payments]
      BY <1>3, <1>6 DEF CommitFailed, Payments
    <2> QED
      BY <1>2, <1>6, <2>1 DEF CommitFailed, stockVars, couponVars, stripeVars, TypeOK
  <1>7. CASE CommitRefunded(t)
    <2>1. CouponTypeOK'
      BY <1>1, <1>7, TypeParts, CouponTypes DEF CommitRefunded
    <2>2. pay' \in [Orders -> Payments]
      BY <1>3, <1>7 DEF CommitRefunded, Payments
    <2> QED
      BY <1>2, <1>7, <2>1, <2>2 DEF CommitRefunded, stockVars, stripeVars, TypeOK,
         CouponTypeOK
  <1>8. CASE CommitCancelled(t)
    <2>1. StockTypeOK' /\ CouponTypeOK'
      BY <1>1, <1>8, TypeParts, StockTypes, CouponTypes DEF CommitCancelled
    <2>2. pay' \in [Orders -> Payments]
      BY <1>3, <1>8 DEF CommitCancelled, Payments
    <2>3. stage' \in [Orders -> Stages]
      BY <1>1, <1>8 DEF CommitCancelled, MoveTo, TypeOK, Stages
    <2> QED
      BY <1>2, <1>8, <2>1, <2>2, <2>3 DEF CommitCancelled, stripeVars, TypeOK,
         StockTypeOK, CouponTypeOK
  <1>9. CASE Abort(t)
    <2>1. tx' \in [Transactions -> Running \cup {Idle}]
      BY <1>9 DEF Abort, End, TypeOK
    <2>2. due' \subseteq Orders \X EventTypes
      BY <1>1, <1>9 DEF Abort, Redeliver, TypeOK
    <2>3. stage' \in [Orders -> Stages]
      BY <1>1, <1>9 DEF Abort, MoveTo, TypeOK, Stages
    <2> QED
      BY <1>9, <2>1, <2>2, <2>3 DEF Abort, rowVars, stockVars, couponVars,
         stripeVars, TypeOK
  <1> QED
    BY <1>4, <1>5, <1>6, <1>7, <1>8, <1>9 DEF Finish

LEMMA NextTypeOK == TypeOK /\ [Next]_vars => TypeOK'
  <1>1. ASSUME TypeOK, Next PROVE TypeOK'
    BY <1>1, RequestTypeOK, AtStripeTypeOK, StartTypeOK, FinishTypeOK DEF Next
  <1>2. ASSUME TypeOK, UNCHANGED vars PROVE TypeOK'
    BY <1>2 DEF vars, rowVars, stockVars, couponVars, stripeVars, TypeOK
  <1> QED
    BY <1>1, <1>2

\* The variables have their types in every state of OrderPayments.
THEOREM TypeCorrect == Spec => []TypeOK
BY InitTypeOK, NextTypeOK, PTL DEF Spec

-----------------------------------------------------------------------------
(* The coupon *)

CountOf(status) == Cardinality({o \in Orders : usage[o] = status})

\* Changing one order's usage moves it from one count to another.
LEMMA UsageCounts ==
    ASSUME usage \in [Orders -> Usages], NEW o \in Orders, NEW from, NEW to,
           usage[o] = from, SetUsage(o, to), from # to
    PROVE  /\ CountOf(from) \in Nat /\ CountOf(to) \in Nat
           /\ CountOf(from)' = CountOf(from) - 1
           /\ CountOf(to)' = CountOf(to) + 1
           /\ \A s : s \notin {from, to} => CountOf(s)' = CountOf(s)
  <1> DEFINE S(s) == {x \in Orders : usage[x] = s}
             T(s) == {x \in Orders : usage'[x] = s}
  <1>1. \A x \in Orders : usage'[x] = IF x = o THEN to ELSE usage[x]
    BY DEF SetUsage
  <1>2. \A s : IsFiniteSet(S(s))
    BY OrderAssumption, FS_Subset
  <1>3. T(from) = S(from) \ {o} /\ o \in S(from)
    BY <1>1
  <1>4. T(to) = S(to) \cup {o} /\ o \notin S(to)
    BY <1>1
  <1>5. \A s : s \notin {from, to} => T(s) = S(s)
    BY <1>1
  <1>6. \A s : CountOf(s) = Cardinality(S(s)) /\ CountOf(s)' = Cardinality(T(s))
    BY DEF CountOf
  <1> HIDE DEF S, T
  <1>7. Cardinality(T(from)) = Cardinality(S(from)) - 1
    BY <1>2, <1>3, FS_RemoveElement
  <1>8. Cardinality(T(to)) = Cardinality(S(to)) + 1
    BY <1>2, <1>4, FS_AddElement
  <1>9. Cardinality(S(from)) \in Nat /\ Cardinality(S(to)) \in Nat
    BY <1>2, FS_CardinalityType
  <1> QED
    BY <1>5, <1>6, <1>7, <1>8, <1>9

CouponInv == CouponTypeOK /\ CouponLedger

LEMMA LedgerIsCount ==
    CouponCounts <=> usedCount = CountOf("used") /\ reservedCount = CountOf("reserved")
BY DEF CouponCounts, CountOf

\* Each coupon operation keeps the counters right and within the limit.
LEMMA CouponSteps ==
    ASSUME CouponInv, NEW o \in Orders, stage[o] = "new" => usage[o] = "none",
           \/ stage[o] = "new" /\ ReserveCoupon(o)
           \/ ConfirmCoupon(o) \/ RestoreCoupon(o)
           \/ \E reason \in {"cancelled", "expired"} : CancelCoupon(o, reason)
    PROVE  CouponInv'
  <1>1. CouponTypeOK'
    BY CouponTypes DEF CouponInv
  <1>2. usage \in [Orders -> Usages] /\ UsageLimit \in Nat
          /\ usedCount \in Int /\ reservedCount \in Int
    BY CouponAssumption DEF CouponInv, CouponTypeOK
  <1>3. CASE UNCHANGED couponVars
    BY <1>1, <1>3 DEF couponVars, CouponInv, CouponLedger, CouponCounts, CouponWithinLimit
  <1>4. CASE stage[o] = "new" /\ WithinLimit /\ SetUsage(o, "reserved")
             /\ reservedCount' = reservedCount + 1 /\ UNCHANGED usedCount
    <2>1. usage[o] = "none"
      BY <1>4
    <2>2. CountOf("reserved")' = CountOf("reserved") + 1
            /\ CountOf("used")' = CountOf("used")
      BY <1>2, <1>4, <2>1, UsageCounts
    <2> QED
      BY <1>1, <1>2, <1>4, <2>2, LedgerIsCount
         DEF CouponInv, CouponLedger, CouponCounts, CountOf, CouponWithinLimit, WithinLimit
  <1>5. CASE usage[o] = "reserved" /\ SetUsage(o, "used")
             /\ usedCount' = usedCount + 1 /\ reservedCount' = reservedCount - 1
    <2>1. CountOf("reserved")' = CountOf("reserved") - 1
            /\ CountOf("used")' = CountOf("used") + 1
      BY <1>2, <1>5, UsageCounts
    <2> QED
      BY <1>1, <1>2, <1>5, <2>1
         DEF CouponInv, CouponLedger, CouponCounts, CountOf, CouponWithinLimit
  <1>6. ASSUME NEW reason \in {"cancelled", "expired"}, usage[o] = "reserved",
               SetUsage(o, reason), reservedCount' = reservedCount - 1,
               UNCHANGED usedCount
        PROVE  CouponInv'
    <2>1. CountOf("reserved")' = CountOf("reserved") - 1
            /\ CountOf("used")' = CountOf("used")
      BY <1>2, <1>6, UsageCounts
    <2> QED
      BY <1>1, <1>2, <1>6, <2>1
         DEF CouponInv, CouponLedger, CouponCounts, CountOf, CouponWithinLimit
  <1>7. CASE usage[o] = "used" /\ SetUsage(o, "cancelled")
             /\ usedCount' = usedCount - 1 /\ UNCHANGED reservedCount
    <2>1. CountOf("used")' = CountOf("used") - 1
            /\ CountOf("reserved")' = CountOf("reserved")
      BY <1>2, <1>7, UsageCounts
    <2> QED
      BY <1>1, <1>2, <1>7, <2>1
         DEF CouponInv, CouponLedger, CouponCounts, CountOf, CouponWithinLimit
  <1> QED
    BY <1>3, <1>4, <1>5, <1>6, <1>7
       DEF ReserveCoupon, ConfirmCoupon, RestoreCoupon, CancelCoupon

\* A request that has not created its order has no usage.
NewHasNoUsage == \A o \in Orders : stage[o] = "new" => usage[o] = "none"
CouponIInv == TypeOK /\ NewHasNoUsage /\ CouponInv

\* What a step does to the coupon.
CouponStep(o) ==
    \/ stage[o] = "new" /\ stage'[o] # "new" /\ ReserveCoupon(o)
    \/ ConfirmCoupon(o) \/ RestoreCoupon(o)
    \/ \E reason \in {"cancelled", "expired"} : CancelCoupon(o, reason)

LEMMA NextCoupon ==
    ASSUME TypeOK, Next
    PROVE  /\ (UNCHANGED couponVars) \/ \E o \in Orders : CouponStep(o)
           /\ \A o \in Orders : stage'[o] = "new" => stage[o] = "new"
  <1> DEFINE Done ==
        /\ (UNCHANGED couponVars) \/ \E o \in Orders : CouponStep(o)
        /\ \A o \in Orders : stage'[o] = "new" => stage[o] = "new"
  <1>1. ASSUME NEW o \in Orders, NEW s \in Stages \ {"new"}, MoveTo(o, s)
        PROVE  /\ \A x \in Orders : stage'[x] = "new" => stage[x] = "new"
               /\ stage'[o] # "new"
    BY <1>1 DEF MoveTo, TypeOK
  <1>2. ASSUME UNCHANGED stage
        PROVE  \A x \in Orders : stage'[x] = "new" => stage[x] = "new"
    BY <1>2
  <1>3. ASSUME NEW o \in Orders, Request(o) PROVE Done
    <2>1. CASE CreatePendingOrder(o)
      <3>1. \E s \in Stages \ {"new"} : MoveTo(o, s)
        BY <2>1 DEF CreatePendingOrder, Stages
      <3>2. CouponStep(o)
        BY <2>1, <3>1, <1>1 DEF CreatePendingOrder, CouponStep
      <3> QED
        BY <3>1, <3>2, <1>1
    <2>2. CASE NotifyBankTransfer(o) \/ CreateSession(o) \/ RecordSession(o) \/ Crash(o)
      <3>1. \E s \in Stages \ {"new"} : MoveTo(o, s)
        BY <2>2 DEF NotifyBankTransfer, CreateSession, RecordSession, Crash, Stages
      <3>2. UNCHANGED couponVars
        BY <2>2 DEF NotifyBankTransfer, CreateSession, RecordSession, Crash
      <3> QED
        BY <3>1, <3>2, <1>1
    <2> QED
      BY <1>3, <2>1, <2>2 DEF Request
  <1>4. ASSUME NEW o \in Orders, AtStripe(o) PROVE Done
    BY <1>4 DEF AtStripe, CustomerPays, PaymentDeclined, SessionExpires,
                RefundAtStripe, couponVars
  <1>5. ASSUME NEW t \in Transactions, NEW o \in Orders, Start(t, o) PROVE Done
    <2>1. UNCHANGED couponVars
      BY <1>5 DEF Start, Webhook, ConfirmBankTransfer, ExpireOverdue,
                  CancelReservation
    <2>2. (UNCHANGED stage) \/ MoveTo(o, "failed")
      BY <1>5 DEF Start, Webhook, ConfirmBankTransfer, ExpireOverdue,
                  CancelReservation
    <2> QED
      BY <2>1, <2>2, <1>1 DEF Stages
  <1>6. ASSUME NEW t \in Transactions, Finish(t) PROVE Done
    <2> DEFINE o == tx[t].order
    <2>1. o \in Orders
      BY <1>6, CommitRuns DEF Finish, Commits
    <2>2. (UNCHANGED stage) \/ MoveTo(o, "failed")
      BY <1>6 DEF Finish, CommitPaid, CommitExpired, CommitFailed,
                  CommitRefunded, CommitCancelled, Abort
    <2>3. (UNCHANGED couponVars) \/ CouponStep(o)
      <3>1. CASE CommitPaid(t)
        BY <3>1 DEF CommitPaid, CouponStep
      <3>2. CASE CommitExpired(t)
        BY <3>2 DEF CommitExpired, CouponStep
      <3>3. CASE CommitFailed(t)
        BY <3>3 DEF CommitFailed
      <3>4. CASE CommitRefunded(t)
        BY <3>4 DEF CommitRefunded, CouponStep
      <3>5. CASE CommitCancelled(t)
        BY <3>5 DEF CommitCancelled, CouponStep
      <3>6. CASE Abort(t)
        BY <3>6 DEF Abort
      <3> QED
        BY <1>6, <3>1, <3>2, <3>3, <3>4, <3>5, <3>6 DEF Finish
    <2> QED
      BY <2>1, <2>2, <2>3, <1>1 DEF Stages
  <1> QED
    BY <1>3, <1>4, <1>5, <1>6 DEF Next

LEMMA NewKeepsNoUsage ==
    ASSUME TypeOK, NewHasNoUsage, Next
    PROVE  NewHasNoUsage'
  <1> SUFFICES ASSUME NEW x \in Orders, stage'[x] = "new"
               PROVE  usage'[x] = "none"
    BY DEF NewHasNoUsage
  <1>1. stage[x] = "new" /\ usage[x] = "none"
    BY NextCoupon DEF NewHasNoUsage
  <1>2. ASSUME NEW o \in Orders, CouponStep(o) PROVE usage'[x] = usage[x]
    <2>1. CASE stage[o] = "new" /\ stage'[o] # "new" /\ ReserveCoupon(o)
      <3>1. x # o
        BY <2>1
      <3> QED
        BY <2>1, <3>1 DEF ReserveCoupon, SetUsage, couponVars, TypeOK
    <2>2. CASE ConfirmCoupon(o) \/ RestoreCoupon(o)
      BY <2>2, <1>1 DEF ConfirmCoupon, RestoreCoupon, SetUsage, couponVars, TypeOK
    <2>3. CASE \E reason \in {"cancelled", "expired"} : CancelCoupon(o, reason)
      BY <2>3, <1>1 DEF CancelCoupon, SetUsage, couponVars, TypeOK
    <2> QED
      BY <1>2, <2>1, <2>2, <2>3 DEF CouponStep
  <1> QED
    BY <1>1, <1>2, NextCoupon DEF couponVars

LEMMA InitCouponIInv == Init => CouponIInv
  <1> SUFFICES ASSUME Init PROVE CouponIInv
    OBVIOUS
  <1>1. {o \in Orders : usage[o] = "used"} = {}
          /\ {o \in Orders : usage[o] = "reserved"} = {}
    BY DEF Init
  <1>2. CouponCounts
    BY <1>1, FS_EmptySet DEF Init, CouponCounts
  <1>3. CouponWithinLimit
    BY CouponAssumption DEF Init, CouponWithinLimit
  <1>4. NewHasNoUsage
    BY DEF Init, NewHasNoUsage
  <1> QED
    BY <1>2, <1>3, <1>4, InitTypeOK, TypeParts DEF CouponIInv, CouponInv, CouponLedger

LEMMA NextCouponIInv == CouponIInv /\ [Next]_vars => CouponIInv'
  <1> SUFFICES ASSUME CouponIInv, [Next]_vars PROVE CouponIInv'
    OBVIOUS
  <1>1. TypeOK'
    BY NextTypeOK DEF CouponIInv
  <1>2. CASE UNCHANGED vars
    <2>1. UNCHANGED <<usage, usedCount, reservedCount, stage>>
      BY <1>2 DEF vars, couponVars
    <2> QED
      BY <1>1, <2>1 DEF CouponIInv, CouponInv, CouponTypeOK, CouponLedger,
         CouponCounts, CouponWithinLimit, NewHasNoUsage
  <1>3. CASE Next
    <2>1. NewHasNoUsage'
      BY <1>3, NewKeepsNoUsage DEF CouponIInv
    <2>2. CASE UNCHANGED couponVars
      BY <1>1, <2>1, <2>2 DEF couponVars, CouponIInv, CouponInv, CouponTypeOK,
         CouponLedger, CouponCounts, CouponWithinLimit
    <2>3. ASSUME NEW o \in Orders, CouponStep(o) PROVE CouponInv'
      <3>1. CouponInv /\ (stage[o] = "new" => usage[o] = "none")
        BY DEF CouponIInv, NewHasNoUsage
      <3> QED
        BY <2>3, <3>1, CouponSteps DEF CouponStep
    <2> QED
      BY <1>1, <1>3, <2>1, <2>2, <2>3, NextCoupon DEF CouponIInv
  <1> QED
    BY <1>2, <1>3

\* However many transactions overlap, replay or abort, the coupon's counters
\* are the numbers of its usages, and it is never granted beyond its limit.
THEOREM CouponLedgerHolds == Spec => []CouponLedger
  <1>1. CouponIInv => CouponLedger
    BY DEF CouponIInv, CouponInv
  <1> QED
    BY <1>1, InitCouponIInv, NextCouponIInv, PTL DEF Spec

-----------------------------------------------------------------------------
(* The invariant of serial handlers *)

Runs(t, op, o) == tx[t] = [op |-> op, order |-> o]

\* An event of the order waits or is being handled, or another transaction runs.
Coming(o, op) == <<o, op>> \in due \/ \E t \in Transactions : Runs(t, op, o)

\* Only slots and orders of the scope take part.
InScope ==
    /\ \A t \in Transactions : tx[t] # Idle => t \in scope.slots
    /\ \A o \in Orders : stage[o] # "new" => o \in scope.orders

\* How the request, the session and the records of an order go together.
RequestShape(o) ==
    /\ pay[o] = "none" <=> stage[o] = "new"
    /\ pay[o] = "failed" => stage[o] \in {"done", "failed"}
    /\ stage[o] = "session" => session[o] = "none" /\ o \notin BankOrders
    /\ session[o] # "none" => stage[o] # "new" /\ o \notin BankOrders
    /\ session[o] = "complete" => stage[o] = "done"
    /\ pi[o] \/ refund[o] # "none" => session[o] = "complete"
    /\ refund[o] # "none" => "refund" \in scope.env
    /\ granted[o] > 0 => stage[o] # "new"

\* What an event or a transaction of an order says about it.
Happened(o, op) ==
    /\ op = "completed" => session[o] = "complete"
    /\ op = "expired" => session[o] = "expired"
    /\ op = "failed" => stage[o] = "done"
    /\ op \in {"partial", "refunded"} => refund[o] # "none"
    /\ op = "refunded" => refund[o] = "full"
    /\ op \in {"confirm", "overdue"} => o \in BankOrders /\ stage[o] # "new"
    /\ op = "cancel" => stage[o] = "cancel"

EventsHappened(o) == \A op \in Ops : Coming(o, op) => Happened(o, op)

\* Without replays a completed event is handled to its end once.
CompletedOnce(o) ==
    scope.replays = 0 =>
      /\ pi[o] => ~Coming(o, "completed")
      /\ \A t \in Transactions : Runs(t, "completed", o) => <<o, "completed">> \notin due

\* The compensation of a request runs once at a time.
OneCancel(o) ==
    \A s, t \in Transactions :
       Runs(s, "cancel", o) /\ Runs(t, "cancel", o) => s = t

OrderShape(o) == RequestShape(o) /\ EventsHappened(o) /\ OneCancel(o)

\* What a transaction has read still holds.
ReadHolds(o, op) ==
    /\ op \in {"expired", "failed", "confirm", "overdue", "cancel"}
         => pay[o] = "pending"
    /\ op = "completed" => pay[o] # "paid"
    /\ op = "refunded" => pay[o] = "paid"

\* The payment status, what was granted and the session go together.
PaymentShape(o) ==
    /\ granted[o] > 0 <=> pay[o] \in {"paid", "refunded"}
    /\ pi[o] => pay[o] \in {"paid", "refunded"}
    /\ pay[o] = "paid" => pi[o] \/ o \in BankOrders
    /\ pay[o] = "refunded" => pi[o] /\ refund[o] = "full"
    /\ pay[o] = "expired" => session[o] = "expired" \/ o \in BankOrders
    /\ session[o] = "complete" =>
         Coming(o, "completed") \/ pay[o] \in {"paid", "refunded"}
    /\ session[o] = "expired" =>
         Coming(o, "expired") \/ pay[o] \in {"expired", "failed"}

UsageShape(o) ==
    /\ Holds(o) => usage[o] \in {"none", "reserved"}
    /\ PaidOnce(o) /\ pay[o] = "paid" => usage[o] \in {"none", "used"}

SerialShape(o) ==
    /\ \A t \in Transactions, op \in Ops : Runs(t, op, o) => ReadHolds(o, op)
    /\ CompletedOnce(o)
    /\ PaymentShape(o)
    /\ UsageShape(o)
    /\ PaidOnce(o) => granted[o] <= 1

SerialIInv ==
    /\ TypeOK
    /\ NewHasNoUsage
    /\ InScope
    /\ \A o \in Orders : OrderShape(o)
    /\ Serial => \A o \in Orders : SerialShape(o)
    /\ StockLedger

LEMMA IdleRuns ==
    ASSUME NEW t, NEW op \in Ops, NEW o, tx[t] = Idle
    PROVE  ~Runs(t, op, o)
BY DEF Runs, Idle, Ops, EventTypes

\* A transaction that begins runs from now on, next to those that did.
LEMMA BeginRuns ==
    ASSUME TypeOK, NEW t \in Transactions, NEW op \in Ops, NEW o \in Orders,
           Begin(t, op, o)
    PROVE  \A s \in Transactions, p \in Ops, x \in Orders :
             Runs(s, p, x)' <=> Runs(s, p, x) \/ (s = t /\ p = op /\ x = o)
  <1> SUFFICES ASSUME NEW s \in Transactions, NEW p \in Ops, NEW x \in Orders
               PROVE  Runs(s, p, x)' <=> Runs(s, p, x) \/ (s = t /\ p = op /\ x = o)
    OBVIOUS
  <1>1. CASE s = t
    <2>1. ~Runs(t, p, x) /\ tx'[t] = [op |-> op, order |-> o]
      BY IdleRuns DEF Begin, Free, TypeOK
    <2> QED
      BY <1>1, <2>1 DEF Runs
  <1>2. CASE s # t
    BY <1>2 DEF Begin, Runs, TypeOK
  <1> QED
    BY <1>1, <1>2

\* A transaction that ends runs no longer; the others go on.
LEMMA EndRuns ==
    ASSUME TypeOK, NEW t \in Transactions, End(t)
    PROVE  \A s \in Transactions, p \in Ops, x \in Orders :
             Runs(s, p, x)' <=> Runs(s, p, x) /\ s # t
  <1> SUFFICES ASSUME NEW s \in Transactions, NEW p \in Ops, NEW x \in Orders
               PROVE  Runs(s, p, x)' <=> Runs(s, p, x) /\ s # t
    OBVIOUS
  <1>1. CASE s = t
    <2>1. tx'[t] = Idle
      BY DEF End, TypeOK
    <2>2. ~Runs(t, p, x)'
      BY <2>1 DEF Runs, Idle, Ops, EventTypes
    <2> QED
      BY <1>1, <2>2
  <1>2. CASE s # t
    BY <1>2 DEF End, Runs, TypeOK
  <1> QED
    BY <1>1, <1>2

\* A running transaction is its operation on its order.
LEMMA RunsItself ==
    ASSUME TypeOK, NEW t \in Transactions, tx[t] # Idle
    PROVE  /\ Runs(t, tx[t].op, tx[t].order)
           /\ \A p, x : Runs(t, p, x) => p = tx[t].op /\ x = tx[t].order
BY DEF TypeOK, Running, Runs

\* Handlers that run one at a time: no two transactions are under way.
LEMMA OneRuns ==
    ASSUME InScope, Serial, NEW s \in Transactions, NEW t \in Transactions,
           tx[s] # Idle, tx[t] # Idle
    PROVE  s = t
BY DEF InScope, Serial

LEMMA RunsIsBusy ==
    ASSUME NEW t, NEW op \in Ops, NEW o, Runs(t, op, o)
    PROVE  tx[t] # Idle /\ tx[t].op = op /\ tx[t].order = o
BY IdleRuns DEF Runs

-----------------------------------------------------------------------------
(* A step and the orders it is not about *)

Unmoved(x) ==
    /\ pay'[x] = pay[x] /\ pi'[x] = pi[x] /\ granted'[x] = granted[x]
    /\ usage'[x] = usage[x] /\ stage'[x] = stage[x]
    /\ session'[x] = session[x] /\ refund'[x] = refund[x]

SameTx(x) ==
    /\ \A op \in EventTypes : <<x, op>> \in due' <=> <<x, op>> \in due
    /\ \A t \in Transactions, op \in Ops : Runs(t, op, x)' <=> Runs(t, op, x)

\* Events and transactions of an order come only from events and transactions.
LEMMA SameComing ==
    ASSUME TypeOK, TypeOK', NEW x \in Orders, SameTx(x)
    PROVE  \A op \in Ops : Coming(x, op)' <=> Coming(x, op)
  <1> SUFFICES ASSUME NEW op \in Ops PROVE Coming(x, op)' <=> Coming(x, op)
    OBVIOUS
  <1>1. <<x, op>> \in due' <=> <<x, op>> \in due
    <2>1. CASE op \in EventTypes
      BY <2>1 DEF SameTx
    <2>2. CASE op \notin EventTypes
      BY <2>2 DEF TypeOK
    <2> QED
      BY <2>1, <2>2
  <1>2. \A t \in Transactions : Runs(t, op, x)' <=> Runs(t, op, x)
    BY DEF SameTx
  <1> QED
    BY <1>1, <1>2 DEF Coming

LEMMA UnmovedOrder ==
    ASSUME TypeOK, TypeOK', NEW x \in Orders, Unmoved(x), SameTx(x),
           scope' = scope, OrderShape(x)
    PROVE  OrderShape(x)'
  <1>1. RequestShape(x)'
    BY DEF OrderShape, RequestShape, Unmoved
  <1>2. EventsHappened(x)'
    BY SameComing DEF OrderShape, EventsHappened, Happened, Unmoved
  <1>3. OneCancel(x)'
    BY DEF OrderShape, OneCancel, SameTx, Ops
  <1> QED
    BY <1>1, <1>2, <1>3 DEF OrderShape

LEMMA UnmovedSerial ==
    ASSUME TypeOK, TypeOK', NEW x \in Orders, Unmoved(x), SameTx(x),
           scope' = scope, SerialShape(x)
    PROVE  SerialShape(x)'
  <1>1. \A op \in Ops : Coming(x, op)' <=> Coming(x, op)
    BY SameComing
  <1>2. "completed" \in Ops /\ "expired" \in Ops /\ "completed" \in EventTypes
    BY DEF Ops, EventTypes
  <1>3. \A t \in Transactions, op \in Ops : Runs(t, op, x)' => ReadHolds(x, op)'
    BY DEF SerialShape, ReadHolds, Unmoved, SameTx
  <1>4. CompletedOnce(x)'
    BY <1>1, <1>2 DEF SerialShape, CompletedOnce, Unmoved, SameTx
  <1>5. PaymentShape(x)'
    BY <1>1, <1>2 DEF SerialShape, PaymentShape, Unmoved
  <1>6. UsageShape(x)'
    BY DEF SerialShape, UsageShape, Holds, PaidOnce, LateReplays, Unmoved
  <1>7. (PaidOnce(x) => granted[x] <= 1)'
    BY DEF SerialShape, PaidOnce, LateReplays, Unmoved
  <1> QED
    BY <1>3, <1>4, <1>5, <1>6, <1>7 DEF SerialShape

\* What the steps of a request or of Stripe leave alone.
LEMMA OthersKept ==
    ASSUME TypeOK, NEW o \in Orders, Request(o) \/ AtStripe(o)
    PROVE  scope' = scope /\ \A x \in Orders \ {o} : Unmoved(x) /\ SameTx(x)
  <1> SUFFICES ASSUME NEW x \in Orders \ {o}
               PROVE  scope' = scope /\ Unmoved(x) /\ SameTx(x)
    BY DEF Request, AtStripe, CreatePendingOrder, NotifyBankTransfer, CreateSession,
           RecordSession, Crash, CustomerPays, PaymentDeclined, SessionExpires,
           RefundAtStripe
  <1>1. CASE Request(o)
    <2>1. due' = due /\ tx' = tx /\ scope' = scope
      BY <1>1 DEF Request, CreatePendingOrder, NotifyBankTransfer, CreateSession,
                  RecordSession, Crash
    <2>2. Unmoved(x)
      <3>1. CASE CreatePendingOrder(o)
        BY <3>1 DEF CreatePendingOrder, ReserveCoupon, SetUsage, MoveTo, couponVars,
                    stripeVars, Unmoved, TypeOK
      <3>2. CASE ~CreatePendingOrder(o)
        BY <1>1, <3>2 DEF Request, NotifyBankTransfer, CreateSession, RecordSession,
           Crash, MoveTo, rowVars, couponVars, stripeVars, Unmoved, TypeOK
      <3> QED
        BY <3>1, <3>2
    <2> QED
      BY <2>1, <2>2 DEF SameTx, Runs
  <1>2. CASE AtStripe(o)
    <2>1. /\ tx' = tx /\ scope' = scope
          /\ \E op \in EventTypes : due' = due \cup {<<o, op>>}
      BY <1>2 DEF AtStripe, CustomerPays, PaymentDeclined, SessionExpires,
                  RefundAtStripe, Send, EventTypes
    <2>2. Unmoved(x)
      BY <1>2 DEF AtStripe, CustomerPays, PaymentDeclined, SessionExpires,
         RefundAtStripe, rowVars, couponVars, stripeVars, Unmoved, TypeOK
    <2> QED
      BY <2>1, <2>2 DEF SameTx, Runs
  <1> QED
    BY <1>1, <1>2

-----------------------------------------------------------------------------
(* Requests *)

\* Nothing is under way for an order before it is created.
LEMMA NewIsQuiet ==
    ASSUME NEW o \in Orders, OrderShape(o), stage[o] = "new"
    PROVE  \A op \in Ops : ~Coming(o, op)
BY DEF OrderShape, RequestShape, EventsHappened, Happened, Ops, EventTypes

LEMMA CreateKeeps ==
    ASSUME TypeOK, TypeOK', NewHasNoUsage, NEW o \in Orders, CreatePendingOrder(o),
           OrderShape(o)
    PROVE  OrderShape(o)' /\ (SerialShape(o) => SerialShape(o)')
  <1>1. /\ stage[o] = "new" /\ pay'[o] = "pending"
        /\ stage'[o] = IF o \in BankOrders THEN "notify" ELSE "session"
        /\ usage'[o] \in {"none", "reserved"}
        /\ pi' = pi /\ granted' = granted /\ session' = session
        /\ refund' = refund /\ scope' = scope /\ due' = due /\ tx' = tx
    BY DEF CreatePendingOrder, ReserveCoupon, SetUsage, MoveTo, couponVars, stripeVars,
           TypeOK, NewHasNoUsage
  <1>2. SameTx(o)
    BY <1>1 DEF SameTx, Runs
  <1>3. \A op \in Ops : ~Coming(o, op) /\ ~Coming(o, op)'
    BY <1>1, <1>2, NewIsQuiet, SameComing
  <1>4. RequestShape(o)'
    BY <1>1 DEF OrderShape, RequestShape
  <1>5. EventsHappened(o)'
    BY <1>3 DEF EventsHappened
  <1>6. ASSUME SerialShape(o) PROVE SerialShape(o)'
    <2>1. \A t \in Transactions, op \in Ops : ~Runs(t, op, o)'
      BY <1>3 DEF Coming
    <2>2. CompletedOnce(o)'
      BY <1>3, <2>1 DEF CompletedOnce, Ops, EventTypes
    <2>3. PaymentShape(o)'
      BY <1>1, <1>6 DEF SerialShape, PaymentShape, OrderShape, RequestShape, TypeOK
    <2>4. UsageShape(o)'
      BY <1>1 DEF UsageShape
    <2>5. (PaidOnce(o) => granted[o] <= 1)'
      BY <1>1, <1>6 DEF SerialShape, PaidOnce, LateReplays
    <2> QED
      BY <2>1, <2>2, <2>3, <2>4, <2>5 DEF SerialShape
  <1>7. OneCancel(o)'
    BY <1>2 DEF OrderShape, OneCancel, SameTx, Ops
  <1> QED
    BY <1>4, <1>5, <1>6, <1>7 DEF OrderShape

\* The other steps of a request move it on, and may open its session.
LEMMA RequestMoves ==
    ASSUME TypeOK, TypeOK', NEW o \in Orders, Request(o), ~CreatePendingOrder(o),
           OrderShape(o)
    PROVE  OrderShape(o)' /\ (SerialShape(o) => SerialShape(o)')
  <1>1. /\ rowVars' = rowVars /\ usage' = usage /\ refund' = refund
        /\ scope' = scope /\ due' = due /\ tx' = tx
        /\ stage[o] \in {"notify", "session", "record", "cancel"}
        /\ stage'[o] \in {"record", "done", "cancel", "failed"}
        /\ stage[o] = "cancel" =>
             \A t \in Transactions : ~Runs(t, "cancel", o)
        /\ \/ session'[o] = session[o]
           \/ session[o] = "none" /\ session'[o] = "open" /\ o \notin BankOrders
    BY DEF Request, NotifyBankTransfer, CreateSession, RecordSession, Crash, MoveTo,
           couponVars, stripeVars, Runs, TypeOK, OrderShape, RequestShape
  <1>2. SameTx(o)
    BY <1>1 DEF SameTx, Runs
  <1>3. \A op \in Ops : Coming(o, op)' <=> Coming(o, op)
    BY <1>2, SameComing
  <1>4. session[o] # "complete" /\ refund[o] = "none" /\ ~pi[o]
    BY <1>1 DEF OrderShape, RequestShape, TypeOK
  <1>5. session'[o] # "complete"
    BY <1>1, <1>4
  <1>6. \A op \in Ops : Coming(o, op) => op \in {"expired", "confirm", "overdue"}
    <2> SUFFICES ASSUME NEW op \in Ops, Coming(o, op)
                 PROVE  op \in {"expired", "confirm", "overdue"}
      OBVIOUS
    <2>1. Happened(o, op)
      BY DEF OrderShape, EventsHappened
    <2>2. op # "cancel"
      BY <2>1, <1>1 DEF Happened, Coming, TypeOK, EventTypes
    <2> QED
      BY <2>1, <2>2, <1>1, <1>4 DEF Happened, Ops, EventTypes
  <1>7. RequestShape(o)'
    BY <1>1, <1>4, <1>5 DEF OrderShape, RequestShape, rowVars
  <1>8. EventsHappened(o)'
    BY <1>1, <1>3, <1>6 DEF OrderShape, EventsHappened, Happened
  <1>9. ASSUME SerialShape(o) PROVE SerialShape(o)'
    <2>1. \A t \in Transactions, op \in Ops : Runs(t, op, o)' => ReadHolds(o, op)'
      BY <1>1, <1>2, <1>9 DEF SerialShape, ReadHolds, SameTx, rowVars
    <2>2. CompletedOnce(o)'
      BY <1>1, <1>3, <1>9, <1>2 DEF SerialShape, CompletedOnce, SameTx, rowVars, Ops,
         EventTypes
    <2>3. PaymentShape(o)'
      BY <1>1, <1>3, <1>4, <1>5, <1>9
         DEF SerialShape, PaymentShape, rowVars, Ops, EventTypes
    <2>4. UsageShape(o)'
      BY <1>1, <1>9 DEF SerialShape, UsageShape, Holds, PaidOnce, LateReplays, rowVars,
         OrderShape, RequestShape
    <2>5. (PaidOnce(o) => granted[o] <= 1)'
      BY <1>1, <1>9 DEF SerialShape, PaidOnce, LateReplays, rowVars
    <2> QED
      BY <2>1, <2>2, <2>3, <2>4, <2>5 DEF SerialShape
  <1>10. OneCancel(o)'
    BY <1>2 DEF OrderShape, OneCancel, SameTx, Ops
  <1> QED
    BY <1>7, <1>8, <1>9, <1>10 DEF OrderShape

-----------------------------------------------------------------------------
(* Stripe and the customer *)

\* An event that is sent is one more that comes.
LEMMA SendComing ==
    ASSUME TypeOK, TypeOK', NEW o \in Orders, NEW type \in EventTypes, Send(o, type),
           tx' = tx
    PROVE  /\ \A op \in Ops : Coming(o, op)' <=> Coming(o, op) \/ op = type
           /\ \A t \in Transactions, op \in Ops : Runs(t, op, o)' <=> Runs(t, op, o)
           /\ \A op \in EventTypes : <<o, op>> \in due' <=> <<o, op>> \in due \/ op = type
  <1>1. \A t \in Transactions, op \in Ops : Runs(t, op, o)' <=> Runs(t, op, o)
    BY DEF Runs
  <1>2. \A op : <<o, op>> \in due' <=> <<o, op>> \in due \/ op = type
    BY DEF Send
  <1> QED
    BY <1>1, <1>2 DEF Coming

LEMMA StripeKeeps ==
    ASSUME TypeOK, TypeOK', NEW o \in Orders, AtStripe(o), OrderShape(o)
    PROVE  OrderShape(o)' /\ (SerialShape(o) => SerialShape(o)')
  <1> DEFINE sent(type) ==
        \/ /\ type = "completed" /\ session[o] = "open" /\ stage[o] = "done"
           /\ session'[o] = "complete" /\ refund' = refund
        \/ /\ type = "failed" /\ session[o] = "open" /\ stage[o] = "done"
           /\ session' = session /\ refund' = refund
        \/ /\ type = "expired" /\ session[o] = "open"
           /\ session'[o] = "expired" /\ refund' = refund
        \/ /\ type \in {"partial", "refunded"} /\ session[o] = "complete"
           /\ session' = session /\ "refund" \in scope.env
           /\ refund'[o] \in {"partial", "full"}
           /\ refund[o] = "full" => refund'[o] = "full"
           /\ type = "refunded" => refund'[o] = "full"
  <1>1. PICK type \in EventTypes : sent(type) /\ Send(o, type)
    <2>1. CASE CustomerPays(o)
      BY <2>1 DEF CustomerPays, EventTypes, TypeOK
    <2>2. CASE PaymentDeclined(o)
      BY <2>2 DEF PaymentDeclined, EventTypes, stripeVars
    <2>3. CASE SessionExpires(o)
      BY <2>3 DEF SessionExpires, EventTypes, TypeOK
    <2>4. CASE RefundAtStripe(o)
      BY <2>4 DEF RefundAtStripe, EventTypes, TypeOK
    <2> QED
      BY <2>1, <2>2, <2>3, <2>4 DEF AtStripe
  <1>2. /\ rowVars' = rowVars /\ usage' = usage /\ stage' = stage
        /\ scope' = scope /\ tx' = tx
    BY DEF AtStripe, CustomerPays, PaymentDeclined, SessionExpires, RefundAtStripe,
           couponVars
  <1>3. \A op \in Ops : Coming(o, op)' <=> Coming(o, op) \/ op = type
    BY <1>1, <1>2, SendComing
  <1>4. \A t \in Transactions, op \in Ops : Runs(t, op, o)' <=> Runs(t, op, o)
    BY <1>1, <1>2, SendComing
  <1>5. \A op \in EventTypes : <<o, op>> \in due' <=> <<o, op>> \in due \/ op = type
    BY <1>1, <1>2, SendComing
  <1>6. RequestShape(o)'
    BY <1>1, <1>2 DEF OrderShape, RequestShape, rowVars
  <1>7. EventsHappened(o)'
    <2> SUFFICES ASSUME NEW op \in Ops, Coming(o, op)' PROVE Happened(o, op)'
      BY DEF EventsHappened
    <2>1. CASE op = type
      BY <1>1, <1>2, <2>1 DEF Happened
    <2>2. CASE op # type
      <3>1. Happened(o, op)
        BY <1>3, <2>2 DEF OrderShape, EventsHappened
      <3> QED
        BY <1>1, <1>2, <3>1 DEF Happened
    <2> QED
      BY <2>1, <2>2
  <1>8. ASSUME SerialShape(o) PROVE SerialShape(o)'
    <2>1. \A t \in Transactions, op \in Ops : Runs(t, op, o)' => ReadHolds(o, op)'
      BY <1>2, <1>4, <1>8 DEF SerialShape, ReadHolds, rowVars
    <2>2. CompletedOnce(o)'
      <3>1. CASE type = "completed"
        <4>1. ~Coming(o, "completed") /\ ~pi[o]
          BY <1>1, <3>1 DEF OrderShape, EventsHappened, Happened, RequestShape, Ops,
             EventTypes
        <4>2. \A t \in Transactions : ~Runs(t, "completed", o)'
          BY <4>1, <1>4 DEF Coming, Ops, EventTypes
        <4> QED
          BY <4>1, <4>2, <1>2 DEF CompletedOnce, rowVars
      <3>2. CASE type # "completed"
        <4>1. "completed" \in Ops /\ "completed" \in EventTypes
          BY DEF Ops, EventTypes
        <4> QED
          BY <4>1, <3>2, <1>2, <1>3, <1>4, <1>5, <1>8
             DEF SerialShape, CompletedOnce, rowVars
      <3> QED
        BY <3>1, <3>2
    <2>3. PaymentShape(o)'
      <3>1. "completed" \in Ops /\ "expired" \in Ops
        BY DEF Ops, EventTypes
      <3> QED
        BY <3>1, <1>1, <1>2, <1>3, <1>8
           DEF SerialShape, PaymentShape, rowVars, OrderShape, RequestShape
    <2>4. UsageShape(o)'
      BY <1>2, <1>8 DEF SerialShape, UsageShape, Holds, PaidOnce, LateReplays, rowVars
    <2>5. (PaidOnce(o) => granted[o] <= 1)'
      BY <1>2, <1>8 DEF SerialShape, PaidOnce, LateReplays, rowVars
    <2> QED
      BY <2>1, <2>2, <2>3, <2>4, <2>5 DEF SerialShape
  <1>9. OneCancel(o)'
    BY <1>4 DEF OrderShape, OneCancel, Ops
  <1> QED
    BY <1>6, <1>7, <1>8, <1>9 DEF OrderShape

-----------------------------------------------------------------------------
(* Transactions begin *)

\* What the beginning of a transaction, or an event that is ignored, does.
Begins(t, o) ==
    /\ rowVars' = rowVars /\ couponVars' = couponVars /\ stripeVars' = stripeVars
    /\ stockVars' = stockVars /\ scope' = scope
    /\ \/ /\ tx[t] = Idle /\ t \in scope.slots
          /\ \E op \in Ops \ {"partial"} :
               /\ Begin(t, op, o)
               /\ due' = due \ {<<o, op>>} /\ stage' = stage
               /\ op \in EventTypes => Applies(op, o) /\ <<o, op>> \in due
               /\ op \in {"confirm", "overdue", "cancel"} => pay[o] = "pending"
               /\ op \in {"confirm", "overdue"} => o \in BankOrders
               /\ op = "cancel" =>
                    /\ stage[o] = "cancel"
                    /\ \A s \in Transactions : ~Runs(s, "cancel", o)
       \/ \E type \in EventTypes :
            /\ due' = due \ {<<o, type>>} /\ ~Applies(type, o) /\ <<o, type>> \in due
            /\ tx' = tx /\ stage' = stage
       \/ /\ stage[o] = "cancel" /\ MoveTo(o, "failed") /\ due' = due /\ tx' = tx
          /\ pay[o] # "pending" /\ \A t1 \in Transactions : ~Runs(t1, "cancel", o)

LEMMA StartBegins ==
    ASSUME TypeOK, NEW t \in Transactions, NEW o \in Orders, Start(t, o)
    PROVE  Begins(t, o)
  <1>1. ASSUME NEW type \in EventTypes, Webhook(t, o, type) PROVE Begins(t, o)
    <2>1. CASE Applies(type, o) /\ Begin(t, type, o)
      <3>1. type \in Ops \ {"partial"} /\ type \notin {"confirm", "overdue", "cancel"}
        BY <2>1 DEF Applies, Ops, EventTypes
      <3> QED
        BY <1>1, <2>1, <3>1 DEF Webhook, Begins, Free
    <2>2. CASE ~Applies(type, o) /\ UNCHANGED tx
      BY <1>1, <2>2 DEF Webhook, Begins
    <2> QED
      BY <1>1, <2>1, <2>2 DEF Webhook
  <1>2. ASSUME NEW op \in {"confirm", "overdue", "cancel"}
        PROVE  <<o, op>> \notin due /\ op \in Ops \ {"partial"} /\ op \notin EventTypes
    BY DEF TypeOK, Ops, EventTypes
  <1>3. CASE ConfirmBankTransfer(t, o)
    <2>1. due' = due \ {<<o, "confirm">>}
      BY <1>2, <1>3 DEF ConfirmBankTransfer
    <2> QED
      BY <1>2, <1>3, <2>1 DEF ConfirmBankTransfer, Begins, Begin, Free
  <1>4. CASE ExpireOverdue(t, o)
    <2>1. due' = due \ {<<o, "overdue">>}
      BY <1>2, <1>4 DEF ExpireOverdue
    <2> QED
      BY <1>2, <1>4, <2>1 DEF ExpireOverdue, Begins, Begin, Free
  <1>5. CASE CancelReservation(t, o)
    <2>1. CASE pay[o] = "pending" /\ Begin(t, "cancel", o) /\ UNCHANGED stage
      <3>1. due' = due \ {<<o, "cancel">>}
        BY <1>2, <1>5 DEF CancelReservation
      <3> QED
        BY <1>2, <1>5, <2>1, <3>1 DEF CancelReservation, Begins, Begin, Free, Runs
    <2>2. CASE pay[o] # "pending" /\ MoveTo(o, "failed") /\ UNCHANGED tx
      BY <1>5, <2>2 DEF CancelReservation, Begins, Runs
    <2> QED
      BY <1>5, <2>1, <2>2 DEF CancelReservation
  <1> QED
    BY <1>1, <1>3, <1>4, <1>5 DEF Start

LEMMA OthersWait ==
    ASSUME TypeOK, NEW t \in Transactions, NEW o \in Orders, Begins(t, o)
    PROVE  \A x \in Orders \ {o} : Unmoved(x) /\ SameTx(x)
  <1> SUFFICES ASSUME NEW x \in Orders \ {o} PROVE Unmoved(x) /\ SameTx(x)
    OBVIOUS
  <1>1. Unmoved(x)
    BY DEF Begins, Unmoved, MoveTo, rowVars, couponVars, stripeVars, TypeOK
  <1>2. \A op \in EventTypes : <<x, op>> \in due' <=> <<x, op>> \in due
    BY DEF Begins
  <1>3. \A s \in Transactions, op \in Ops : Runs(s, op, x)' <=> Runs(s, op, x)
    <2>1. CASE tx' = tx
      BY <2>1 DEF Runs
    <2>2. CASE \E op \in Ops : Begin(t, op, o)
      BY <2>2, BeginRuns
    <2> QED
      BY <2>1, <2>2 DEF Begins
  <1> QED
    BY <1>1, <1>2, <1>3 DEF SameTx

LEMMA BeginKeeps ==
    ASSUME TypeOK, TypeOK', InScope, NEW t \in Transactions, NEW o \in Orders,
           Begins(t, o), OrderShape(o)
    PROVE  OrderShape(o)' /\ (Serial /\ SerialShape(o) => SerialShape(o)')
  <1>1. /\ rowVars' = rowVars /\ usage' = usage /\ session' = session
        /\ refund' = refund /\ scope' = scope
    BY DEF Begins, couponVars, stripeVars
  <1>2. CASE \E op \in Ops \ {"partial"} :
               /\ tx[t] = Idle /\ t \in scope.slots
               /\ Begin(t, op, o)
               /\ due' = due \ {<<o, op>>} /\ stage' = stage
               /\ op \in EventTypes => Applies(op, o) /\ <<o, op>> \in due
               /\ op \in {"confirm", "overdue", "cancel"} => pay[o] = "pending"
               /\ op \in {"confirm", "overdue"} => o \in BankOrders
               /\ op = "cancel" =>
                    /\ stage[o] = "cancel"
                    /\ \A s \in Transactions : ~Runs(s, "cancel", o)
    <2> PICK op \in Ops \ {"partial"} :
               /\ tx[t] = Idle /\ t \in scope.slots
               /\ Begin(t, op, o)
               /\ due' = due \ {<<o, op>>} /\ stage' = stage
               /\ op \in EventTypes => Applies(op, o) /\ <<o, op>> \in due
               /\ op \in {"confirm", "overdue", "cancel"} => pay[o] = "pending"
               /\ op \in {"confirm", "overdue"} => o \in BankOrders
               /\ op = "cancel" =>
                    /\ stage[o] = "cancel"
                    /\ \A s \in Transactions : ~Runs(s, "cancel", o)
      BY <1>2
    <2>1. \A s \in Transactions, p \in Ops :
            Runs(s, p, o)' <=> Runs(s, p, o) \/ (s = t /\ p = op)
      BY BeginRuns
    <2>2. \A p \in Ops : Coming(o, p)' <=> Coming(o, p) \/ p = op
      <3>1. \A p \in Ops : p # op => (<<o, p>> \in due' <=> <<o, p>> \in due)
        OBVIOUS
      <3>2. <<o, op>> \notin due'
        OBVIOUS
      <3> QED
        BY <3>1, <3>2, <2>1 DEF Coming
    <2>3. op \in EventTypes => Coming(o, op)
      BY DEF Coming
    <2>4. RequestShape(o)'
      BY <1>1 DEF OrderShape, RequestShape, rowVars
    <2>5. EventsHappened(o)'
      <3> SUFFICES ASSUME NEW p \in Ops, Coming(o, p)' PROVE Happened(o, p)'
        BY DEF EventsHappened
      <3>1. CASE Coming(o, p)
        BY <3>1, <1>1 DEF OrderShape, EventsHappened, Happened
      <3>2. CASE p = op /\ op \notin EventTypes
        <4>1. pay[o] = "pending" /\ op \in {"confirm", "overdue", "cancel"}
          BY <3>2 DEF Ops
        <4>2. stage[o] # "new"
          BY <4>1 DEF OrderShape, RequestShape
        <4> QED
          BY <3>2, <4>1, <4>2, <1>1 DEF Happened
      <3> QED
        BY <3>1, <3>2, <2>2, <2>3
    <2>6. ASSUME Serial, SerialShape(o) PROVE SerialShape(o)'
      <3>1. ASSUME NEW s \in Transactions, NEW p \in Ops, Runs(s, p, o) PROVE FALSE
        <4>1. tx[s] # Idle /\ s \in scope.slots
          BY <3>1, RunsIsBusy DEF InScope
        <4>2. s = t
          BY <2>6, <4>1 DEF Serial
        <4> QED
          BY <4>1, <4>2
      <3>2. \A s \in Transactions, p \in Ops : Runs(s, p, o)' => ReadHolds(o, p)'
        <4>1. ReadHolds(o, op)
          BY <2>6 DEF SerialShape, PaymentShape, ReadHolds, Applies, Expirable, Failable,
             Completable, Refundable, EventTypes
        <4> QED
          BY <1>1, <2>1, <3>1, <4>1 DEF ReadHolds, rowVars
      <3>3. CompletedOnce(o)'
        <4>1. "completed" \in Ops /\ "completed" \in EventTypes
          BY DEF Ops, EventTypes
        <4>2. scope.replays = 0 /\ pi[o] => ~Coming(o, "completed")'
          BY <4>1, <2>2, <2>3, <2>6 DEF SerialShape, CompletedOnce
        <4>3. ASSUME NEW s \in Transactions, Runs(s, "completed", o)'
              PROVE  <<o, "completed">> \notin due'
          BY <4>3, <4>1, <2>1, <3>1
        <4> QED
          BY <4>2, <4>3, <1>1 DEF CompletedOnce, rowVars
      <3>4. PaymentShape(o)'
        BY <1>1, <2>2, <2>6 DEF SerialShape, PaymentShape, rowVars, Ops, EventTypes
      <3>5. UsageShape(o)'
        BY <1>1, <2>6 DEF SerialShape, UsageShape, Holds, PaidOnce, LateReplays, rowVars
      <3>6. (PaidOnce(o) => granted[o] <= 1)'
        BY <1>1, <2>6 DEF SerialShape, PaidOnce, LateReplays, rowVars
      <3> QED
        BY <3>2, <3>3, <3>4, <3>5, <3>6 DEF SerialShape
    <2>7. OneCancel(o)'
      BY <2>1 DEF OrderShape, OneCancel, Ops
    <2> QED
      BY <2>4, <2>5, <2>6, <2>7 DEF OrderShape
  <1>3. CASE \E type \in EventTypes :
               /\ due' = due \ {<<o, type>>} /\ ~Applies(type, o) /\ <<o, type>> \in due
               /\ tx' = tx /\ stage' = stage
    <2> PICK type \in EventTypes :
               /\ due' = due \ {<<o, type>>} /\ ~Applies(type, o) /\ <<o, type>> \in due
               /\ tx' = tx /\ stage' = stage
      BY <1>3
    <2>1. \A s \in Transactions, p \in Ops : Runs(s, p, o)' <=> Runs(s, p, o)
      BY DEF Runs
    <2>2. \A p \in Ops : /\ Coming(o, p)' => Coming(o, p)
                         /\ p # type => (Coming(o, p)' <=> Coming(o, p))
      BY <2>1 DEF Coming
    <2>3. RequestShape(o)'
      BY <1>1 DEF OrderShape, RequestShape, rowVars
    <2>4. EventsHappened(o)'
      BY <1>1, <2>2 DEF OrderShape, EventsHappened, Happened
    <2>5. ASSUME SerialShape(o) PROVE SerialShape(o)'
      <3>1. \A s \in Transactions, p \in Ops : Runs(s, p, o)' => ReadHolds(o, p)'
        BY <1>1, <2>1, <2>5 DEF SerialShape, ReadHolds, rowVars
      <3>2. CompletedOnce(o)'
        BY <1>1, <2>1, <2>2, <2>5 DEF SerialShape, CompletedOnce, rowVars, Ops, EventTypes
      <3>3. Happened(o, type)
        BY DEF OrderShape, EventsHappened, Coming, Ops
      <3>4. PaymentShape(o)'
        <4>1. type = "completed" => pay[o] = "paid"
          BY DEF Applies, Completable
        <4>2. type = "expired" /\ session[o] = "expired" => pay[o] \in {"expired", "failed"}
          BY <2>5, <3>3 DEF Applies, Expirable, OrderShape, RequestShape, SerialShape,
             PaymentShape, Happened, TypeOK, Payments
        <4> QED
          BY <4>1, <4>2, <1>1, <2>2, <2>5
             DEF SerialShape, PaymentShape, rowVars, Ops, EventTypes
      <3>5. UsageShape(o)'
        BY <1>1, <2>5 DEF SerialShape, UsageShape, Holds, PaidOnce, LateReplays, rowVars
      <3>6. (PaidOnce(o) => granted[o] <= 1)'
        BY <1>1, <2>5 DEF SerialShape, PaidOnce, LateReplays, rowVars
      <3> QED
        BY <3>1, <3>2, <3>4, <3>5, <3>6 DEF SerialShape
    <2>6. OneCancel(o)'
      BY <2>1 DEF OrderShape, OneCancel, Ops
    <2> QED
      BY <2>3, <2>4, <2>5, <2>6 DEF OrderShape
  <1>4. CASE /\ stage[o] = "cancel" /\ MoveTo(o, "failed") /\ due' = due /\ tx' = tx
             /\ pay[o] # "pending" /\ \A t1 \in Transactions : ~Runs(t1, "cancel", o)
    <2>1. stage'[o] = "failed"
      BY <1>4 DEF MoveTo, TypeOK
    <2>2. SameTx(o)
      BY <1>4 DEF SameTx, Runs
    <2>3. \A p \in Ops : Coming(o, p)' <=> Coming(o, p)
      BY <2>2, SameComing
    <2>4. ~Coming(o, "cancel") /\ ~Coming(o, "failed")
      BY <1>4 DEF OrderShape, EventsHappened, Happened, Coming, TypeOK, EventTypes, Ops
    <2>5. RequestShape(o)'
      BY <1>1, <1>4, <2>1 DEF OrderShape, RequestShape, rowVars
    <2>6. EventsHappened(o)'
      BY <1>1, <1>4, <2>1, <2>3, <2>4 DEF OrderShape, EventsHappened, Happened
    <2>7. ASSUME SerialShape(o) PROVE SerialShape(o)'
      <3>1. \A s \in Transactions, p \in Ops : Runs(s, p, o)' => ReadHolds(o, p)'
        BY <1>1, <2>2, <2>7 DEF SerialShape, ReadHolds, rowVars, SameTx
      <3>2. CompletedOnce(o)'
        BY <1>1, <1>4, <2>2, <2>3, <2>7
           DEF SerialShape, CompletedOnce, rowVars, Ops, EventTypes, SameTx
      <3>3. PaymentShape(o)'
        BY <1>1, <2>3, <2>7 DEF SerialShape, PaymentShape, rowVars, Ops, EventTypes
      <3>4. UsageShape(o)'
        BY <1>1, <1>4, <2>1, <2>7
           DEF SerialShape, UsageShape, Holds, PaidOnce, LateReplays, rowVars
      <3>5. (PaidOnce(o) => granted[o] <= 1)'
        BY <1>1, <2>7 DEF SerialShape, PaidOnce, LateReplays, rowVars
      <3> QED
        BY <3>1, <3>2, <3>3, <3>4, <3>5 DEF SerialShape
    <2>8. OneCancel(o)'
      BY <2>2 DEF OrderShape, OneCancel, SameTx, Ops
    <2> QED
      BY <2>5, <2>6, <2>7, <2>8 DEF OrderShape
  <1> QED
    BY <1>2, <1>3, <1>4 DEF Begins

-----------------------------------------------------------------------------
(* Transactions end *)

\* A transaction leaves the slot; its event may be put back.
Ends(t) ==
    /\ End(t)
    /\ \/ due' = due
       \/ tx[t].op \in EventTypes /\ Redeliver(t)

LEMMA FinishEnds ==
    ASSUME TypeOK, NEW t \in Transactions, Finish(t)
    PROVE  /\ Ends(t) /\ tx[t] # Idle /\ tx[t].order \in Orders /\ tx[t].op \in Ops
           /\ stripeVars' = stripeVars /\ scope' = scope
  <1>1. tx[t] \in Running /\ tx[t].order \in Orders /\ tx[t].op \in Ops
    BY CommitRuns DEF Finish, Commits
  <1>2. tx[t] # Idle
    BY <1>1 DEF Running, Idle, Ops, EventTypes
  <1>3. Commits(t) => Commit(t)
    BY DEF Commits, CommitPaid, CommitExpired, CommitFailed, CommitRefunded,
           CommitCancelled
  <1>4. Ends(t)
    BY <1>3 DEF Finish, Commits, Commit, Abort, Ends
  <1>5. stripeVars' = stripeVars /\ scope' = scope
    BY DEF Finish, CommitPaid, CommitExpired, CommitFailed, CommitRefunded,
           CommitCancelled, Abort
  <1> QED
    BY <1>1, <1>2, <1>4, <1>5

LEMMA EndsComing ==
    ASSUME TypeOK, NEW t \in Transactions, tx[t] # Idle, Ends(t),
           NEW o \in Orders, o = tx[t].order
    PROVE  /\ \A s \in Transactions, p \in Ops, x \in Orders :
                Runs(s, p, x)' <=> Runs(s, p, x) /\ s # t
           /\ \A p \in Ops : Coming(o, p)' => Coming(o, p)
           /\ \A p \in Ops \ {tx[t].op} :
                Coming(o, p)' <=> Coming(o, p)
           /\ \A x \in Orders \ {o} : SameTx(x)
  <1>1. \A s \in Transactions, p \in Ops, x \in Orders :
          Runs(s, p, x)' <=> Runs(s, p, x) /\ s # t
    BY EndRuns DEF Ends
  <1>2. /\ Runs(t, tx[t].op, o) /\ o \in Orders /\ tx[t].op \in Ops
        /\ \A p, x : Runs(t, p, x) => p = tx[t].op /\ x = o
    BY RunsItself, RunningTx
  <1>3. due' = due \/ due' = due \cup {<<o, tx[t].op>>}
    BY DEF Ends, Redeliver
  <1>4. ASSUME NEW p \in Ops, Coming(o, p)' PROVE Coming(o, p)
    <2>1. CASE <<o, p>> \in due'
      BY <2>1, <1>2, <1>3 DEF Coming
    <2>2. CASE \E s \in Transactions : Runs(s, p, o)'
      BY <2>2, <1>1, <1>2 DEF Coming
    <2> QED
      BY <1>4, <2>1, <2>2 DEF Coming
  <1>5. ASSUME NEW p \in Ops \ {tx[t].op}, Coming(o, p) PROVE Coming(o, p)'
    <2>1. CASE <<o, p>> \in due
      BY <2>1, <1>3 DEF Coming
    <2>2. ASSUME NEW s \in Transactions, Runs(s, p, o) PROVE Coming(o, p)'
      <3>1. s # t
        BY <2>2, <1>2
      <3> QED
        BY <2>2, <3>1, <1>1, <1>2 DEF Coming
    <2> QED
      BY <1>5, <2>1, <2>2 DEF Coming
  <1>6. ASSUME NEW x \in Orders \ {o} PROVE SameTx(x)
    <2>1. \A p \in EventTypes : <<x, p>> \in due' <=> <<x, p>> \in due
      BY <1>3
    <2>2. \A s \in Transactions, p \in Ops : Runs(s, p, x)' <=> Runs(s, p, x)
      BY <1>1, <1>2
    <2> QED
      BY <2>1, <2>2 DEF SameTx
  <1> QED
    BY <1>1, <1>4, <1>5, <1>6

LEMMA OthersStand ==
    ASSUME TypeOK, NEW t \in Transactions, Finish(t)
    PROVE  \A x \in Orders \ {tx[t].order} : Unmoved(x) /\ SameTx(x)
  <1> SUFFICES ASSUME NEW x \in Orders \ {tx[t].order}
               PROVE  Unmoved(x) /\ SameTx(x)
    OBVIOUS
  <1>1. tx[t].order \in Orders /\ SameTx(x) /\ stripeVars' = stripeVars
    BY FinishEnds, EndsComing
  <1>2. pay'[x] = pay[x] /\ pi'[x] = pi[x] /\ granted'[x] = granted[x]
          /\ stage'[x] = stage[x]
    BY DEF Finish, CommitPaid, CommitExpired, CommitFailed, CommitRefunded,
           CommitCancelled, Abort, SetPay, MoveTo, rowVars, TypeOK
  <1>3. usage'[x] = usage[x]
    BY DEF Finish, CommitPaid, CommitExpired, CommitFailed, CommitRefunded,
           CommitCancelled, Abort, ConfirmCoupon, CancelCoupon, RestoreCoupon, SetUsage,
           couponVars, TypeOK
  <1> QED
    BY <1>1, <1>2, <1>3 DEF Unmoved, stripeVars

\* What each transaction writes to its order.
Written(t, o) ==
    \/ /\ tx[t].op \in {"completed", "confirm"} /\ ~CommissionExists(o)
       /\ pay'[o] = "paid" /\ pi'[o] = (pi[o] \/ tx[t].op = "completed")
       /\ granted'[o] = granted[o] + 1 /\ stage'[o] = stage[o] /\ ConfirmCoupon(o)
       /\ Commit(t)
    \/ /\ tx[t].op \in {"expired", "overdue"}
       /\ pay'[o] = "expired" /\ pi' = pi /\ granted' = granted /\ stage' = stage
    \/ /\ tx[t].op = "failed"
       /\ pay'[o] = "failed" /\ pi' = pi /\ granted' = granted /\ stage' = stage
       /\ usage' = usage
    \/ /\ tx[t].op = "refunded"
       /\ pay'[o] = "refunded" /\ pi' = pi /\ granted' = granted /\ stage' = stage
    \/ /\ tx[t].op = "cancel"
       /\ pay'[o] = "failed" /\ pi' = pi /\ granted' = granted /\ stage'[o] = "failed"
    \/ /\ pay' = pay /\ pi' = pi /\ granted' = granted /\ usage' = usage
       /\ stage'[o] = IF tx[t].op = "cancel" THEN "failed" ELSE stage[o]
       /\ tx[t].op \in EventTypes => <<o, tx[t].op>> \in due'

LEMMA FinishWrites ==
    ASSUME TypeOK, NEW t \in Transactions, Finish(t)
    PROVE  Written(t, tx[t].order)
  <1> DEFINE o == tx[t].order
  <1>1. o \in Orders /\ tx[t].op \in Ops
    BY FinishEnds
  <1>2. CASE CommitPaid(t)
    BY <1>1, <1>2 DEF CommitPaid, SetPay, Written, TypeOK
  <1>3. CASE CommitExpired(t)
    BY <1>1, <1>3 DEF CommitExpired, SetPay, Written, TypeOK
  <1>4. CASE CommitFailed(t)
    BY <1>1, <1>4 DEF CommitFailed, SetPay, Written, couponVars, TypeOK
  <1>5. CASE CommitRefunded(t)
    BY <1>1, <1>5 DEF CommitRefunded, SetPay, Written, TypeOK
  <1>6. CASE CommitCancelled(t)
    BY <1>1, <1>6 DEF CommitCancelled, SetPay, MoveTo, Written, TypeOK
  <1>7. CASE Abort(t)
    BY <1>1, <1>7 DEF Abort, Redeliver, MoveTo, Written, rowVars, couponVars, TypeOK
  <1> QED
    BY <1>2, <1>3, <1>4, <1>5, <1>6, <1>7 DEF Finish

\* Where handlers run one at a time and no event is replayed after a refund, a
\* payment is written only to an order that still holds what it reserved.
LEMMA PaidFromHeld ==
    ASSUME TypeOK, NEW t \in Transactions, NEW o \in Orders, Runs(t, tx[t].op, o),
           tx[t].op \in {"completed", "confirm"}, ~CommissionExists(o), PaidOnce(o),
           OrderShape(o), SerialShape(o)
    PROVE  Holds(o) /\ granted[o] = 0
  <1> DEFINE op == tx[t].op
  <1>1. op \in Ops /\ Coming(o, op)
    BY DEF Ops, EventTypes, Coming
  <1>2. Happened(o, op) /\ ReadHolds(o, op)
    BY <1>1 DEF OrderShape, EventsHappened, SerialShape
  <1>3. pay[o] # "refunded"
    <2>1. CASE o \in ReferredOrders
      BY <2>1 DEF CommissionExists, SerialShape, PaymentShape, TypeOK
    <2>2. CASE ~LateReplays
      <3>1. CASE op = "completed"
        <4> SUFFICES ASSUME pay[o] = "refunded" PROVE FALSE
          OBVIOUS
        <4>1. pi[o] /\ "refund" \in scope.env
          BY DEF SerialShape, PaymentShape, OrderShape, RequestShape
        <4>2. scope.replays = 0
          BY <2>2, <4>1, ScopeAssumption DEF LateReplays, TypeOK
        <4> QED
          BY <1>1, <3>1, <4>1, <4>2 DEF SerialShape, CompletedOnce
      <3>2. CASE op = "confirm"
        BY <1>2, <3>2 DEF ReadHolds
      <3> QED
        BY <3>1, <3>2
    <2> QED
      BY <2>1, <2>2 DEF PaidOnce
  <1>4. Holds(o)
    <2>1. CASE op = "completed"
      BY <1>2, <1>3, <2>1 DEF Happened, ReadHolds, Holds, OrderShape, RequestShape,
         SerialShape, PaymentShape, TypeOK, Payments
    <2>2. CASE op = "confirm"
      BY <1>2, <2>2 DEF ReadHolds, Holds
    <2> QED
      BY <2>1, <2>2
  <1>5. granted[o] = 0
    BY <1>3, <1>4 DEF Holds, SerialShape, PaymentShape, TypeOK
  <1> QED
    BY <1>4, <1>5

LEMMA FinishKeepsShape ==
    ASSUME TypeOK, TypeOK', NEW t \in Transactions, NEW o \in Orders,
           o = tx[t].order, Finish(t), OrderShape(o)
    PROVE  OrderShape(o)'
  <1> DEFINE op == tx[t].op
  <1>1. /\ tx[t] # Idle /\ op \in Ops /\ Ends(t)
        /\ session' = session /\ refund' = refund /\ scope' = scope
    BY FinishEnds DEF stripeVars
  <1>2. Runs(t, op, o) /\ Coming(o, op)
    BY <1>1, RunsItself DEF Coming
  <1>3. Happened(o, op)
    BY <1>1, <1>2 DEF OrderShape, EventsHappened
  <1>4. Written(t, o)
    BY FinishWrites
  <1>5. \A p \in Ops : Coming(o, p)' => Coming(o, p)
    BY <1>1, EndsComing
  <1>6. \A s \in Transactions, p \in Ops : Runs(s, p, o)' <=> Runs(s, p, o) /\ s # t
    BY <1>1, EndsComing
  <1>7. granted'[o] > 0 => granted[o] > 0 \/ op \in {"completed", "confirm"}
    BY <1>4 DEF Written
  <1>8. stage'[o] = stage[o] \/ (op = "cancel" /\ stage'[o] = "failed")
    BY <1>4 DEF Written
  <1>9. op \in {"completed", "confirm", "expired", "overdue", "failed", "refunded", "cancel"}
          => stage[o] # "new"
    BY <1>3 DEF Happened, OrderShape, RequestShape
  <1>10. RequestShape(o)'
    <2>1. (pay[o] = "none" <=> stage[o] = "new")'
      BY <1>4, <1>9, <1>8 DEF Written, OrderShape, RequestShape
    <2>2. (pay[o] = "failed" => stage[o] \in {"done", "failed"})'
      BY <1>3, <1>4 DEF Written, OrderShape, RequestShape, Happened
    <2>3. (stage[o] = "session" => session[o] = "none" /\ o \notin BankOrders)'
      BY <1>1, <1>8 DEF OrderShape, RequestShape
    <2>4. (session[o] # "none" => stage[o] # "new" /\ o \notin BankOrders)'
      BY <1>1, <1>8 DEF OrderShape, RequestShape
    <2>5. (session[o] = "complete" => stage[o] = "done")'
      BY <1>1, <1>3, <1>8 DEF OrderShape, RequestShape, Happened
    <2>6. (pi[o] \/ refund[o] # "none" => session[o] = "complete")'
      BY <1>1, <1>3, <1>4 DEF Written, OrderShape, RequestShape, Happened
    <2>7. (refund[o] # "none" => "refund" \in scope.env)'
      BY <1>1 DEF OrderShape, RequestShape
    <2>8. (granted[o] > 0 => stage[o] # "new")'
      BY <1>7, <1>8, <1>9 DEF OrderShape, RequestShape
    <2> QED
      BY <2>1, <2>2, <2>3, <2>4, <2>5, <2>6, <2>7, <2>8 DEF RequestShape
  <1>11. EventsHappened(o)'
    <2> SUFFICES ASSUME NEW p \in Ops, Coming(o, p)' PROVE Happened(o, p)'
      BY DEF EventsHappened
    <2>1. Happened(o, p)
      BY <1>5 DEF OrderShape, EventsHappened
    <2>2. CASE stage'[o] = stage[o]
      BY <1>1, <2>1, <2>2 DEF Happened
    <2>3. CASE op = "cancel" /\ stage'[o] = "failed"
      <3>1. stage[o] = "cancel"
        BY <1>3, <2>3 DEF Happened
      <3>2. p # "cancel"
        <4> SUFFICES ASSUME p = "cancel" PROVE FALSE
          OBVIOUS
        <4>1. <<o, p>> \notin due'
          BY DEF TypeOK, EventTypes
        <4>2. PICK s \in Transactions : Runs(s, "cancel", o)'
          BY <4>1 DEF Coming
        <4>3. Runs(s, "cancel", o) /\ s # t
          BY <4>2, <1>6 DEF Ops
        <4> QED
          BY <4>3, <1>2, <2>3 DEF OrderShape, OneCancel
      <3> QED
        BY <1>1, <2>1, <2>3, <3>1, <3>2 DEF Happened
    <2> QED
      BY <1>8, <2>2, <2>3
  <1>12. OneCancel(o)'
    BY <1>6 DEF OrderShape, OneCancel, Ops
  <1> QED
    BY <1>10, <1>11, <1>12 DEF OrderShape

LEMMA FinishKeepsSerial ==
    ASSUME TypeOK, TypeOK', InScope, Serial, NEW t \in Transactions, NEW o \in Orders,
           o = tx[t].order, Finish(t), OrderShape(o), OrderShape(o)', SerialShape(o)
    PROVE  SerialShape(o)'
  <1> DEFINE op == tx[t].op
  <1>1. /\ tx[t] # Idle /\ op \in Ops /\ Ends(t)
        /\ session' = session /\ refund' = refund /\ scope' = scope
    BY FinishEnds DEF stripeVars
  <1>2. Runs(t, op, o) /\ Coming(o, op)
    BY <1>1, RunsItself DEF Coming
  <1>3. Happened(o, op) /\ ReadHolds(o, op)
    BY <1>1, <1>2 DEF OrderShape, EventsHappened, SerialShape
  <1>4. Written(t, o)
    BY FinishWrites
  <1>5. /\ \A p \in Ops : Coming(o, p)' => Coming(o, p)
        /\ \A p \in Ops \ {op} : Coming(o, p)' <=> Coming(o, p)
    BY <1>1, EndsComing
  <1>6. \A s \in Transactions, p \in Ops : ~Runs(s, p, o)'
    <2>1. \A s \in Transactions, p \in Ops : Runs(s, p, o)' <=> Runs(s, p, o) /\ s # t
      BY <1>1, EndsComing
    <2> QED
      BY <1>1, <2>1, RunsIsBusy, OneRuns
  <1>7. /\ {"completed", "expired"} \subseteq Ops
        /\ {"completed", "expired"} \subseteq EventTypes
    BY DEF Ops, EventTypes
  <1>8. CompletedOnce(o)'
    <2> SUFFICES ASSUME scope.replays = 0, pi'[o] PROVE ~Coming(o, "completed")'
      BY <1>1, <1>6, <1>7 DEF CompletedOnce
    <2>1. CASE pi[o]
      BY <1>5, <1>7, <2>1 DEF SerialShape, CompletedOnce
    <2>2. CASE ~pi[o]
      <3>1. op = "completed" /\ Commit(t)
        BY <1>4, <2>2 DEF Written
      <3>2. <<o, "completed">> \notin due
        BY <1>2, <3>1 DEF SerialShape, CompletedOnce
      <3>3. due' = due
        BY <3>1 DEF Commit, TypeOK
      <3> QED
        BY <1>6, <1>7, <3>2, <3>3 DEF Coming
    <2> QED
      BY <2>1, <2>2
  <1>9. PaymentShape(o)'
    <2>1. CASE pay' = pay /\ pi' = pi /\ granted' = granted
               /\ (op \in EventTypes => <<o, op>> \in due')
      <3>1. \A p \in EventTypes : Coming(o, p)' <=> Coming(o, p)
        BY <1>1, <1>2, <1>5, <2>1 DEF Coming, Ops
      <3> QED
        BY <1>1, <1>7, <2>1, <3>1 DEF SerialShape, PaymentShape
    <2>2. CASE op \in {"completed", "confirm"} /\ pay'[o] = "paid"
               /\ pi'[o] = (pi[o] \/ op = "completed") /\ granted'[o] = granted[o] + 1
      <3>1. session[o] # "expired"
        BY <1>3, <2>2 DEF Happened, OrderShape, RequestShape
      <3>2. o \in BankOrders \/ op = "completed"
        BY <1>3, <2>2 DEF Happened
      <3>3. granted'[o] > 0
        BY <2>2 DEF TypeOK
      <3> QED
        BY <1>1, <2>2, <3>1, <3>2, <3>3 DEF PaymentShape
    <2>3. CASE op \in {"expired", "overdue"} /\ pay'[o] = "expired" /\ pi' = pi
               /\ granted' = granted
      <3>1. pay[o] = "pending" /\ session[o] # "complete"
              /\ (session[o] = "expired" \/ o \in BankOrders)
        BY <1>3, <2>3 DEF Happened, ReadHolds, OrderShape, RequestShape
      <3> QED
        BY <1>1, <2>3, <3>1 DEF SerialShape, PaymentShape
    <2>4. CASE op \in {"failed", "cancel"} /\ pay'[o] = "failed" /\ pi' = pi
               /\ granted' = granted
      <3>1. pay[o] = "pending"
        BY <1>3, <2>4 DEF ReadHolds
      <3>2. Coming(o, "completed")' <=> Coming(o, "completed")
        BY <1>5, <1>7, <2>4
      <3> QED
        BY <1>1, <2>4, <3>1, <3>2 DEF SerialShape, PaymentShape
    <2>5. CASE op = "refunded" /\ pay'[o] = "refunded" /\ pi' = pi
               /\ granted' = granted
      <3>1. pay[o] = "paid" /\ refund[o] = "full" /\ session[o] = "complete"
              /\ o \notin BankOrders
        BY <1>3, <2>5 DEF ReadHolds, Happened, OrderShape, RequestShape
      <3> QED
        BY <1>1, <2>5, <3>1 DEF SerialShape, PaymentShape
    <2> QED
      BY <1>4, <2>1, <2>2, <2>3, <2>4, <2>5 DEF Written
  <1>10. UsageShape(o)'
    <2>1. CASE pay' = pay /\ usage' = usage
      BY <1>1, <1>4, <1>9, <2>1 DEF SerialShape, UsageShape, Holds, PaidOnce, LateReplays,
         OrderShape, RequestShape, Written
    <2>2. CASE op \in {"completed", "confirm"} /\ pay'[o] = "paid" /\ ConfirmCoupon(o)
               /\ ~CommissionExists(o)
      <3>1. ASSUME PaidOnce(o) PROVE usage'[o] \in {"none", "used"}
        <4>1. Holds(o)
          BY <1>2, <2>2, <3>1, PaidFromHeld
        <4>2. usage[o] \in {"none", "reserved"}
          BY <4>1 DEF SerialShape, UsageShape
        <4> QED
          BY <2>2, <4>2 DEF ConfirmCoupon, SetUsage, couponVars, TypeOK
      <3> QED
        BY <1>1, <2>2, <3>1 DEF UsageShape, Holds, PaidOnce, LateReplays
    <2>3. CASE pay'[o] \in {"expired", "refunded"}
      BY <2>3 DEF UsageShape, Holds
    <2>4. CASE op = "failed" /\ pay'[o] = "failed" /\ usage' = usage
      BY <1>3, <2>4 DEF SerialShape, UsageShape, Holds, ReadHolds
    <2>5. CASE pay'[o] = "failed" /\ stage'[o] = "failed"
      BY <2>5 DEF UsageShape, Holds
    <2> QED
      BY <1>4, <2>1, <2>2, <2>3, <2>4, <2>5 DEF Written
  <1>11. (PaidOnce(o) => granted[o] <= 1)'
    <2>1. CASE granted' = granted
      BY <1>1, <2>1 DEF SerialShape, PaidOnce, LateReplays
    <2>2. CASE op \in {"completed", "confirm"} /\ ~CommissionExists(o)
               /\ granted'[o] = granted[o] + 1
      <3>1. PaidOnce(o) => granted[o] = 0
        BY <1>2, <2>2, PaidFromHeld
      <3> QED
        BY <1>1, <2>2, <3>1 DEF PaidOnce, LateReplays
    <2> QED
      BY <1>4, <2>1, <2>2 DEF Written
  <1> QED
    BY <1>6, <1>8, <1>9, <1>10, <1>11 DEF SerialShape

-----------------------------------------------------------------------------
(* Stock *)

\* The units of some orders are finitely many, and one order adds its own.
LEMMA OrderedJoins ==
    ASSUME NEW S, NEW o, o \notin S, NEW v
    PROVE  /\ Cardinality(Ordered(S \cup {o}, v)) \in Nat
           /\ Cardinality(Ordered(S, v)) \in Nat
           /\ Cardinality(Ordered(S \cup {o}, v)) = Cardinality(Ordered(S, v)) + Qty(o, v)
  <1> DEFINE A == Ordered(S, v)
             B == Ordered({o}, v)
  <1>1. Ordered(S \cup {o}, v) = A \cup B /\ A \cap B = {}
    BY DEF Ordered
  <1>2. IsFiniteSet(A) /\ IsFiniteSet(B)
    BY UnitAssumption, FS_Subset DEF Ordered
  <1> HIDE DEF A, B
  <1>3. Cardinality(A \cup B) = Cardinality(A) + Cardinality(B) - Cardinality(A \cap B)
    BY <1>2, FS_Union
  <1>4. Cardinality(A) \in Nat /\ Cardinality(B) \in Nat /\ Cardinality(A \cap B) = 0
    BY <1>1, <1>2, FS_CardinalityType, FS_EmptySet
  <1>5. Cardinality(A \cup B) = Cardinality(A) + Cardinality(B)
    BY <1>3, <1>4
  <1>6. Cardinality(Ordered(S \cup {o}, v)) = Cardinality(A \cup B)
    BY <1>1
  <1>7. Cardinality(A) = Cardinality(Ordered(S, v)) /\ Cardinality(B) = Qty(o, v)
    BY DEF A, B, Qty
  <1> QED
    BY <1>4, <1>5, <1>6, <1>7

\* assertStockAvailable covers the whole order where it has one line a variant.
LEMMA InStockFits ==
    ASSUME StockTypeOK, NEW o \in Orders, InStock(o), NEW v \in Variants, OneLineOf(v),
           reserved[v] <= stock[v]
    PROVE  reserved[v] + Qty(o, v) <= stock[v]
  <1>1. CASE Ordered({o}, v) = {}
    <2>1. Qty(o, v) = 0
      BY <1>1, FS_EmptySet DEF Qty
    <2> QED
      BY <2>1 DEF StockTypeOK
  <1>2. ASSUME NEW u \in Ordered({o}, v) PROVE reserved[v] + Qty(o, v) <= stock[v]
    <2> DEFINE L == {x \in Units : OrderOf[x] = OrderOf[u] /\ LineOf[x] = LineOf[u]}
    <2>1. u \in Units /\ OrderOf[u] = o /\ VariantOf[u] = v
      BY <1>2 DEF Ordered
    <2>2. Ordered({o}, v) \subseteq L
      BY <2>1 DEF Ordered, OneLineOf
    <2>3. IsFiniteSet(L)
      BY UnitAssumption, FS_Subset
    <2>4. Cardinality(Ordered({o}, v)) <= Cardinality(L) /\ Cardinality(L) \in Nat
      BY <2>2, <2>3, FS_Subset, FS_CardinalityType
    <2>5. stock[v] - reserved[v] >= Cardinality(L)
      BY <2>1 DEF InStock, LineQty
    <2>6. Qty(o, v) <= Cardinality(L)
      BY <2>4 DEF Qty
    <2> QED
      BY <2>4, <2>5, <2>6, QtyType DEF StockTypeOK
  <1> QED
    BY <1>1, <1>2

\* What StockLedger says where it applies.
Ledger(v) ==
    /\ reserved[v] = Cardinality(Ordered(Held, v))
    /\ stock[v] = InitialStock[v] - Cardinality(Ordered(Sold, v))
    /\ OneLineOf(v) => reserved[v] <= stock[v]

\* What a step does to the stock, and to the orders that hold and have got it.
StockMove(o) ==
    \/ Held' = Held /\ Sold' = Sold /\ stockVars' = stockVars
    \/ /\ o \notin Held /\ Held' = Held \cup {o} /\ Sold' = Sold
       /\ InStock(o) /\ Reserve(o)
    \/ o \in Held /\ Held' = Held \ {o} /\ Sold' = Sold /\ Release(o)
    \/ /\ o \in Held /\ Held' = Held \ {o} /\ o \notin Sold /\ Sold' = Sold \cup {o}
       /\ Sell(o)

LEMMA StockMoves ==
    ASSUME StockTypeOK, NEW o \in Orders, StockMove(o), NEW v \in Variants, Ledger(v)
    PROVE  Ledger(v)'
  <1> DEFINE H == Held
             S == Sold
             HH == Held'
             SS == Sold'
  <1> SUFFICES /\ reserved'[v] = Cardinality(Ordered(HH, v))
               /\ stock'[v] = InitialStock[v] - Cardinality(Ordered(SS, v))
               /\ OneLineOf(v) => reserved'[v] <= stock'[v]
    BY DEF Ledger, OneLineOf, Ordered
  <1>1. /\ reserved[v] = Cardinality(Ordered(H, v))
        /\ stock[v] = InitialStock[v] - Cardinality(Ordered(S, v))
        /\ OneLineOf(v) => reserved[v] <= stock[v]
    BY DEF Ledger
  <1>2. Qty(o, v) \in Nat /\ InitialStock[v] \in Nat
          /\ reserved[v] \in Int /\ stock[v] \in Int
    BY QtyType, StockAssumption DEF StockTypeOK
  <1> HIDE DEF H, S, HH, SS
  <1>3. ASSUME HH = H \ {o}, o \in H
        PROVE  /\ Cardinality(Ordered(HH, v)) \in Nat
               /\ Cardinality(Ordered(H, v)) = Cardinality(Ordered(HH, v)) + Qty(o, v)
    <2>1. H = HH \cup {o} /\ o \notin HH
      BY <1>3
    <2> QED
      BY <2>1, OrderedJoins
  <1>4. CASE HH = H /\ SS = S /\ stockVars' = stockVars
    BY <1>1, <1>4 DEF stockVars
  <1>5. CASE o \notin H /\ HH = H \cup {o} /\ SS = S /\ InStock(o) /\ Reserve(o)
    <2>1. reserved'[v] = reserved[v] + Qty(o, v) /\ stock'[v] = stock[v]
      BY <1>5 DEF Reserve
    <2>2. Cardinality(Ordered(HH, v)) = Cardinality(Ordered(H, v)) + Qty(o, v)
      BY <1>5, OrderedJoins
    <2>3. OneLineOf(v) => reserved[v] + Qty(o, v) <= stock[v]
      BY <1>1, <1>5, InStockFits
    <2> QED
      BY <1>1, <1>5, <2>1, <2>2, <2>3
  <1>6. CASE o \in H /\ HH = H \ {o} /\ SS = S /\ Release(o)
    <2>1. reserved'[v] = reserved[v] - Qty(o, v) /\ stock'[v] = stock[v]
      BY <1>6 DEF Release
    <2> QED
      BY <1>1, <1>2, <1>3, <1>6, <2>1
  <1>7. CASE o \in H /\ HH = H \ {o} /\ o \notin S /\ SS = S \cup {o} /\ Sell(o)
    <2>1. reserved'[v] = reserved[v] - Qty(o, v) /\ stock'[v] = stock[v] - Qty(o, v)
      BY <1>7 DEF Sell
    <2>2. /\ Cardinality(Ordered(S, v)) \in Nat
          /\ Cardinality(Ordered(SS, v)) = Cardinality(Ordered(S, v)) + Qty(o, v)
      BY <1>7, OrderedJoins
    <2> QED
      BY <1>1, <1>2, <1>3, <1>7, <2>1, <2>2
  <1> QED
    BY <1>4, <1>5, <1>6, <1>7 DEF StockMove, H, S, HH, SS

\* A step that keeps payments, grants and settled stages moves no stock.
LEMMA NothingMoves ==
    ASSUME TypeOK, NEW o \in Orders, pay' = pay, granted' = granted,
           stockVars' = stockVars, \A x \in Orders \ {o} : stage'[x] = stage[x],
           pay[o] = "failed" => (stage'[o] = "done" <=> stage[o] = "done")
    PROVE  StockMove(o)
  <1>1. Held' = Held
    BY DEF Held, Holds
  <1>2. Sold' = Sold
    BY DEF Sold
  <1> QED
    BY <1>1, <1>2 DEF StockMove

LEMMA RequestStock ==
    ASSUME TypeOK, TypeOK', NEW o \in Orders, Request(o) \/ AtStripe(o), OrderShape(o)
    PROVE  StockMove(o)
  <1>1. CASE CreatePendingOrder(o)
    <2>1. /\ stage[o] = "new" /\ pay' = [pay EXCEPT ![o] = "pending"] /\ granted' = granted
          /\ InStock(o) /\ Reserve(o)
          /\ \A x \in Orders \ {o} : stage'[x] = stage[x]
      BY <1>1 DEF CreatePendingOrder, MoveTo, TypeOK
    <2>2. o \notin Held
      BY <2>1 DEF Held, Holds, OrderShape, RequestShape
    <2>3. Held' = Held \cup {o}
      BY <2>1 DEF Held, Holds, TypeOK
    <2>4. Sold' = Sold
      BY <2>1 DEF Sold
    <2> QED
      BY <2>1, <2>2, <2>3, <2>4 DEF StockMove
  <1>2. CASE Request(o) /\ ~CreatePendingOrder(o)
    <2>1. /\ rowVars' = rowVars /\ stockVars' = stockVars
          /\ \A x \in Orders \ {o} : stage'[x] = stage[x]
          /\ stage[o] \in {"notify", "session", "record", "cancel"}
      BY <1>2 DEF Request, NotifyBankTransfer, CreateSession, RecordSession, Crash, MoveTo,
         TypeOK
    <2> QED
      BY <2>1, NothingMoves DEF rowVars, OrderShape, RequestShape
  <1>3. CASE AtStripe(o)
    <2>1. rowVars' = rowVars /\ stockVars' = stockVars /\ stage' = stage
      BY <1>3 DEF AtStripe, CustomerPays, PaymentDeclined, SessionExpires, RefundAtStripe
    <2> QED
      BY <2>1, NothingMoves DEF rowVars
  <1> QED
    BY <1>1, <1>2, <1>3

LEMMA BeginStock ==
    ASSUME TypeOK, NEW t \in Transactions, NEW o \in Orders, Begins(t, o), OrderShape(o)
    PROVE  StockMove(o)
  <1>1. rowVars' = rowVars /\ stockVars' = stockVars
    BY DEF Begins
  <1>2. \/ stage' = stage
        \/ stage[o] = "cancel" /\ \A x \in Orders \ {o} : stage'[x] = stage[x]
    BY DEF Begins, MoveTo, TypeOK
  <1> QED
    BY <1>1, <1>2, NothingMoves DEF rowVars, OrderShape, RequestShape

LEMMA FinishStock ==
    ASSUME TypeOK, TypeOK', NEW t \in Transactions, NEW o \in Orders, o = tx[t].order,
           Finish(t), OrderShape(o), SerialShape(o), PaidOnce(o)
    PROVE  StockMove(o)
  <1>1. /\ tx[t] # Idle /\ tx[t].op \in Ops
        /\ Runs(t, tx[t].op, o) /\ Coming(o, tx[t].op)
    BY FinishEnds, RunsItself DEF Coming
  <1>2. Happened(o, tx[t].op) /\ ReadHolds(o, tx[t].op)
    BY <1>1 DEF OrderShape, EventsHappened, SerialShape
  <1>3. CASE CommitPaid(t)
    <2>1. /\ pay' = [pay EXCEPT ![o] = "paid"] /\ stage' = stage
          /\ granted' = [granted EXCEPT ![o] = granted[o] + 1] /\ Sell(o)
          /\ Holds(o) /\ granted[o] = 0
      BY <1>1, <1>3, PaidFromHeld DEF CommitPaid, SetPay
    <2>2. o \in Held /\ o \notin Sold /\ Held' = Held \ {o}
      BY <2>1 DEF Held, Sold, Holds, TypeOK
    <2>3. Sold' = Sold \cup {o}
      <3>1. granted'[o] > 0 /\ \A x \in Orders \ {o} : granted'[x] = granted[x]
        BY <2>1 DEF TypeOK
      <3> QED
        BY <3>1 DEF Sold
    <2> QED
      BY <2>1, <2>2, <2>3 DEF StockMove
  <1>4. CASE CommitExpired(t)
    <2>1. /\ pay' = [pay EXCEPT ![o] = "expired"] /\ stage' = stage
          /\ granted' = granted /\ Release(o) /\ pay[o] = "pending"
      BY <1>2, <1>4 DEF CommitExpired, SetPay, ReadHolds
    <2>2. o \in Held /\ Held' = Held \ {o} /\ Sold' = Sold
      BY <2>1 DEF Held, Sold, Holds, TypeOK
    <2> QED
      BY <2>1, <2>2 DEF StockMove
  <1>5. CASE CommitFailed(t)
    <2>1. /\ pay' = [pay EXCEPT ![o] = "failed"] /\ stage' = stage
          /\ granted' = granted /\ stockVars' = stockVars /\ pay[o] = "pending"
          /\ stage[o] = "done"
      BY <1>2, <1>5 DEF CommitFailed, SetPay, ReadHolds, Happened
    <2>2. Held' = Held /\ Sold' = Sold
      BY <2>1 DEF Held, Sold, Holds, TypeOK
    <2> QED
      BY <2>1, <2>2 DEF StockMove
  <1>6. CASE CommitRefunded(t)
    <2>1. /\ pay' = [pay EXCEPT ![o] = "refunded"] /\ stage' = stage
          /\ granted' = granted /\ stockVars' = stockVars /\ pay[o] = "paid"
      BY <1>2, <1>6 DEF CommitRefunded, SetPay, ReadHolds
    <2>2. Held' = Held /\ Sold' = Sold
      BY <2>1 DEF Held, Sold, Holds, TypeOK
    <2> QED
      BY <2>1, <2>2 DEF StockMove
  <1>7. CASE CommitCancelled(t)
    <2>1. /\ pay' = [pay EXCEPT ![o] = "failed"] /\ stage' = [stage EXCEPT ![o] = "failed"]
          /\ granted' = granted /\ Release(o) /\ pay[o] = "pending"
      BY <1>2, <1>7 DEF CommitCancelled, SetPay, MoveTo, ReadHolds
    <2>2. o \in Held /\ Held' = Held \ {o} /\ Sold' = Sold
      BY <2>1 DEF Held, Sold, Holds, TypeOK
    <2> QED
      BY <2>1, <2>2 DEF StockMove
  <1>8. CASE Abort(t)
    <2>1. /\ rowVars' = rowVars /\ stockVars' = stockVars
          /\ \A x \in Orders \ {o} : stage'[x] = stage[x]
          /\ stage'[o] = stage[o] \/ tx[t].op = "cancel"
      BY <1>8 DEF Abort, MoveTo, TypeOK
    <2>2. tx[t].op = "cancel" => stage[o] = "cancel"
      BY <1>2 DEF Happened
    <2> QED
      BY <2>1, <2>2, NothingMoves DEF rowVars, OrderShape, RequestShape
  <1> QED
    BY <1>3, <1>4, <1>5, <1>6, <1>7, <1>8 DEF Finish

-----------------------------------------------------------------------------
(* The invariant is kept *)

LEMMA NextInScope ==
    ASSUME TypeOK, InScope, Next, \A o \in Orders : OrderShape(o)
    PROVE  InScope' /\ scope' = scope
  <1>1. ASSUME NEW o \in Orders, Request(o) \/ AtStripe(o)
        PROVE  InScope' /\ scope' = scope
    <2>1. tx' = tx /\ scope' = scope
      BY <1>1 DEF Request, AtStripe, CreatePendingOrder, NotifyBankTransfer,
         CreateSession, RecordSession, Crash, CustomerPays, PaymentDeclined,
         SessionExpires, RefundAtStripe
    <2>2. \A x \in Orders : stage'[x] # "new" => stage[x] # "new" \/ x \in scope.orders
      BY <1>1 DEF Request, AtStripe, CreatePendingOrder, NotifyBankTransfer,
         CreateSession, RecordSession, Crash, CustomerPays, PaymentDeclined,
         SessionExpires, RefundAtStripe, MoveTo, TypeOK
    <2> QED
      BY <2>1, <2>2 DEF InScope
  <1>2. ASSUME NEW t \in Transactions, NEW o \in Orders, Begins(t, o)
        PROVE  InScope' /\ scope' = scope
    <2>1. \A s \in Transactions : tx'[s] # Idle => tx[s] # Idle \/ s \in scope.slots
      BY <1>2 DEF Begins, Begin, TypeOK
    <2>2. \A x \in Orders : stage'[x] # "new" => stage[x] # "new"
      BY <1>2 DEF Begins, MoveTo, TypeOK
    <2>3. scope' = scope
      BY <1>2 DEF Begins
    <2> QED
      BY <2>1, <2>2, <2>3 DEF InScope
  <1>3. ASSUME NEW t \in Transactions, Finish(t)
        PROVE  InScope' /\ scope' = scope
    <2>1. scope' = scope /\ End(t)
      BY <1>3, FinishEnds DEF Ends
    <2>2. \A s \in Transactions : tx'[s] # Idle => tx[s] # Idle
      BY <2>1 DEF End, TypeOK
    <2>3. \A x \in Orders \ {tx[t].order} : stage'[x] = stage[x]
      BY <1>3, OthersStand DEF Unmoved
    <2>4. tx[t].op = "cancel" => stage[tx[t].order] = "cancel"
      BY <1>3, FinishEnds, RunsItself DEF OrderShape, EventsHappened, Happened, Coming
    <2>5. stage'[tx[t].order] # "new" => stage[tx[t].order] # "new"
      BY <1>3, <2>4, FinishWrites DEF Written
    <2> QED
      BY <2>1, <2>2, <2>3, <2>5 DEF InScope
  <1> QED
    BY <1>1, <1>2, <1>3, StartBegins DEF Next

\* Every step is about one order: its shape and its stock move, the rest stands.
OneOrderMoves(o) ==
    /\ \A x \in Orders \ {o} : Unmoved(x) /\ SameTx(x)
    /\ OrderShape(o)'
    /\ Serial /\ SerialShape(o) => SerialShape(o)'
    /\ Serial /\ SerialShape(o) /\ (o \in scope.orders => PaidOnce(o)) => StockMove(o)

ShapeInv ==
    /\ TypeOK
    /\ NewHasNoUsage
    /\ InScope
    /\ \A o \in Orders : OrderShape(o)

LEMMA NextMovesOne ==
    ASSUME ShapeInv, TypeOK', Next
    PROVE  \E o \in Orders : OneOrderMoves(o)
  <1> USE DEF ShapeInv
  <1>1. ASSUME NEW o \in Orders, Request(o) \/ AtStripe(o) PROVE OneOrderMoves(o)
    <2>1. OrderShape(o)' /\ (SerialShape(o) => SerialShape(o)')
      BY <1>1, CreateKeeps, RequestMoves, StripeKeeps
    <2>2. StockMove(o)
      BY <1>1, RequestStock
    <2> QED
      BY <1>1, <2>1, <2>2, OthersKept DEF OneOrderMoves
  <1>2. ASSUME NEW t \in Transactions, NEW o \in Orders, Start(t, o)
        PROVE  OneOrderMoves(o)
    <2>1. Begins(t, o)
      BY <1>2, StartBegins
    <2>2. OrderShape(o)' /\ (Serial /\ SerialShape(o) => SerialShape(o)')
      BY <2>1, BeginKeeps
    <2>3. StockMove(o)
      BY <2>1, BeginStock
    <2> QED
      BY <2>1, <2>2, <2>3, OthersWait DEF OneOrderMoves
  <1>3. ASSUME NEW t \in Transactions, Finish(t), NEW o \in Orders, o = tx[t].order
        PROVE  OneOrderMoves(o)
    <2>1. OrderShape(o)'
      BY <1>3, FinishKeepsShape
    <2>2. Serial /\ SerialShape(o) => SerialShape(o)'
      BY <1>3, <2>1, FinishKeepsSerial
    <2>3. o \in scope.orders
      <3>1. Happened(o, tx[t].op) /\ tx[t].op \in Ops
        BY <1>3, FinishEnds, RunsItself DEF OrderShape, EventsHappened, Coming
      <3>2. tx[t].op # "partial" => stage[o] # "new"
        BY <3>1 DEF Happened, OrderShape, RequestShape, Ops, EventTypes
      <3>3. tx[t].op = "partial" => stage[o] # "new"
        BY <3>1 DEF Happened, OrderShape, RequestShape
      <3> QED
        BY <3>2, <3>3 DEF InScope
    <2>4. Serial /\ SerialShape(o) /\ PaidOnce(o) => StockMove(o)
      BY <1>3, FinishStock
    <2>5. \A x \in Orders \ {o} : Unmoved(x) /\ SameTx(x)
      BY <1>3, OthersStand
    <2> QED
      BY <2>1, <2>2, <2>3, <2>4, <2>5 DEF OneOrderMoves
  <1>4. ASSUME NEW t \in Transactions, Finish(t) PROVE tx[t].order \in Orders
    BY <1>4, FinishEnds
  <1> QED
    BY <1>1, <1>2, <1>3, <1>4 DEF Next

LEMMA InitSerialIInv == Init => SerialIInv
  <1> SUFFICES ASSUME Init PROVE SerialIInv
    OBVIOUS
  <1>1. TypeOK /\ NewHasNoUsage
    BY InitTypeOK DEF Init, NewHasNoUsage
  <1>2. InScope
    BY DEF Init, InScope
  <1>3. ASSUME NEW o \in Orders
        PROVE  \A op \in Ops : ~Coming(o, op) /\ \A t \in Transactions : ~Runs(t, op, o)
    BY <1>3, IdleRuns DEF Init, Coming
  <1>4. ASSUME NEW o \in Orders PROVE OrderShape(o)
    <2>1. RequestShape(o)
      BY DEF Init, RequestShape
    <2>2. EventsHappened(o) /\ OneCancel(o)
      BY <1>3 DEF EventsHappened, OneCancel, Ops
    <2> QED
      BY <2>1, <2>2 DEF OrderShape
  <1>5. ASSUME NEW o \in Orders PROVE SerialShape(o)
    <2>1. CompletedOnce(o)
      BY <1>3 DEF CompletedOnce, Ops, EventTypes
    <2>2. PaymentShape(o) /\ UsageShape(o) /\ granted[o] = 0
      BY DEF Init, PaymentShape, UsageShape, Holds
    <2> QED
      BY <1>3, <2>1, <2>2 DEF SerialShape
  <1>6. StockLedger
    <2> SUFFICES ASSUME NEW v \in Variants PROVE Ledger(v)
      BY DEF StockLedger, Ledger
    <2>1. Ordered(Held, v) = {} /\ Ordered(Sold, v) = {}
      BY DEF Init, Ordered, Held, Sold, Holds
    <2>2. stock[v] = InitialStock[v] /\ reserved[v] = 0 /\ InitialStock[v] \in Nat
      BY StockAssumption DEF Init
    <2> QED
      BY <2>1, <2>2, FS_EmptySet DEF Ledger
  <1> QED
    BY <1>1, <1>2, <1>4, <1>5, <1>6 DEF SerialIInv

LEMMA NextSerialIInv == SerialIInv /\ [Next]_vars => SerialIInv'
  <1> SUFFICES ASSUME SerialIInv, [Next]_vars PROVE SerialIInv'
    OBVIOUS
  <1>1. TypeOK /\ TypeOK'
    BY NextTypeOK DEF SerialIInv
  <1>2. CASE UNCHANGED vars
    <2>1. /\ TypeOK' /\ scope' = scope /\ stage' = stage /\ tx' = tx
          /\ \A x \in Orders : Unmoved(x) /\ SameTx(x)
      BY <1>1, <1>2 DEF vars, rowVars, couponVars, stripeVars, Unmoved, SameTx, Runs
    <2>2. NewHasNoUsage' /\ InScope'
      BY <1>2, <2>1 DEF SerialIInv, NewHasNoUsage, InScope, vars, couponVars
    <2>3. \A o \in Orders : OrderShape(o)'
      BY <1>1, <2>1, UnmovedOrder DEF SerialIInv
    <2>4. (Serial => \A o \in Orders : SerialShape(o))'
      BY <1>1, <2>1, UnmovedSerial DEF SerialIInv, Serial
    <2>5. StockLedger'
      BY <1>2 DEF vars, rowVars, stockVars, SerialIInv, StockLedger, Serial, PaidOnce,
         LateReplays, Held, Sold, Holds
    <2> QED
      BY <1>1, <2>2, <2>3, <2>4, <2>5 DEF SerialIInv
  <1>3. CASE Next
    <2>1. ShapeInv
      BY DEF SerialIInv, ShapeInv
    <2>2. PICK o \in Orders : OneOrderMoves(o)
      BY <1>1, <1>3, <2>1, NextMovesOne
    <2>3. NewHasNoUsage'
      BY <1>3, NewKeepsNoUsage DEF SerialIInv
    <2>4. InScope' /\ scope' = scope
      BY <1>3, NextInScope DEF SerialIInv
    <2>5. \A x \in Orders : OrderShape(x)'
      BY <1>1, <2>2, <2>4, UnmovedOrder DEF OneOrderMoves, SerialIInv
    <2>6. Serial <=> Serial'
      BY <2>4 DEF Serial
    <2>7. Serial' => \A x \in Orders : SerialShape(x)'
      BY <1>1, <2>2, <2>4, <2>6, UnmovedSerial DEF OneOrderMoves, SerialIInv
    <2>8. StockLedger'
      <3> SUFFICES ASSUME Serial', \A x \in scope.orders : PaidOnce(x),
                          NEW v \in Variants
                   PROVE  Ledger(v)'
        BY <2>4 DEF StockLedger, Ledger, PaidOnce, LateReplays
      <3>1. Ledger(v)
        BY <2>6 DEF SerialIInv, StockLedger, Ledger
      <3>2. StockMove(o)
        BY <2>2, <2>6 DEF OneOrderMoves, SerialIInv
      <3> QED
        BY <1>1, <3>1, <3>2, TypeParts, StockMoves
    <2> QED
      BY <1>1, <2>3, <2>4, <2>5, <2>7, <2>8 DEF SerialIInv
  <1> QED
    BY <1>2, <1>3

LEMMA SerialInvariant == Spec => []SerialIInv
BY InitSerialIInv, NextSerialIInv, PTL DEF Spec

\* While handlers run one at a time, reserved_stock is the sum over the open
\* orders and stock what the sales left, and where no order asks for a variant in
\* two lines no more is promised than there is.
THEOREM StockLedgerHolds == Spec => []StockLedger
  <1>1. SerialIInv => StockLedger
    BY DEF SerialIInv
  <1> QED
    BY <1>1, SerialInvariant, PTL

\* While handlers run one at a time, a discount that was given is charged to the
\* coupon when the order is paid, and reserved until then.
THEOREM DiscountIsChargedHolds == Spec => []DiscountIsCharged
  <1>1. SerialIInv => DiscountIsCharged
    BY DEF SerialIInv, SerialShape, UsageShape, Holds, DiscountIsCharged
  <1> QED
    BY <1>1, SerialInvariant, PTL

\* While handlers run one at a time, an order whose events have all been handled
\* has the status that what happened at Stripe calls for.
THEOREM OutcomeMatchesSessionHolds == Spec => []OutcomeMatchesSession
  <1>1. ASSUME SerialIInv PROVE OutcomeMatchesSession
    <2> SUFFICES ASSUME Serial, NEW o \in Orders, Quiet(o)
                 PROVE  /\ session[o] = "complete" /\ refund[o] # "full" => pay[o] = "paid"
                        /\ session[o] = "expired" => pay[o] \in {"expired", "failed"}
      BY DEF OutcomeMatchesSession
    <2>1. ASSUME NEW op \in EventTypes PROVE ~Coming(o, op)
      BY <2>1, RunsIsBusy DEF Quiet, Coming, Ops
    <2>2. PaymentShape(o)
      BY <1>1 DEF SerialIInv, SerialShape
    <2> QED
      BY <2>1, <2>2 DEF PaymentShape, EventTypes
  <1> QED
    BY <1>1, SerialInvariant, PTL

-----------------------------------------------------------------------------
(* Fulfilment *)

\* The unique commissions.order_id lets only one fulfilment commit.
CommissionOnce == \A o \in Orders : o \in ReferredOrders => granted[o] <= 1

\* A grant is one more run of the side effects, of an order without a commission.
LEMMA Grants ==
    ASSUME TypeOK, Next
    PROVE  \/ granted' = granted
           \/ \E o \in Orders : /\ granted' = [granted EXCEPT ![o] = @ + 1]
                                /\ ~CommissionExists(o)
  <1>1. ASSUME NEW o \in Orders, Request(o) \/ AtStripe(o) PROVE granted' = granted
    BY <1>1 DEF Request, AtStripe, CreatePendingOrder, NotifyBankTransfer,
       CreateSession, RecordSession, Crash, CustomerPays, PaymentDeclined,
       SessionExpires, RefundAtStripe, rowVars
  <1>2. ASSUME NEW t \in Transactions, NEW o \in Orders, Start(t, o)
        PROVE  granted' = granted
    BY <1>2, StartBegins DEF Begins, rowVars
  <1>3. ASSUME NEW t \in Transactions, Finish(t)
        PROVE  \/ granted' = granted
               \/ \E o \in Orders : /\ granted' = [granted EXCEPT ![o] = @ + 1]
                                    /\ ~CommissionExists(o)
    <2>1. tx[t].order \in Orders
      BY <1>3, FinishEnds
    <2>2. CASE CommitPaid(t)
      BY <2>1, <2>2 DEF CommitPaid
    <2>3. CASE ~CommitPaid(t)
      BY <1>3, <2>3 DEF Finish, CommitExpired, CommitFailed, CommitRefunded,
         CommitCancelled, Abort, rowVars
    <2> QED
      BY <2>2, <2>3
  <1> QED
    BY <1>1, <1>2, <1>3 DEF Next

LEMMA CommissionInvariant == Spec => []CommissionOnce
  <1>1. Init => CommissionOnce
    BY DEF Init, CommissionOnce
  <1>2. TypeOK /\ CommissionOnce /\ [Next]_vars => CommissionOnce'
    <2> SUFFICES ASSUME TypeOK, CommissionOnce, [Next]_vars, NEW x \in Orders,
                        x \in ReferredOrders
                 PROVE  granted'[x] <= 1
      BY DEF CommissionOnce
    <2>1. CASE granted' = granted
      BY <2>1 DEF CommissionOnce
    <2>2. ASSUME NEW o \in Orders, granted' = [granted EXCEPT ![o] = @ + 1],
                 ~CommissionExists(o)
          PROVE  granted'[x] <= 1
      <3>1. CASE x = o
        <4>1. granted[o] = 0
          BY <2>2, <3>1 DEF CommissionExists, TypeOK
        <4> QED
          BY <2>2, <3>1, <4>1 DEF TypeOK
      <3>2. CASE x # o
        BY <2>2, <3>2 DEF CommissionOnce, TypeOK
      <3> QED
        BY <3>1, <3>2
    <2>3. CASE UNCHANGED vars
      BY <2>1, <2>3 DEF vars, rowVars
    <2> QED
      BY <2>1, <2>2, <2>3, Grants
  <1> QED
    BY <1>1, <1>2, TypeCorrect, PTL DEF Spec

\* The side effects of a payment are committed at most once for every order with
\* a referral link, and for every order while handlers run one at a time and no
\* event is replayed after a refund.
THEOREM FulfilledOnceHolds == Spec => []FulfilledOnce
  <1>1. SerialIInv /\ CommissionOnce => FulfilledOnce
    BY DEF SerialIInv, SerialShape, CommissionOnce, FulfilledOnce
  <1> QED
    BY <1>1, SerialInvariant, CommissionInvariant, PTL

=============================================================================

---------------------------- MODULE RewardEvents ----------------------------
(***************************************************************************)
(* What an order line grants in other systems: OVE points in the wallet    *)
(* and entitlements in the systems of the common contract                  *)
(*   server/src/services/integrationOutbox.ts, oveWalletRewardClient.ts,   *)
(*   integrationOutboxDispatcher.ts (all but the cards of                  *)
(*   CollectibleDelivery), routes/admin/integrationOutbox.ts and           *)
(*   integrationPreflight.ts with the pages that call them                 *)
(*                                                                         *)
(* One order of one line.  The payment enqueues a grant for every enabled  *)
(* rule of the product, the full refund a revocation; senders (the cron or *)
(* an administrator's retry) carry them out while rules are edited and the *)
(* stage changes.  The wallet credits an idempotency key once.  A claim is *)
(* one step: what may happen between reading a row and claiming it is in   *)
(* CollectibleDelivery.  The audit rows of the attempts are left out.      *)
(***************************************************************************)
EXTENDS Integers, FiniteSets, Sequences, SequencesExt

CONSTANTS
    Rules,         \* product_integration_rules of the product
    OveRules,      \* those whose destination is ove-wallet
    PerQuantity,   \* those with rewardCalculationMode = 'per_quantity'
    NeedsId,       \* those with requireCommonUserId
    Editable,      \* those an administrator edits
    Quantity,      \* of the order line
    Units,         \* values of rewardAmountPerUnit
    Senders,       \* invocations of the dispatcher
    Refunds,       \* handlers of a full refund
    MaxAttempts,   \* MAX_ATTEMPTS
    CrashLimit,    \* bound on the senders killed
    Env,           \* what may happen, a subset of Happenings
    NULL

\* fail: a call or a transaction fails; lost: the call is taken, its answer lost;
\* retry: an administrator retries; slow: a live sender outlasts its lease;
\* lower: an administrator sets the stage back to dry_run.
Happenings == {"fail", "lost", "retry", "slow", "lower"}

\* A product has finitely many rules, and a refund finitely many handlers.
RewardAssumption == IsFiniteSet(Rules) /\ IsFiniteSet(Refunds) /\ CrashLimit \in Nat

VARIABLES
    order,      \* orders.payment_status
    resolved,   \* orders.common_user_id is known
    rule,       \* per rule: enabled, revokeOnRefund, rewardAmountPerUnit
    dry,        \* the stage is dry_run
    event,      \* integration_outbox_events, in order of creation
    rows,       \* order_wallet_transactions
    refund,     \* per handler of the refund: its step
    sender,     \* per sender: its step and locals
    credit,     \* the wallet: points credited per event
    back,       \* the wallet: credits that were reversed
    holds,      \* the other systems: the events that arrived, in order
    crashes     \* number of crashes so far

external == <<credit, back, holds>>
vars == <<order, resolved, rule, dry, event, rows, refund, sender, external, crashes>>

Idle == [pc |-> "idle"]
Goto(w, p) == sender' = [sender EXCEPT ![w].pc = p]
Finish(w) == sender' = [sender EXCEPT ![w] = Idle]

-----------------------------------------------------------------------------
(* Enqueueing: enqueueEntitlementEvents, in the transaction of the order.  *)

\* computeOveRewardAmount
Amount(r) == IF r \in PerQuantity THEN rule[r].unit * Quantity ELSE rule[r].unit

Routed(type) == {r \in Rules : rule[r].enabled /\ (type = "revoke" => rule[r].revoke)}

NewEvent(r, type) ==
    [rule |-> r, type |-> type, status |-> "pending", attempt |-> 0, due |-> TRUE,
     amount |-> Amount(r), owner |-> NULL, stale |-> FALSE]

Enqueue(type) ==
    LET list == SetToSeq(Routed(type))
    IN event' = event \o [i \in DOMAIN list |-> NewEvent(list[i], type)]

Pay ==
    /\ order = "pending"
    /\ order' = "paid"
    /\ Enqueue("grant")
    /\ UNCHANGED <<resolved, rule, dry, rows, refund, sender, external, crashes>>

\* handleChargeRefunded reads the order and returns if it is refunded ...
RefundReads(h) ==
    /\ refund[h] = "new" /\ order # "pending"
    /\ refund' = [refund EXCEPT ![h] = IF order = "refunded" THEN "done" ELSE "write"]
    /\ UNCHANGED <<order, resolved, rule, dry, event, rows, sender, external, crashes>>

\* ... and updates it by id.
RefundCommits(h) ==
    /\ refund[h] = "write"
    /\ refund' = [refund EXCEPT ![h] = "done"]
    /\ order' = "refunded"
    /\ Enqueue("revoke")
    /\ UNCHANGED <<resolved, rule, dry, rows, sender, external, crashes>>

\* The linking job finds the buyer's common id.
ResolveId ==
    /\ ~resolved
    /\ resolved' = TRUE
    /\ UNCHANGED <<order, rule, dry, event, rows, refund, sender, external, crashes>>

EditRule(r) ==
    /\ r \in Editable
    /\ \/ rule' = [rule EXCEPT ![r].enabled = ~@]
       \/ rule' = [rule EXCEPT ![r].revoke = ~@]
       \/ \E u \in Units \ {rule[r].unit} : rule' = [rule EXCEPT ![r].unit = u]
    /\ UNCHANGED <<order, resolved, dry, event, rows, refund, sender, external, crashes>>

\* PUT /integration-stage; going live passes the preflight, going back is free.
SetStage ==
    /\ dry \/ "lower" \in Env
    /\ dry' = ~dry
    /\ UNCHANGED <<order, resolved, rule, event, rows, refund, sender, external, crashes>>

-----------------------------------------------------------------------------
(* Claiming an event.                                                      *)

\* A dispatch takes rows that are due, the administrator's retry any row that
\* is neither being sent nor sent.  The last conjunct bounds the retries.
Dispatchable(e) == event[e].status \in {"pending", "blocked"} /\ event[e].due
Retryable(e) ==
    /\ "retry" \in Env
    /\ event[e].status \in {"pending", "blocked", "dead"}
    /\ event[e].attempt <= MaxAttempts

Claim(w, e) ==
    /\ sender[w] = Idle
    /\ Dispatchable(e) \/ Retryable(e)
    /\ event' = [event EXCEPT ![e].status = "processing", ![e].owner = w, ![e].stale = FALSE]
    /\ sender' = [sender EXCEPT ![w] =
            [pc |-> "reconcile", event |-> e, attempt |-> event[e].attempt, dry |-> dry, grant |-> 0]]
    /\ UNCHANGED <<order, resolved, rule, dry, rows, refund, external, crashes>>

\* WHERE id = ... AND status = 'processing' AND processing_token = ...
Owns(w) ==
    LET e == sender[w].event IN event[e].status = "processing" /\ event[e].owner = w

\* reconcileEntitlementFields reads the order and the rule as they are now.
Held(e) ==
    \/ ~rule[event[e].rule].enabled
    \/ event[e].rule \in NeedsId /\ ~resolved

IsReversal(e) == event[e].rule \in OveRules /\ event[e].type = "revoke"

Reconcile(w) ==
    LET e == sender[w].event IN
    /\ sender[w].pc = "reconcile"
    /\ IF Held(e)
       THEN /\ Finish(w)
            /\ event' = IF Owns(w) THEN [event EXCEPT ![e].status = "blocked", ![e].stale = FALSE]
                        ELSE event
       ELSE /\ Goto(w, IF IsReversal(e) THEN "find" ELSE "call")
            /\ UNCHANGED event
    /\ UNCHANGED <<order, resolved, rule, dry, rows, refund, external, crashes>>

-----------------------------------------------------------------------------
(* Sending.                                                                *)

\* Mutation: the grant is looked up by the order line alone.
PriorGrantsOfLine(e) == {row \in rows : row.original = 0}
PriorGrants(e) == {row \in rows : row.original = 0 /\ row.rule = event[e].rule}

\* Mutation: a reversal made for another event is not noticed.
ReversedUnnoticed(g) == FALSE
Reversed(g) == \E row \in rows : row.original = g

\* A reversal needs a recorded grant that no row reverses.
Find(w) ==
    /\ sender[w].pc = "find"
    /\ \/ PriorGrants(sender[w].event) = {} /\ Goto(w, "failed")
       \/ \E row \in PriorGrants(sender[w].event) :
            sender' = [sender EXCEPT ![w].grant = row.event,
                                     ![w].pc = IF Reversed(row.event) THEN "failed" ELSE "call"]
    /\ UNCHANGED <<order, resolved, rule, dry, event, rows, refund, external, crashes>>

PayloadAmount(e) == event[e].amount

\* grantReward and reverseReward
WalletTakes(e, grant) ==
    /\ IF event[e].type = "grant"
       THEN credit' = [credit EXCEPT ![e] = IF @ = 0 THEN PayloadAmount(e) ELSE @] /\ UNCHANGED back
       ELSE back' = back \union {grant} /\ UNCHANGED credit
    /\ UNCHANGED holds

\* sendViaCommonContract; the receiver ignores an event id it has seen.
SystemTakes(e) ==
    /\ holds' = IF \E i \in DOMAIN holds : holds[i] = e THEN holds ELSE Append(holds, e)
    /\ UNCHANGED <<credit, back>>

Taken(e, grant) == IF event[e].rule \in OveRules THEN WalletTakes(e, grant) ELSE SystemTakes(e)

\* In dry_run everything but the call is done.
Call(w) ==
    /\ sender[w].pc = "call"
    /\ IF sender[w].dry
       THEN Goto(w, "record") /\ UNCHANGED external
       ELSE \/ Taken(sender[w].event, sender[w].grant) /\ Goto(w, "record")
            \/ "lost" \in Env /\ Taken(sender[w].event, sender[w].grant) /\ Goto(w, "failed")
            \/ "fail" \in Env /\ Goto(w, "failed") /\ UNCHANGED external
    /\ UNCHANGED <<order, resolved, rule, dry, event, rows, refund, crashes>>

-----------------------------------------------------------------------------
(* Recording the result.                                                   *)

\* Mutation: a dry run leaves a row as well.
TracedDry(w) == event[sender[w].event].rule \in OveRules
Traced(w) == event[sender[w].event].rule \in OveRules /\ ~sender[w].dry

Row(w) ==
    [event |-> sender[w].event, rule |-> event[sender[w].event].rule, original |-> sender[w].grant]

\* The row of the transaction is written with the event; if that fails, so has
\* the attempt.
Record(w) ==
    /\ sender[w].pc = "record"
    /\ \/ /\ Owns(w)
          /\ event' = [event EXCEPT ![sender[w].event] =
                        [@ EXCEPT !.status = "succeeded", !.owner = NULL, !.stale = FALSE]]
          /\ rows' = IF Traced(w) THEN rows \union {Row(w)} ELSE rows
          /\ Finish(w)
       \/ ~Owns(w) /\ Finish(w) /\ UNCHANGED <<event, rows>>
       \/ "fail" \in Env /\ Goto(w, "failed") /\ UNCHANGED <<event, rows>>
    /\ UNCHANGED <<order, resolved, rule, dry, refund, external, crashes>>

NextStatus(attempt) == IF attempt >= MaxAttempts THEN "dead" ELSE "pending"

Failed(w) ==
    LET attempt == sender[w].attempt + 1 IN
    /\ sender[w].pc = "failed"
    /\ event' = IF Owns(w)
                THEN [event EXCEPT ![sender[w].event] =
                        [@ EXCEPT !.status = NextStatus(attempt), !.attempt = attempt,
                                  !.due = FALSE, !.owner = NULL, !.stale = FALSE]]
                ELSE event
    /\ Finish(w)
    /\ UNCHANGED <<order, resolved, rule, dry, rows, refund, external, crashes>>

-----------------------------------------------------------------------------
(* Time and crashes.                                                       *)

Working == {w \in Senders : sender[w] # Idle}

BackoffEnds(e) ==
    /\ event[e].status = "pending" /\ ~event[e].due
    /\ event' = [event EXCEPT ![e].due = TRUE]
    /\ UNCHANGED <<order, resolved, rule, dry, rows, refund, sender, external, crashes>>

LeaseTimesOut(e) ==
    /\ event[e].status = "processing" /\ ~event[e].stale
    /\ "slow" \in Env \/ \A w \in Working : sender[w].event # e
    /\ event' = [event EXCEPT ![e].stale = TRUE]
    /\ UNCHANGED <<order, resolved, rule, dry, rows, refund, sender, external, crashes>>

\* Every dispatch first puts stale rows back.
Reclaim ==
    /\ \E e \in DOMAIN event : event[e].stale
    /\ event' = [e \in DOMAIN event |->
            IF event[e].stale THEN [event[e] EXCEPT !.status = "pending", !.owner = NULL, !.stale = FALSE]
            ELSE event[e]]
    /\ UNCHANGED <<order, resolved, rule, dry, rows, refund, sender, external, crashes>>

Crash(w) ==
    /\ sender[w] # Idle
    /\ crashes < CrashLimit
    /\ crashes' = crashes + 1
    /\ Finish(w)
    /\ UNCHANGED <<order, resolved, rule, dry, event, rows, refund, external>>

-----------------------------------------------------------------------------

MaxEvents == Cardinality(Rules) * (1 + Cardinality(Refunds))

Init ==
    /\ order = "pending"
    /\ resolved = FALSE
    /\ rule \in [Rules -> [enabled : BOOLEAN, revoke : {TRUE}, unit : {1}]]
    /\ dry \in BOOLEAN
    /\ event = <<>>
    /\ rows = {}
    /\ refund = [h \in Refunds |-> "new"]
    /\ sender = [w \in Senders |-> Idle]
    /\ credit = [e \in 1..MaxEvents |-> 0]
    /\ back = {}
    /\ holds = <<>>
    /\ crashes = 0

Step(w) == Reconcile(w) \/ Find(w) \/ Call(w) \/ Record(w) \/ Failed(w)

Next ==
    \/ Pay \/ ResolveId \/ SetStage \/ Reclaim
    \/ \E h \in Refunds : RefundReads(h) \/ RefundCommits(h)
    \/ \E r \in Rules : EditRule(r)
    \/ \E e \in DOMAIN event : BackoffEnds(e) \/ LeaseTimesOut(e) \/ \E w \in Senders : Claim(w, e)
    \/ \E w \in Senders : Step(w) \/ Crash(w)

Spec == Init /\ [][Next]_vars

-----------------------------------------------------------------------------
(* Properties.                                                             *)

\* What a rule may grant, the rows of the outbox and the locals of a sender.
Amounts == LET U == Units \cup {1} IN U \cup {u * Quantity : u \in U}
EventRow ==
    [rule: Rules, type: {"grant", "revoke"},
     status: {"pending", "processing", "blocked", "succeeded", "dead"},
     attempt: Nat, due: BOOLEAN, amount: Amounts, owner: Senders \cup {NULL}, stale: BOOLEAN]
Busy ==
    [pc: {"reconcile", "find", "call", "record", "failed"}, event: Nat, attempt: Nat,
     dry: BOOLEAN, grant: Nat]

\* The type invariant: an event is never promised another amount than that of a rule,
\* and the wallet credits no other.
TypeOK ==
    /\ order \in {"pending", "paid", "refunded"}
    /\ resolved \in BOOLEAN /\ dry \in BOOLEAN
    /\ rule \in [Rules -> [enabled: BOOLEAN, revoke: BOOLEAN, unit: Units \cup {1}]]
    /\ event \in Seq(EventRow)
    /\ rows \subseteq [event: Nat, rule: Rules, original: Nat]
    /\ refund \in [Refunds -> {"new", "write", "done"}]
    /\ sender \in [Senders -> Busy \cup {Idle}]
    /\ credit \in [1..MaxEvents -> Amounts \cup {0}]
    /\ back \subseteq Nat /\ holds \in Seq(Nat)
    /\ crashes \in 0..CrashLimit

Succeeded(e) == event[e].status = "succeeded"
RowOf(e) == {row \in rows : row.event = e}

\* order_wallet_transactions and the wallet agree: a recorded grant was credited
\* with the amount promised when the order was paid, whatever became of the rule,
\* and no credit whose event succeeded is untraced.
LedgerMatchesWallet ==
    /\ \A row \in rows : row.original = 0 => credit[row.event] = event[row.event].amount
    /\ \A e \in DOMAIN event : Succeeded(e) /\ credit[e] # 0 => RowOf(e) # {}

\* A recorded reversal leaves no credit of its rule with the buyer, also when a
\* sender that lost its lease sends the grant again.
PointsComeBack ==
    \A row \in rows : row.original # 0 =>
        \A e \in DOMAIN event :
            event[e].rule = row.rule /\ credit[e] # 0 => e \in back

\* No grant has two reversals on record, if the refund was handled twice or if two
\* senders worked on one event.  (With both at once it fails: README, section 6.)
ReversedOnce ==
    \A one, other \in rows : one.original = other.original /\ one.original # 0 => one = other

\* A refunded buyer keeps no entitlement whose grant and revocation were both
\* delivered to a system of the common contract.  It does not hold: a grant that
\* is repeated may arrive after its revocation (README, section 6).
LastOf(r) == LET mine == SelectSeq(holds, LAMBDA e : event[e].rule = r) IN mine[Len(mine)]
RefundEndsEntitlement ==
    \A r \in Rules \ OveRules :
        (\E i \in DOMAIN holds : event[holds[i]].rule = r /\ event[holds[i]].type = "revoke")
            => event[LastOf(r)].type = "revoke"
=============================================================================

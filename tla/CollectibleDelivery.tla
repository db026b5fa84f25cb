------------------------ MODULE CollectibleDelivery ------------------------
(***************************************************************************)
(* Handing the cards of a paid order over to the buyer's wallet: the       *)
(* wallet claim the buyer confirms, the delivery of each card through the  *)
(* integration outbox, and the full refund that takes the cards back.      *)
(*                                                                         *)
(*   server/src/services/walletClaim.ts, walletClaimConfirm.ts             *)
(*   server/src/services/walletClaimRefund.ts                              *)
(*   server/src/services/integrationOutbox.ts                              *)
(*   server/src/services/integrationOutboxDispatcher.ts                    *)
(*   server/src/services/stripeWebhookHandlers.ts (handleChargeRefunded)   *)
(*                                                                         *)
(* One order: claims, deliveries and events of different orders share      *)
(* nothing.  A sender is an invocation of the dispatcher (cron or an       *)
(* administrator's retry) working on one event; its statements are         *)
(* separate steps.  Its last transaction is three steps, and the refund's  *)
(* two, because under READ COMMITTED each decides on what others had       *)
(* committed when it read.  Confirming is one step: it starts with an      *)
(* UPDATE that locks the claim and tests its status again.                 *)
(*                                                                         *)
(* The wallet is external; it ignores an event id it has seen.  The flags  *)
(* are on and the stage is not dry_run.  The order is paid from the start  *)
(* (OrderPayments) and its buyer's common id is known, so the claim never  *)
(* leaves PENDING for ERROR.                                               *)
(*                                                                         *)
(* Bounds: Tokens bounds the claims of an event, CrashLimit the crashes.   *)
(***************************************************************************)
EXTENDS Integers, FiniteSets

CONSTANTS
    Issues,        \* the NFT issues (cards) of the order
    Senders,       \* invocations of the dispatcher
    Tokens,        \* processing tokens
    NoToken,       \* the NULL of processing_token
    MaxAttempts,   \* MAX_ATTEMPTS
    CrashLimit,    \* bound on the senders killed
    Env            \* what may happen, a subset of Happenings

\* hold: an id is unresolved or a flag is off; fail: the wallet cannot be
\* reached; lost: the wallet takes the event and its answer is lost; refund;
\* mint: the cards are minted; expire: the claim's link runs out; retry: an
\* administrator retries a dead event; slow: a live sender outlasts its lease.
Happenings == {"hold", "fail", "lost", "refund", "mint", "expire", "retry", "slow"}

ASSUME IssueAssumption == Issues # {}
ASSUME TokenAssumption == NoToken \notin Tokens
ASSUME AttemptAssumption == MaxAttempts \in Nat \ {0}
ASSUME EnvAssumption == CrashLimit \in Nat /\ Env \subseteq Happenings

VARIABLES
    order,     \* orders.payment_status
    issue,     \* issue[i]: nft_issues.status
    claim,     \* wallet_claims.status
    delivery,  \* delivery[i]: the collectible_deliveries row of a card
    event,     \* event[e]: the integration_outbox_events row
    stale,     \* stale[e]: processing_started_at is over 10 minutes old
    issued,    \* issued[e]: tokens written to the row so far
    sender,    \* sender[w]: an invocation's program counter and locals
    refundTx,  \* the refund transaction between its reads and its writes
    received,  \* events the wallet has taken
    held,      \* held[i]: the card is in the wallet
    crashes    \* number of crashes so far

rowVars == <<order, issue, claim, delivery>>
eventVars == <<event, stale, issued>>
walletVars == <<received, held>>
vars == <<rowVars, eventVars, sender, refundTx, walletVars, crashes>>

\* An event grants or revokes one card.
Events == Issues \X {"grant", "revoke"}

Row == [status: {"absent", "pending", "processing", "succeeded", "blocked", "dead"},
        token: Tokens \cup {NoToken}, attempt: Nat]
Absent == [status |-> "absent", token |-> NoToken, attempt |-> 0]

\* The outbox event a delivery points to is its grant or, later, its revoke.
Delivery == [status: {"none", "PENDING", "PROCESSING", "DELIVERED",
                      "REVOKED", "FAILED", "DEAD"},
             event: {"none", "grant", "revoke"}]
NoDelivery == [status |-> "none", event |-> "none"]

Claims == {"PENDING", "EXPIRED", "DELIVERY_PENDING", "DELIVERED",
           "REVOCATION_PENDING", "REVOKED", "MANUAL_REVIEW_REQUIRED"}
IssueStatuses == {"waiting", "processing", "issued", "failed", "cancelled"}

\* seen is the row as it was read before the claim; after tells whether the
\* order was refunded when the event was claimed; guarded and left are what the
\* last transaction read.
Busy == [pc: {"claim", "check", "block", "mark", "send",
              "record", "count", "commit", "failed"},
         event: Events, seen: Row, token: Tokens \cup {NoToken},
         after: BOOLEAN, guarded: BOOLEAN, left: BOOLEAN]
Idle == [pc |-> "idle"]

Reading == [claim: Claims, delivery: [Issues -> Delivery]]
NoRefund == [claim |-> "none"]

TypeOK ==
    /\ order \in {"paid", "refunded"}
    /\ issue \in [Issues -> IssueStatuses]
    /\ claim \in Claims
    /\ delivery \in [Issues -> Delivery]
    /\ event \in [Events -> Row]
    /\ stale \in [Events -> BOOLEAN]
    /\ issued \in [Events -> SUBSET Tokens]
    /\ sender \in [Senders -> Busy \cup {Idle}]
    /\ refundTx \in Reading \cup {NoRefund}
    /\ received \subseteq Events
    /\ held \in [Issues -> BOOLEAN]
    /\ crashes \in 0..CrashLimit

\* createWalletClaimIfEligible ran with the payment.
Init ==
    /\ order = "paid"
    /\ issue = [i \in Issues |-> "waiting"]
    /\ claim = "PENDING"
    /\ delivery = [i \in Issues |-> NoDelivery]
    /\ event = [e \in Events |-> Absent]
    /\ stale = [e \in Events |-> FALSE]
    /\ issued = [e \in Events |-> {}]
    /\ sender = [w \in Senders |-> Idle]
    /\ refundTx = NoRefund
    /\ received = {}
    /\ held = [i \in Issues |-> FALSE]
    /\ crashes = 0

-----------------------------------------------------------------------------
(* The claim *)

\* The first confirmation creates one delivery and one grant per card.
ConfirmClaim ==
    /\ order = "paid"
    /\ claim' = "DELIVERY_PENDING"
    /\ delivery' = [i \in Issues |-> [status |-> "PENDING", event |-> "grant"]]
    /\ event' = [e \in Events |->
                   IF e[2] = "grant" THEN [event[e] EXCEPT !.status = "pending"]
                                     ELSE event[e]]

\* For an order that has been refunded it revokes the claim.
RejectClaim ==
    /\ order = "refunded"
    /\ claim' = "REVOKED"
    /\ UNCHANGED <<delivery, event>>

\* The wallet's request; any other claim it is told about is left alone.
Confirm ==
    /\ claim = "PENDING"
    /\ ConfirmClaim \/ RejectClaim
    /\ UNCHANGED <<order, issue, stale, issued, sender, refundTx, walletVars, crashes>>

\* The link runs out; a look at it or a late confirmation records that.
Expire ==
    /\ "expire" \in Env
    /\ claim = "PENDING"
    /\ claim' = "EXPIRED"
    /\ UNCHANGED <<order, issue, delivery, eventVars, sender, refundTx, walletVars, crashes>>

\* isReissuableStatus: a claim that is still PENDING stays so.
Reissuable == claim = "EXPIRED"

\* The buyer asks for a new link: a compare-and-swap on all that was read.
Reissue ==
    /\ Reissuable
    /\ claim' = "PENDING"
    /\ UNCHANGED <<order, issue, delivery, eventVars, sender, refundTx, walletVars, crashes>>

\* An issue is sent to the mint provider and minted, put back or given up.
Mint(i) ==
    /\ "mint" \in Env
    /\ \/ issue[i] = "waiting" /\ issue' = [issue EXCEPT ![i] = "processing"]
       \/ issue[i] = "processing"
          /\ \E s \in {"issued", "waiting", "failed"} : issue' = [issue EXCEPT ![i] = s]
    /\ UNCHANGED <<order, claim, delivery, eventVars, sender, refundTx, walletVars, crashes>>

-----------------------------------------------------------------------------
(* The full refund: handleChargeRefunded with applyWalletClaimRefundEffects *)

RefundReads ==
    /\ "refund" \in Env
    /\ order = "paid" /\ refundTx = NoRefund
    /\ refundTx' = [claim |-> claim, delivery |-> delivery]
    /\ UNCHANGED <<rowVars, eventVars, sender, walletVars, crashes>>

\* Its first write; the statements below see it.
Cancelled == [i \in Issues |-> IF issue[i] = "waiting" THEN "cancelled" ELSE issue[i]]

\* A claim under way: cards not handed over yet are revoked and their unsent
\* grants blocked, but a delivery in PROCESSING only gets a note.
Stopped ==
    {i \in Issues : refundTx.delivery[i].status \notin {"none", "DELIVERED", "PROCESSING"}}

\* A delivered claim: cards not minted yet are taken back by an event, minted
\* ones are left to an administrator.
Revocable ==
    IF refundTx.claim = "DELIVERED"
    THEN {i \in Issues : /\ refundTx.delivery[i].status = "DELIVERED"
                         /\ issue[i] # "issued"}
    ELSE {}

ClaimAfterRefund ==
    CASE refundTx.claim \in {"PENDING", "DELIVERY_PENDING"} -> "REVOKED"
      [] refundTx.claim = "DELIVERED" ->
           IF Revocable # {} THEN "REVOCATION_PENDING" ELSE "MANUAL_REVIEW_REQUIRED"
      [] OTHER -> claim

\* enqueueOutboxEvent
Enqueued(e) ==
    IF event[e].status = "absent" THEN [event[e] EXCEPT !.status = "pending"]
                                  ELSE event[e]

RefundCommits ==
    /\ refundTx # NoRefund
    /\ \A w \in Senders : sender[w].pc # "commit"       \* their row locks
    /\ order' = "refunded"
    /\ issue' = Cancelled
    /\ claim' = ClaimAfterRefund
    /\ delivery' = [i \in Issues |->
                      IF i \in Revocable THEN [delivery[i] EXCEPT !.event = "revoke"]
                      ELSE IF refundTx.claim = "DELIVERY_PENDING" /\ i \in Stopped
                      THEN [delivery[i] EXCEPT !.status = "REVOKED"]
                      ELSE delivery[i]]
    /\ event' = [e \in Events |->
                   IF e[2] = "revoke" /\ e[1] \in Revocable THEN Enqueued(e)
                   ELSE IF /\ refundTx.claim = "DELIVERY_PENDING"
                           /\ e[2] = "grant" /\ e[1] \in Stopped
                           /\ event[e].status \in {"pending", "blocked"}
                   THEN [event[e] EXCEPT !.status = "blocked"]
                   ELSE event[e]]
    /\ refundTx' = NoRefund
    /\ UNCHANGED <<stale, issued, sender, walletVars, crashes>>

-----------------------------------------------------------------------------
(* A sender: claiming an event *)

Goto(w, p) == sender' = [sender EXCEPT ![w].pc = p]
Finish(w) == sender' = [sender EXCEPT ![w] = Idle]

\* The row is locked by a sender's last transaction.
Locked(e) ==
    \E w \in Senders : sender[w].pc \in {"count", "commit"} /\ sender[w].event = e

\* Mutation: the token is taken away and the status forgotten.
ReclaimToken ==
    /\ \E e \in Events : stale[e]
    /\ \A e \in Events : stale[e] => ~Locked(e)           \* its UPDATE waits
    /\ event' = [e \in Events |->
                   IF stale[e] THEN [event[e] EXCEPT !.token = NoToken] ELSE event[e]]
    /\ stale' = [e \in Events |-> FALSE]
    /\ UNCHANGED <<rowVars, issued, sender, refundTx, walletVars, crashes>>

\* Every dispatch first puts stale rows back.
ReclaimStale ==
    /\ \E e \in Events : stale[e]
    /\ \A e \in Events : stale[e] => ~Locked(e)           \* its UPDATE waits
    /\ event' = [e \in Events |->
                   IF stale[e] THEN [event[e] EXCEPT !.status = "pending", !.token = NoToken]
                               ELSE event[e]]
    /\ stale' = [e \in Events |-> FALSE]
    /\ UNCHANGED <<rowVars, issued, sender, refundTx, walletVars, crashes>>

\* The administrator sends a delivery again that has been given up.
Retried(e) == event[e].status = "dead" /\ "retry" \in Env

\* The dispatcher reads rows that are pending or blocked, the administrator's
\* retry also dead ones; the row is claimed later, under the status read.
Pick(w, e) ==
    /\ sender[w] = Idle
    /\ event[e].status \in {"pending", "blocked"} \/ Retried(e)
    /\ issued[e] # Tokens                                \* bound
    /\ sender' = [sender EXCEPT ![w] =
                    [pc |-> "claim", event |-> e, seen |-> event[e], token |-> NoToken,
                     after |-> FALSE, guarded |-> FALSE, left |-> FALSE]]
    /\ UNCHANGED <<rowVars, eventVars, refundTx, walletVars, crashes>>

\* Mutation: the row is claimed whatever its status has become.
UnclaimedAny(w, e) == event[e].status # "absent"

\* WHERE id = ... AND status = the status read
Unclaimed(w, e) == event[e].status = sender[w].seen.status

\* generateProcessingToken: any token never used for the event.
Fresh(e) == CHOOSE t \in Tokens : t \notin issued[e]

Claim(w) ==
    LET e == sender[w].event
    IN  /\ sender[w].pc = "claim"
        /\ \/ /\ Unclaimed(w, e)
              /\ issued[e] # Tokens                      \* bound
              /\ event' = [event EXCEPT ![e].status = "processing", ![e].token = Fresh(e)]
              /\ stale' = [stale EXCEPT ![e] = FALSE]
              /\ issued' = [issued EXCEPT ![e] = @ \cup {Fresh(e)}]
              /\ sender' = [sender EXCEPT ![w].pc = "check", ![w].token = Fresh(e),
                                          ![w].after = (order = "refunded")]
           \/ /\ ~Unclaimed(w, e)
              /\ Finish(w)
              /\ UNCHANGED eventVars
        /\ UNCHANGED <<rowVars, refundTx, walletVars, crashes>>

\* WHERE id = ... AND status = 'processing' AND processing_token = ...
Owns(w) ==
    LET e == sender[w].event
    IN  event[e].status = "processing" /\ event[e].token = sender[w].token

-----------------------------------------------------------------------------
(* A sender: before the call *)

\* The row leaves processing; its token is cleared unless it is merely held.
Settle(w, status, attempt) ==
    /\ event' = [event EXCEPT ![sender[w].event] =
                   [status |-> status, token |-> NoToken, attempt |-> attempt]]
    /\ stale' = [stale EXCEPT ![sender[w].event] = FALSE]

\* reconcileEntitlementFields found an id missing or a flag off.
Hold(w) ==
    LET e == sender[w].event
    IN  /\ "hold" \in Env
        /\ sender[w].pc = "check"
        /\ \/ /\ Owns(w)
              /\ event' = [event EXCEPT ![e].status = "blocked"]
              /\ stale' = [stale EXCEPT ![e] = FALSE]
           \/ ~Owns(w) /\ UNCHANGED <<event, stale>>
        /\ Finish(w)
        /\ UNCHANGED <<rowVars, issued, refundTx, walletVars, crashes>>

\* Mutation: the order's own status is not looked at.
GuardOnClaim == claim \in {"REVOKED", "REVOCATION_PENDING", "MANUAL_REVIEW_REQUIRED"}

\* checkDigitalCollectibleRefundGuard
Guard ==
    \/ order = "refunded"
    \/ claim \in {"REVOKED", "REVOCATION_PENDING", "MANUAL_REVIEW_REQUIRED"}

\* The delivery that points to the event, if any (findFirst by outbox_event_id).
PointsTo(i, e) == delivery[i].status # "none" /\ e = <<i, delivery[i].event>>

\* A grant whose delivery points to it is checked and marked before the call.
Check(w) ==
    LET e == sender[w].event
    IN  /\ sender[w].pc = "check"
        /\ Goto(w, IF e[2] = "grant" /\ PointsTo(e[1], e)
                   THEN IF Guard THEN "block" ELSE "mark"
                   ELSE "send")
        /\ UNCHANGED <<rowVars, eventVars, refundTx, walletVars, crashes>>

SetDelivery(i, status) == delivery' = [delivery EXCEPT ![i].status = status]

Block(w) ==
    LET e == sender[w].event
    IN  /\ sender[w].pc = "block"
        /\ \/ /\ Owns(w)
              /\ Settle(w, "blocked", event[e].attempt)
              /\ SetDelivery(e[1], "REVOKED")
           \/ ~Owns(w) /\ UNCHANGED <<event, stale, delivery>>
        /\ Finish(w)
        /\ UNCHANGED <<order, issue, claim, issued, refundTx, walletVars, crashes>>

MarkProcessing(w) ==
    LET i == sender[w].event[1]
    IN  /\ sender[w].pc = "mark"
        /\ \/ delivery[i].status = "PENDING" /\ SetDelivery(i, "PROCESSING")
           \/ delivery[i].status # "PENDING" /\ UNCHANGED delivery
        /\ Goto(w, "send")
        /\ UNCHANGED <<order, issue, claim, eventVars, refundTx, walletVars, crashes>>

-----------------------------------------------------------------------------
(* The call *)

\* The wallet takes each event once.
Taken(e) ==
    /\ received' = received \cup {e}
    /\ held' = IF e \in received THEN held ELSE [held EXCEPT ![e[1]] = (e[2] = "grant")]

\* Mutation: a call that failed counts as answered.
SendUnchecked(w) ==
    LET e == sender[w].event
    IN  /\ sender[w].pc = "send"
        /\ \/ Taken(e) /\ Goto(w, "record")
           \/ "lost" \in Env /\ Taken(e) /\ Goto(w, "failed")
           \/ "fail" \in Env /\ Goto(w, "record") /\ UNCHANGED walletVars
        /\ UNCHANGED <<rowVars, eventVars, refundTx, crashes>>

Send(w) ==
    LET e == sender[w].event
    IN  /\ sender[w].pc = "send"
        /\ \/ Taken(e) /\ Goto(w, "record")
           \/ "lost" \in Env /\ Taken(e) /\ Goto(w, "failed")
           \/ "fail" \in Env /\ Goto(w, "failed") /\ UNCHANGED walletVars
        /\ UNCHANGED <<rowVars, eventVars, refundTx, crashes>>

-----------------------------------------------------------------------------
(* A sender: recording the result *)

\* The row is locked with its first UPDATE; then the guard is read again.
Record(w) ==
    /\ sender[w].pc = "record"
    /\ \/ /\ Owns(w)
          /\ sender' = [sender EXCEPT ![w].pc = "count",
                          ![w].guarded = sender[w].event[2] = "grant" /\ Guard]
       \/ ~Owns(w) /\ Finish(w)
    /\ UNCHANGED <<rowVars, eventVars, refundTx, walletVars, crashes>>

\* The status all deliveries have to reach for the claim to follow.
Goal(type) == IF type = "grant" THEN "DELIVERED" ELSE "REVOKED"

\* The delivery is written, then the other deliveries are counted as committed.
Count(w) ==
    LET e == sender[w].event
        short == {i \in Issues \ {e[1]} : /\ delivery[i].status # "none"
                                          /\ delivery[i].status # Goal(e[2])}
    IN  /\ sender[w].pc = "count"
        /\ sender' = [sender EXCEPT ![w].pc = "commit", ![w].left = (short # {})]
        /\ UNCHANGED <<rowVars, eventVars, refundTx, walletVars, crashes>>

\* Mutation: the remaining cards are not counted.
SyncUncounted(w) ==
    LET e == sender[w].event
    IN  /\ SetDelivery(e[1], Goal(e[2]))
        /\ claim' = IF claim = IF e[2] = "grant" THEN "DELIVERY_PENDING"
                                                 ELSE "REVOCATION_PENDING"
                    THEN Goal(e[2]) ELSE claim

\* syncCollectibleDeliveryOnSend for a 2xx answer
SyncSucceeded(w) ==
    LET e == sender[w].event
    IN  /\ SetDelivery(e[1], Goal(e[2]))
        /\ claim' = IF /\ ~sender[w].left
                       /\ claim = IF e[2] = "grant" THEN "DELIVERY_PENDING"
                                                    ELSE "REVOCATION_PENDING"
                    THEN Goal(e[2]) ELSE claim

Compensated ==
    IF claim \in {"REVOKED", "MANUAL_REVIEW_REQUIRED"} THEN claim ELSE "REVOCATION_PENDING"

\* enqueueCompensatingRevoke: nothing when the delivery is REVOKED already,
\* otherwise one revoke event, to which the delivery points from now on.
Reversed(e) == PointsTo(e[1], e) /\ delivery[e[1]].status # "REVOKED"
Compensate(e) ==
    \/ /\ Reversed(e)
       /\ delivery' = [delivery EXCEPT ![e[1]].event = "revoke"]
       /\ claim' = Compensated
    \/ /\ ~Reversed(e)
       /\ UNCHANGED <<delivery, claim>>

Succeed(w) ==
    LET e == sender[w].event
        done == [status |-> "succeeded", token |-> NoToken, attempt |-> event[e].attempt]
        rev == <<e[1], "revoke">>
    IN  /\ sender[w].pc = "commit"
        /\ \/ /\ ~sender[w].guarded
              /\ event' = [event EXCEPT ![e] = done]
              /\ \/ PointsTo(e[1], e) /\ SyncSucceeded(w)
                 \/ ~PointsTo(e[1], e) /\ UNCHANGED <<delivery, claim>>
           \/ /\ sender[w].guarded
              /\ Compensate(e)
              /\ event' = [event EXCEPT ![e] = done,
                             ![rev] = IF Reversed(e) THEN Enqueued(rev) ELSE @]
        /\ stale' = [stale EXCEPT ![e] = FALSE]
        /\ Finish(w)
        /\ UNCHANGED <<order, issue, issued, refundTx, walletVars, crashes>>

NextStatus(attempt) == IF attempt >= MaxAttempts THEN "dead" ELSE "pending"

\* The attempt number comes from the row as it was read before the claim.
Failed(w) ==
    LET e == sender[w].event
        attempt == sender[w].seen.attempt + 1
    IN  /\ sender[w].pc = "failed"
        /\ \/ /\ Owns(w)
              /\ Settle(w, NextStatus(attempt), attempt)
              /\ \/ /\ PointsTo(e[1], e)
                    /\ SetDelivery(e[1], IF NextStatus(attempt) = "dead" THEN "DEAD"
                                                                         ELSE "FAILED")
                 \/ ~PointsTo(e[1], e) /\ UNCHANGED delivery
           \/ ~Owns(w) /\ UNCHANGED <<event, stale, delivery>>
        /\ Finish(w)
        /\ UNCHANGED <<order, issue, claim, issued, refundTx, walletVars, crashes>>

-----------------------------------------------------------------------------
(* Time and crashes *)

Working == {w \in Senders : sender[w] # Idle}

\* STALE_PROCESSING_MS passes; a sender is normally killed long before.
LeaseTimesOut(e) ==
    /\ event[e].status = "processing" /\ ~stale[e] /\ ~Locked(e)
    /\ "slow" \in Env \/ \A w \in Working : sender[w].event # e
    /\ stale' = [stale EXCEPT ![e] = TRUE]
    /\ UNCHANGED <<rowVars, event, issued, sender, refundTx, walletVars, crashes>>

\* A sender is killed, and an open transaction rolled back.
Crash(w) ==
    /\ sender[w] # Idle
    /\ crashes < CrashLimit
    /\ crashes' = crashes + 1
    /\ Finish(w)
    /\ UNCHANGED <<rowVars, eventVars, refundTx, walletVars>>

Step(w) ==
    \/ Claim(w) \/ Hold(w) \/ Check(w) \/ Block(w) \/ MarkProcessing(w) \/ Send(w)
    \/ Record(w) \/ Count(w) \/ Succeed(w) \/ Failed(w)

Next ==
    \/ Confirm \/ Expire \/ Reissue \/ RefundReads \/ RefundCommits \/ ReclaimStale
    \/ \E i \in Issues : Mint(i)
    \/ \E w \in Senders, e \in Events : Pick(w, e)
    \/ \E w \in Senders : Step(w) \/ Crash(w)
    \/ \E e \in Events : LeaseTimesOut(e)

Spec == Init /\ [][Next]_vars

\* The cron starts a dispatch every few minutes, which reclaims and then visits
\* every due row, oldest first; time passes; a sender that is not killed goes on.
Fairness ==
    /\ WF_vars(ReclaimStale)
    /\ \A e \in Events :
         /\ WF_vars(LeaseTimesOut(e))
         /\ SF_vars(event[e].status = "pending" /\ \E w \in Senders : Pick(w, e))
    /\ \A w \in Senders : WF_vars(Step(w))
FairSpec == Spec /\ Fairness

-----------------------------------------------------------------------------
(* Properties *)

\* A card counts as DELIVERED only when the wallet has taken its grant, and a
\* reversal exists only for a card the wallet was given: crashes, lost answers
\* and lost leases included.
DeliveredWasReceived ==
    \A i \in Issues :
       /\ delivery[i].status = "DELIVERED" => <<i, "grant">> \in received
       /\ event[<<i, "revoke">>].status # "absent" => <<i, "grant">> \in received

\* A sender that claimed a grant after the refund had committed never sends it,
\* whatever the claim's status is (checkDigitalCollectibleRefundGuard).
NoGrantAfterRefund ==
    \A w \in Senders :
       sender[w].pc \in {"mark", "send"} /\ sender[w].event[2] = "grant"
         => ~sender[w].after

\* While there is one sender at a time the claim follows its cards: it is
\* DELIVERED exactly when all of them are (until a refund), and waits for a
\* revocation only while a card is still to be taken back, or is one that was never
\* handed over: a card confirmed during the refund and stopped by its guard
\* (README, section 6).
OneSender == \A v, w \in Senders : v = w
AllDelivered == \A i \in Issues : delivery[i].status = "DELIVERED"
ClaimFollowsCards ==
    OneSender =>
      /\ order = "paid" => (claim = "DELIVERED" <=> AllDelivered)
      /\ claim = "REVOCATION_PENDING" =>
           \E i \in Issues : \/ delivery[i].status # "REVOKED"
                            \/ event[<<i, "grant">>].status # "succeeded"

\* A confirmed claim is not left hanging: its cards are all handed over, or a
\* card was given up (dead), or the order is refunded.
ClaimResolves ==
    claim = "DELIVERY_PENDING"
      ~> \/ claim = "DELIVERED" \/ order = "refunded"
         \/ \E e \in Events : event[e].status = "dead"

\* When nothing is left to be sent, the wallet holds no card of a refunded order
\* except minted ones, which an administrator deals with.
Settled ==
    /\ \A w \in Senders : sender[w] = Idle
    /\ \A e \in Events : event[e].status \notin {"pending", "processing", "dead"}
    /\ refundTx = NoRefund
RefundTakesCardsBack ==
    order = "refunded" /\ Settled
      => \A i \in Issues : held[i] => issue[i] = "issued"

\* A card that is recorded as taken back is not in the wallet when nothing is left
\* to be sent: a grant under way when its delivery was revoked is reversed after the
\* call (enqueueCompensatingRevoke).
RevokedIsTakenBack ==
    Settled => \A i \in Issues : delivery[i].status = "REVOKED" => ~held[i]

\* The outbox rows implement the leases of JobLease.
LeaseStatus(r) ==
    CASE r.status = "processing" -> "held"
      [] r.status = "succeeded" -> "done"
      [] r.status = "dead" -> "failed"
      [] OTHER -> "waiting"
LeaseHolder(r) == IF r.status = "processing" THEN r.token ELSE NoToken
Lease == INSTANCE JobLease WITH
    Jobs <- Events,
    status <- [e \in Events |-> LeaseStatus(event[e])],
    holder <- [e \in Events |-> LeaseHolder(event[e])],
    expired <- stale,
    taken <- issued
LeaseSpec == Lease!Spec

=============================================================================

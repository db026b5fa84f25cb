---------------------------- MODULE OrderRecords ----------------------------
(***************************************************************************)
(* What administrators, the refund and the mint do to the records of an    *)
(* order after it was placed: order_status, the commission with its cache  *)
(* on the order, and an NFT issue.                                         *)
(*                                                                         *)
(*   server/src/routes/admin/{orders,referrals,nftIssues}.ts               *)
(*   server/src/services/nftMintProcessing.ts, nftMintProviders/           *)
(*   server/src/services/orderFulfillment.ts (the records it creates)      *)
(*   server/src/services/stripeWebhookHandlers.ts (handleChargeRefunded)   *)
(*   server/src/services/walletVerification.ts                             *)
(*   packages/contracts/src/{order,nft}.ts, shared/statusPolicy            *)
(*                                                                         *)
(* An administrator's request reads a row, checks the transition and later *)
(* writes the row by its id; a mint or a poll does the same around calls   *)
(* to the mint provider.  Requests interleave between these steps.  The    *)
(* refund is one transaction: it locks the order's row with its first      *)
(* update and, with the next, an issue that is not in flight; the steps    *)
(* below are its first two statements and its commit.                      *)
(*                                                                         *)
(* One order, since no step relates two orders' rows; its issue is not a   *)
(* digital collectible.  Due times (back-off and hold) are abstract: an    *)
(* issue ready to be issued may be due at any moment.                      *)
(*                                                                         *)
(* Bounds: MishapLimit bounds failed calls, deadlock victims and crashes;  *)
(* Goods limits which records administrators edit by hand.                 *)
(***************************************************************************)
EXTENDS Integers, FiniteSets

CONSTANTS
    Requests,      \* concurrent requests and passes of the poll
    Goods,         \* what the order may be: referred, with an NFT, and which of
                   \* its records administrators edit
    MaxAttempts,   \* MAX_ATTEMPTS
    MishapLimit    \* bound on failures

ASSUME GoodsAssumption ==
    Goods \subseteq [referred: BOOLEAN, nft: BOOLEAN,
                     edited: SUBSET {"order", "commission", "issue"}]
ASSUME AttemptAssumption == MaxAttempts \in Nat \ {0}
ASSUME MishapAssumption == MishapLimit \in Nat

VARIABLES
    goods,       \* the order's kind
    order,       \* payment_status, order_status, commission_status (the cache)
    commission,  \* the commissions row
    issue,       \* the nft_issues row
    stuck,       \* the issue's row has not changed for ten minutes
    provider,    \* the mint provider's request for the issue
    refund,      \* the refund's transaction
    req,         \* req[r]: a request's program counter and locals
    byHand,      \* an operator has recorded the issue as issued
    contested,   \* an issue in flight was taken from the request working on it
    loose,       \* the refund left the issue open, or an old write reopened it
    mishaps

records == <<order, commission, issue, stuck>>
ghosts == <<byHand, contested, loose>>
vars == <<goods, records, provider, refund, req, ghosts, mishaps>>

OrderStatuses == {"pending", "paid", "cancelled", "refunded"}
CommissionStatuses == {"pending", "approved", "paid", "cancelled"}
IssueStatuses == {"wallet_required", "ready_to_issue", "processing", "issued",
                  "failed", "cancelled"}

\* ORDER_STATUS_TRANSITIONS, COMMISSION_STATUS_TRANSITIONS and
\* NFT_ISSUE_STATUS_TRANSITIONS.
OrderEdges == {<<"pending", "paid">>, <<"pending", "cancelled">>,
               <<"paid", "refunded">>, <<"paid", "cancelled">>}
CommissionEdges == {<<"pending", "approved">>, <<"pending", "cancelled">>,
                    <<"approved", "paid">>, <<"approved", "cancelled">>,
                    <<"approved", "pending">>}
IssueEdges ==
    {<<"wallet_required", s>> : s \in {"ready_to_issue", "issued", "cancelled"}}
    \cup {<<"ready_to_issue", s>> : s \in {"processing", "issued", "cancelled"}}
    \cup {<<"processing", s>> : s \in {"issued", "ready_to_issue", "failed"}}
    \cup {<<"failed", s>> : s \in {"ready_to_issue", "issued", "cancelled"}}

\* assertStatusTransition: setting a status again is allowed.
Allowed(edges, from, to) == from = to \/ <<from, to>> \in edges

Idle == [pc |-> "idle"]
Busy == [pc: {"status"}, to: OrderStatuses]
        \cup [pc: {"commission", "export"}, to: CommissionStatuses]
        \cup [pc: {"issue", "submit", "record", "ask", "confirm", "fail"},
              to: IssueStatuses]
        \cup [pc: {"claim"}]

TypeOK ==
    /\ goods \in Goods
    /\ order \in [pay: {"pending", "paid", "refunded"}, status: OrderStatuses,
                  commission: CommissionStatuses \cup {"none"}]
    /\ commission \in [status: CommissionStatuses \cup {"none"}, noted: BOOLEAN]
    /\ issue \in [status: IssueStatuses \cup {"none"}, wallet: BOOLEAN,
                  request: BOOLEAN, attempt: 0..MaxAttempts, noted: BOOLEAN]
    /\ stuck \in BOOLEAN
    /\ provider \in {"none", "pending", "success", "failed"}
    /\ refund \in [open: BOOLEAN, cancels: BOOLEAN]
    /\ req \in [Requests -> Busy \cup {Idle}]
    /\ byHand \in BOOLEAN /\ contested \in BOOLEAN /\ loose \in BOOLEAN
    /\ mishaps \in 0..MishapLimit

NoRefund == [open |-> FALSE, cancels |-> FALSE]

Init ==
    /\ goods \in Goods
    /\ order = [pay |-> "pending", status |-> "pending", commission |-> "none"]
    /\ commission = [status |-> "none", noted |-> FALSE]
    /\ issue = [status |-> "none", wallet |-> FALSE, request |-> FALSE,
                attempt |-> 0, noted |-> FALSE]
    /\ stuck = FALSE
    /\ provider = "none"
    /\ refund = NoRefund
    /\ req = [r \in Requests |-> Idle]
    /\ byHand = FALSE /\ contested = FALSE /\ loose = FALSE
    /\ mishaps = 0

Mishap == mishaps < MishapLimit /\ mishaps' = mishaps + 1
Finish(r) == req' = [req EXCEPT ![r] = Idle]
Goto(r, pc) == req' = [req EXCEPT ![r].pc = pc]

-----------------------------------------------------------------------------
(* Payment, wallet and refund *)

\* The payment commits; a commission at a rate of zero is born cancelled.  An
\* order that was cancelled by hand is paid all the same.
Pay ==
    /\ order.pay = "pending"
    /\ \E c \in IF goods.referred THEN {"pending", "cancelled"} ELSE {"none"},
          verified \in IF goods.nft THEN BOOLEAN ELSE {FALSE} :
          /\ order' = [pay |-> "paid", status |-> "paid", commission |-> c]
          /\ commission' = [commission EXCEPT !.status = c]
          /\ issue' = [issue EXCEPT
                         !.wallet = verified,
                         !.status = IF ~goods.nft THEN "none"
                                    ELSE IF verified THEN "ready_to_issue"
                                    ELSE "wallet_required"]
    /\ UNCHANGED <<goods, stuck, provider, refund, req, ghosts, mishaps>>

\* The refund's transaction holds the issue's row until it commits.
IssueLocked == refund.open /\ refund.cancels

\* Mutation: every issue of the buyer is made ready, whatever its status.
VerifyWalletOfAll ==
    /\ issue.status # "none" /\ ~issue.wallet /\ ~IssueLocked
    /\ issue' = [issue EXCEPT !.wallet = TRUE, !.status = "ready_to_issue"]
    /\ stuck' = FALSE
    /\ UNCHANGED <<goods, order, commission, provider, refund, req, ghosts, mishaps>>

\* verifyAndRegisterWallet: the issues that wait for a wallet become ready.
VerifyWallet ==
    /\ issue.status = "wallet_required" /\ ~IssueLocked
    /\ issue' = [issue EXCEPT !.wallet = TRUE, !.status = "ready_to_issue"]
    /\ stuck' = FALSE
    /\ UNCHANGED <<goods, order, commission, provider, refund, req, ghosts, mishaps>>

\* handleChargeRefunded, first half: the order is updated, then the issues that
\* are not in flight are cancelled.  Nothing of it is visible yet.
BeginRefund ==
    /\ order.pay = "paid" /\ ~refund.open
    /\ refund' = [open |-> TRUE,
                  cancels |-> issue.status \in {"wallet_required", "ready_to_issue"}]
    /\ UNCHANGED <<goods, records, provider, req, ghosts, mishaps>>

\* Second half and commit: an issue found in flight is noted; a commission that
\* is not paid yet is cancelled with its cache, a paid one is noted.
CommitRefund ==
    LET inFlight == ~refund.cancels /\ issue.status = "processing"
        unpaid == commission.status \in {"pending", "approved"}
    IN  /\ refund.open
        /\ issue' = [issue EXCEPT
                       !.status = IF refund.cancels THEN "cancelled" ELSE @,
                       !.noted = @ \/ inFlight]
        /\ stuck' = (stuck /\ ~refund.cancels /\ ~inFlight)
        /\ commission' = [status |-> IF unpaid THEN "cancelled" ELSE commission.status,
                          noted |-> commission.noted \/ commission.status = "paid"]
        /\ order' = [pay |-> "refunded", status |-> "refunded",
                     commission |-> IF unpaid THEN "cancelled" ELSE order.commission]
        /\ refund' = NoRefund
        /\ loose' = \/ loose
                    \/ /\ ~refund.cancels
                       /\ issue.status \in {"failed", "ready_to_issue", "wallet_required"}
        /\ UNCHANGED <<goods, provider, req, byHand, contested, mishaps>>

\* The transaction is the victim of a deadlock with the commission's, or fails;
\* Stripe delivers the event again.
AbortRefund ==
    /\ refund.open
    /\ Mishap
    /\ refund' = NoRefund
    /\ UNCHANGED <<goods, records, provider, req, ghosts>>

-----------------------------------------------------------------------------
(* Administrators *)

\* PUT /orders/:id reads the order and checks the transition ...
EditStatus(r, to) ==
    /\ req[r] = Idle
    /\ "order" \in goods.edited
    /\ Allowed(OrderEdges, order.status, to)
    /\ req' = [req EXCEPT ![r] = [pc |-> "status", to |-> to]]
    /\ UNCHANGED <<goods, records, provider, refund, ghosts, mishaps>>

\* ... and writes the order by its id.
WriteStatus(r) ==
    /\ req[r].pc = "status" /\ ~refund.open
    /\ order' = [order EXCEPT !.status = req[r].to]
    /\ Finish(r)
    /\ UNCHANGED <<goods, commission, issue, stuck, provider, refund, ghosts, mishaps>>

\* PUT /referrals/commissions/:id reads the commission and checks the transition.
EditCommission(r, to) ==
    /\ req[r] = Idle
    /\ "commission" \in goods.edited
    /\ commission.status # "none"
    /\ Allowed(CommissionEdges, commission.status, to)
    /\ req' = [req EXCEPT ![r] = [pc |-> "commission", to |-> to]]
    /\ UNCHANGED <<goods, records, provider, refund, ghosts, mishaps>>

\* GET /referrals/export.csv?mark_approved=true selects the pending commissions
\* of paid orders and approves them after the rows were written out.
Export(r) ==
    /\ req[r] = Idle
    /\ commission.status = "pending" /\ order.pay = "paid"
    /\ req' = [req EXCEPT ![r] = [pc |-> "export", to |-> "approved"]]
    /\ UNCHANGED <<goods, records, provider, refund, ghosts, mishaps>>

\* Mutation: the cache on the order is written only while it has the old status.
WriteCommissionOnce(r) ==
    /\ req[r].pc \in {"commission", "export"} /\ ~refund.open
    /\ commission' = [commission EXCEPT !.status = req[r].to]
    /\ order' = [order EXCEPT !.commission =
                   IF order.pay = "paid" THEN req[r].to ELSE @]
    /\ Finish(r)
    /\ UNCHANGED <<goods, issue, stuck, provider, refund, ghosts, mishaps>>

\* Both write the commission by its id and the order's cache, in a transaction.
\* It needs the order's row, so it waits for a refund under way.
WriteCommission(r) ==
    /\ req[r].pc \in {"commission", "export"} /\ ~refund.open
    /\ commission' = [commission EXCEPT !.status = req[r].to]
    /\ order' = [order EXCEPT !.commission = req[r].to]
    /\ Finish(r)
    /\ UNCHANGED <<goods, issue, stuck, provider, refund, ghosts, mishaps>>

\* PUT /nft-issues/:id, POST .../retry and .../hold read the issue ...
EditIssue(r, to) ==
    /\ req[r] = Idle
    /\ "issue" \in goods.edited
    /\ issue.status # "none"
    /\ \/ Allowed(IssueEdges, issue.status, to)
       \/ issue.status \in {"failed", "ready_to_issue"} /\ to = "ready_to_issue"
    /\ req' = [req EXCEPT ![r] = [pc |-> "issue", to |-> to]]
    /\ UNCHANGED <<goods, records, provider, refund, ghosts, mishaps>>

\* Some other request is at work on the issue it has claimed.
Submitting(s) == req[s].pc \in {"submit", "record"}
TakenFrom(r) == contested' = (contested \/ \E s \in Requests \ {r} : Submitting(s))

\* Every write to the issue by its id.
WriteIssue(r, new) ==
    /\ ~IssueLocked
    /\ issue' = new
    /\ stuck' = FALSE
    /\ loose' = \/ loose
                \/ /\ issue.status \in {"cancelled", "issued"}
                   /\ new.status # issue.status
    /\ TakenFrom(r)

\* ... and write it by its id.
WriteIssueStatus(r) ==
    /\ req[r].pc = "issue"
    /\ WriteIssue(r, [issue EXCEPT !.status = req[r].to])
    /\ byHand' = (byHand \/ req[r].to = "issued")
    /\ Finish(r)
    /\ UNCHANGED <<goods, order, commission, provider, refund, mishaps>>

-----------------------------------------------------------------------------
(* The mint *)

\* POST /nft-issues/:id/mint: the issue is read, ...
Mint(r) ==
    /\ req[r] = Idle
    /\ issue.status = "ready_to_issue"
    /\ req' = [req EXCEPT ![r] = [pc |-> "claim"]]
    /\ UNCHANGED <<goods, records, provider, refund, ghosts, mishaps>>

\* Mutation: the claim updates the row by its id.
ClaimById(r) ==
    /\ req[r].pc = "claim" /\ ~IssueLocked
    /\ issue' = [issue EXCEPT !.status = "processing"]
    /\ stuck' = FALSE
    /\ req' = [req EXCEPT ![r] = [pc |-> "submit", to |-> "processing"]]
    /\ UNCHANGED <<goods, order, commission, provider, refund, ghosts, mishaps>>

\* ... and claimed by a conditional update.
Claim(r) ==
    /\ req[r].pc = "claim" /\ ~IssueLocked
    /\ IF issue.status = "ready_to_issue"
       THEN /\ issue' = [issue EXCEPT !.status = "processing"]
            /\ stuck' = FALSE
            /\ req' = [req EXCEPT ![r] = [pc |-> "submit", to |-> "processing"]]
       ELSE Finish(r) /\ UNCHANGED <<issue, stuck>>
    /\ UNCHANGED <<goods, order, commission, provider, refund, ghosts, mishaps>>

\* An operator may have made an issue ready that has no wallet.
ReturnForWallet(r) ==
    /\ req[r].pc = "submit" /\ ~issue.wallet
    /\ WriteIssue(r, [issue EXCEPT !.status = "wallet_required"])
    /\ Finish(r)
    /\ UNCHANGED <<goods, order, commission, provider, refund, byHand, mishaps>>

\* The provider takes one request per issue; a failed one may be made again.
Taken == IF provider \in {"none", "failed"} THEN "pending" ELSE provider

\* Mutation: an unanswered call counts as submitted.
SubmitUnanswered(r) ==
    /\ req[r].pc = "submit" /\ issue.wallet
    /\ \/ provider' = Taken /\ Goto(r, "record") /\ UNCHANGED mishaps
       \/ provider' \in {provider, Taken} /\ Goto(r, "record") /\ Mishap
    /\ UNCHANGED <<goods, records, refund, ghosts>>

\* The metadata is uploaded and the mint requested; either call may fail, the
\* second one after the provider took it.
Submit(r) ==
    /\ req[r].pc = "submit" /\ issue.wallet
    /\ \/ provider' = Taken /\ Goto(r, "record") /\ UNCHANGED mishaps
       \/ provider' \in {provider, Taken} /\ Goto(r, "fail") /\ Mishap
    /\ UNCHANGED <<goods, records, refund, ghosts>>

\* The provider's request is recorded with the serial number, unless another
\* issue has that number: then the issue is made ready again.
Record(r) ==
    /\ req[r].pc = "record"
    /\ \/ WriteIssue(r, [issue EXCEPT !.request = TRUE]) /\ Goto(r, "ask")
       \/ /\ WriteIssue(r, [issue EXCEPT !.status = "ready_to_issue"])
          /\ Finish(r)
    /\ UNCHANGED <<goods, order, commission, provider, refund, byHand, mishaps>>

\* Mutation: an issue without a recorded request is left alone for good.
PollRequested(r) ==
    /\ req[r] = Idle
    /\ issue.status = "processing" /\ issue.request
    /\ req' = [req EXCEPT ![r] = [pc |-> "ask", to |-> "processing"]]
    /\ UNCHANGED <<goods, records, provider, refund, ghosts, mishaps>>

\* processNftMints reads the issues in flight; one without a recorded request is
\* left alone for ten minutes.
Poll(r) ==
    /\ req[r] = Idle
    /\ issue.status = "processing"
    /\ issue.request \/ stuck
    /\ req' = [req EXCEPT ![r] = [pc |-> IF issue.request THEN "ask" ELSE "fail",
                                  to |-> "processing"]]
    /\ UNCHANGED <<goods, records, provider, refund, ghosts, mishaps>>

\* getMintStatus, after the submission or by the poll.
Ask(r) ==
    /\ req[r].pc = "ask"
    /\ \/ provider = "success" /\ Goto(r, "confirm") /\ UNCHANGED mishaps
       \/ provider = "pending" /\ Finish(r) /\ UNCHANGED mishaps
       \/ provider = "failed" /\ Goto(r, "fail") /\ UNCHANGED mishaps
       \/ Goto(r, "fail") /\ Mishap
    /\ UNCHANGED <<goods, records, provider, refund, ghosts>>

\* applyMintStatus: issued, whatever the row has become.
Confirm(r) ==
    /\ req[r].pc = "confirm"
    /\ WriteIssue(r, [issue EXCEPT !.status = "issued"])
    /\ Finish(r)
    /\ UNCHANGED <<goods, order, commission, provider, refund, byHand, mishaps>>

\* handleFailure: back to ready, or failed at the limit, whatever the row has
\* become.  It reads the attempts in a statement of its own; a lost count is
\* not modelled, and a count above the limit is kept at the limit.
Fail(r) ==
    /\ req[r].pc = "fail"
    /\ LET n == issue.attempt + 1
       IN  WriteIssue(r, [issue EXCEPT
             !.status = IF n >= MaxAttempts THEN "failed" ELSE "ready_to_issue",
             !.attempt = IF n > MaxAttempts THEN @ ELSE n])
    /\ Finish(r)
    /\ UNCHANGED <<goods, order, commission, provider, refund, byHand, mishaps>>

\* The provider mints the token, or gives up.
MintSettles ==
    /\ provider = "pending"
    /\ \/ provider' = "success" /\ UNCHANGED mishaps
       \/ provider' = "failed" /\ Mishap
    /\ UNCHANGED <<goods, records, refund, req, ghosts>>

TenMinutesPass ==
    /\ issue.status = "processing" /\ ~issue.request /\ ~stuck
    /\ stuck' = TRUE
    /\ UNCHANGED <<goods, order, commission, issue, provider, refund, req, ghosts,
                   mishaps>>

Crash(r) ==
    /\ req[r] # Idle
    /\ Mishap
    /\ Finish(r)
    /\ UNCHANGED <<goods, records, provider, refund, ghosts>>

Step(r) == \/ WriteStatus(r) \/ WriteCommission(r) \/ WriteIssueStatus(r)
           \/ Claim(r) \/ ReturnForWallet(r) \/ Submit(r) \/ Record(r)
           \/ Ask(r) \/ Confirm(r) \/ Fail(r)

Next ==
    \/ Pay \/ VerifyWallet \/ BeginRefund \/ CommitRefund \/ AbortRefund
    \/ MintSettles \/ TenMinutesPass
    \/ \E r \in Requests :
       \/ \E to \in OrderStatuses : EditStatus(r, to)
       \/ \E to \in CommissionStatuses : EditCommission(r, to)
       \/ \E to \in IssueStatuses : EditIssue(r, to)
       \/ Export(r) \/ Mint(r) \/ Poll(r)
       \/ Step(r) \/ Crash(r)

Spec == Init /\ [][Next]_vars

\* Requests continue, transactions end, the provider settles what it took, time
\* passes, and the cron polls again and again.
FairSpec ==
    /\ Spec
    /\ \A r \in Requests : WF_vars(Step(r))
    /\ WF_vars(CommitRefund) /\ WF_vars(MintSettles) /\ WF_vars(TenMinutesPass)
    /\ SF_vars(\E r \in Requests : Poll(r))

-----------------------------------------------------------------------------
(* Properties *)

\* The commission status cached on the order is the commission's: their writers
\* (payment, refund, administrator, export) never leave the two apart, in
\* whatever order they commit.
CacheAgrees == order.commission = commission.status

\* No two requests submit the same issue at a time, unless a third party (an
\* operator, the poll) took the issue from the one that had claimed it.
SingleSubmitter ==
    \/ contested
    \/ \A r, s \in Requests : Submitting(r) /\ Submitting(s) => r = s

\* An issue is marked issued only if the provider minted it or an operator
\* recorded it, and carries a request only if the provider took one.
IssuedIsMinted ==
    /\ issue.status = "issued" => provider = "success" \/ byHand
    /\ issue.request => provider # "none"

\* A mint of a refunded order starts only for an issue the refund noted for the
\* operators or found open (failed, or given back between its two statements),
\* or that a write decided before the refund reopened.
RefundStopsMint ==
    [][issue.status # "processing" /\ issue'.status = "processing"
         => order.pay # "refunded" \/ issue.noted \/ loose \/ loose']_vars

\* An issue in flight is issued, returned or given up in the end: also when the
\* request that claimed it died before the provider's request was recorded.  An
\* operator who saves the row again and again can prevent it, by renewing its
\* updated_at.
MintEnds ==
    <>[][\A r \in Requests : ~WriteIssueStatus(r)]_vars
      => (issue.status = "processing" ~> issue.status # "processing")

\* The final states of the three status policies are final.  It does not hold: an
\* edit checked before a refund is written after it (README, section 6).
FinalStatesAreFinal ==
    [][/\ order.status \in {"cancelled", "refunded"} => order'.status = order.status
       /\ commission.status \in {"paid", "cancelled"}
            => commission'.status = commission.status
       /\ issue.status \in {"issued", "cancelled"} => issue'.status = issue.status]_vars

=============================================================================

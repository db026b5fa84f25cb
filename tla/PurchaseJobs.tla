---------------------------- MODULE PurchaseJobs ----------------------------
(***************************************************************************)
(* What follows a purchase at the agency hub: the linking jobs that find   *)
(* the buyer's common user id and the referral, and the provisioning jobs  *)
(* that open an agency account for a paid order and close it after a full  *)
(* refund.                                                                 *)
(*                                                                         *)
(*   server/src/services/orderLinkingJobs.ts, orderLinkingJobDispatcher.ts *)
(*   server/src/services/purchaseProvisioningJobs.ts,                      *)
(*       purchaseProvisioningDispatcher.ts                                 *)
(*   server/src/services/external{CommonUser,Referral,                     *)
(*       PurchaseProvisioning}Client.ts                                    *)
(*                                                                         *)
(* A worker is one invocation: the scheduled dispatchers, the retry of an  *)
(* administrator, or a reissue from the buyer's page.  Each database       *)
(* statement and each remote call is a step.  A dispatcher takes its batch *)
(* job by job; the model lets it pick any due job, so the job_type         *)
(* priority, the batch limit and the time budget only choose among the     *)
(* orders of work allowed here.  Due times are abstract: a job that waits  *)
(* may be due at any moment.  All orders belong to one buyer, and both     *)
(* feature flags are on.                                                   *)
(*                                                                         *)
(* A processing token is random and written once, by the claim: the model  *)
(* lets the worker that claimed the job stand for it.  A token left on a   *)
(* settled row is never compared and is dropped.                           *)
(*                                                                         *)
(* Bound: MishapLimit bounds remote failures, crashes, leases that run out *)
(* under a live worker, merges at the hub and skips, taken together.       *)
(***************************************************************************)
EXTENDS Integers, FiniteSets

CONSTANTS
    Orders,        \* the buyer's orders
    Purchases,     \* what an order may be: with a referral code, with a product
                   \* that grants agency access
    Workers,       \* concurrent invocations
    Ids,           \* common user ids of the hub
    Buyer,         \* users.id of the buyer
    None,          \* NULL
    MaxAttempts,   \* MAX_ATTEMPTS
    MishapLimit    \* bound on faults and skips

ASSUME NoneAssumption == None \notin Workers \cup Ids \cup Orders
ASSUME BuyerAssumption == Buyer \notin Orders
ASSUME AttemptAssumption == MaxAttempts \in Nat \ {0}
ASSUME MishapAssumption == MishapLimit \in Nat
ASSUME PurchaseAssumption == Purchases \subseteq [referred: BOOLEAN, offered: BOOLEAN]

VARIABLES
    row,       \* row[j]: the row of job j in its table
    stale,     \* stale[j]: processing_started_at is over 10 minutes old
    order,     \* order[o]: the order's row
    user,      \* users.common_user_id and external_identities.common_user_id
    offered,   \* the ordered product still has an agency_access_mode
    hub,       \* the id the hub resolves the buyer to
    access,    \* orders whose agency account the hub keeps open
    worker,    \* worker[w]: an invocation's program counter and locals
    contested, \* jobs whose lease was called in under a live worker
    raced,     \* orders revoked while a grant of theirs was under way
    mishaps    \* faults and skips so far

jobVars == <<row, stale>>
hubVars == <<hub, access>>
ghosts == <<contested, raced>>
vars == <<jobVars, order, user, offered, hubVars, worker, ghosts, mishaps>>

\* The job tables.  Deduplication keys make a job unique per user or order.
Resolve == <<"resolve", Buyer>>
LinkingJobs == {Resolve} \cup {"capture", "confirm"} \X Orders
ProvisioningJobs == {"provision", "revoke"} \X Orders
Jobs == LinkingJobs \cup ProvisioningJobs
Kind(j) == j[1]
OrderOf(j) == j[2]
TableOf(j) == IF j \in LinkingJobs THEN LinkingJobs ELSE ProvisioningJobs

\* "conflict" is blocked with blocked_reason common_user_id_conflict.
Blocked == {"blocked", "conflict"}
Waiting == {"pending"} \cup Blocked
Statuses == Waiting \cup {"absent", "processing", "succeeded", "dead", "skipped"}
Row == [status: Statuses, token: Workers \cup {None}, attempt: Nat,
        order: Orders \cup {None}]

ProvisioningStatuses ==
    {"not_applicable", "pending", "provisioned", "failed", "revoked"}
OrderRow == [pay: {"none", "pending", "paid", "refunded"}, referred: BOOLEAN,
             common: Ids \cup {None}, session: BOOLEAN, agents: BOOLEAN,
             access: ProvisioningStatuses]

Busy == [pc: {"claim", "load", "call", "compare", "identity", "user", "link", "store",
              "decline", "succeed", "block", "conflict", "fail", "failOrder",
              "reissue"},
         job: Jobs, from: SUBSET Statuses, seen: Nat, id: Ids \cup {None}]
Idle == [pc |-> "idle"]

\* Types; and a request that needs the buyer's common user id carries one.
TypeOK ==
    /\ row \in [Jobs -> Row]
    /\ stale \in [Jobs -> BOOLEAN]
    /\ order \in [Orders -> OrderRow]
    /\ user \in [common: Ids \cup {None}, identity: Ids \cup {None}]
    /\ offered \in BOOLEAN
    /\ hub \in Ids
    /\ access \subseteq Orders
    /\ worker \in [Workers -> Busy \cup {Idle}]
    /\ \A w \in Workers :
          worker[w].pc = "call" /\ Kind(worker[w].job) \in {"confirm", "provision"}
            => worker[w].id # None
    /\ contested \subseteq Jobs
    /\ raced \subseteq Orders
    /\ mishaps \in 0..MishapLimit

NoRow == [status |-> "absent", token |-> None, attempt |-> 0, order |-> None]
NewRow(o) == [status |-> "pending", token |-> None, attempt |-> 0, order |-> o]
NewOrder(referred) ==
    [pay |-> "none", referred |-> referred, common |-> None, session |-> FALSE,
     agents |-> FALSE, access |-> "not_applicable"]

\* The upsert of the enqueue functions: an existing row is left as it is.
Enqueued(rows, j, o) == [rows EXCEPT ![j] = IF @ = NoRow THEN NewRow(o) ELSE @]

\* A member registered before the first order; its registration enqueued the
\* resolve job without an order.  A guest buyer's account comes with the order.
Registered == Enqueued([j \in Jobs |-> NoRow], Resolve, None)

Init ==
    /\ row \in {[j \in Jobs |-> NoRow], Registered}
    /\ stale = [j \in Jobs |-> FALSE]
    /\ \E p \in Purchases : /\ order = [o \in Orders |-> NewOrder(p.referred)]
                            /\ offered = p.offered
    /\ user = [common |-> None, identity |-> None]
    /\ hub \in Ids
    /\ access = {}
    /\ worker = [w \in Workers |-> Idle]
    /\ contested = {}
    /\ raced = {}
    /\ mishaps = 0

-----------------------------------------------------------------------------
(* Orders, payments and the catalogue *)

\* createPendingOrder: the jobs are written with the order.
PlaceOrder(o) ==
    /\ order[o].pay = "none"
    /\ order' = [order EXCEPT ![o].pay = "pending"]
    /\ LET resolving == Enqueued(row, Resolve, o)
       IN  row' = IF order[o].referred
                  THEN Enqueued(resolving, <<"capture", o>>, o) ELSE resolving
    /\ UNCHANGED <<stale, user, offered, hubVars, worker, ghosts, mishaps>>

\* applyPaidOrderSideEffects: confirm the referral, and provision if some
\* product of the order grants agency access.
Pay(o) ==
    /\ order[o].pay = "pending"
    /\ order' = [order EXCEPT ![o].pay = "paid",
                              ![o].access = IF offered THEN "pending" ELSE @]
    /\ LET confirming == IF order[o].referred
                         THEN Enqueued(row, <<"confirm", o>>, o) ELSE row
       IN  row' = IF offered
                  THEN Enqueued(confirming, <<"provision", o>>, o)
                  ELSE confirming
    /\ UNCHANGED <<stale, user, offered, hubVars, worker, ghosts, mishaps>>

\* Mutation: the revocation is enqueued only for accounts that exist already.
RevokedIfProvisioned(o) ==
    IF order[o].access # "provisioned" THEN row
    ELSE Enqueued(row, <<"revoke", o>>, o)

RevokeEnqueued(o) ==
    IF order[o].access = "not_applicable" THEN row
    ELSE Enqueued(row, <<"revoke", o>>, o)

\* A full refund.
Refund(o) ==
    /\ order[o].pay = "paid"
    /\ order' = [order EXCEPT ![o].pay = "refunded"]
    /\ row' = RevokeEnqueued(o)
    /\ UNCHANGED <<stale, user, offered, hubVars, worker, ghosts, mishaps>>

\* The product form sets agency_access_mode to none.
StopOffering ==
    /\ offered
    /\ offered' = FALSE
    /\ UNCHANGED <<jobVars, order, user, hubVars, worker, ghosts, mishaps>>

\* The hub merges the buyer's accounts and answers with another id from now on.
Merge ==
    /\ mishaps < MishapLimit
    /\ mishaps' = mishaps + 1
    /\ hub' \in Ids \ {hub}
    /\ UNCHANGED <<jobVars, order, user, offered, access, worker, ghosts>>

-----------------------------------------------------------------------------
(* Taking a job *)

Goto(w, pc) == worker' = [worker EXCEPT ![w].pc = pc]
Finish(w) == worker' = [worker EXCEPT ![w] = Idle]
Holds(w, j) == /\ worker[w].pc \notin {"idle", "claim", "reissue"}
               /\ worker[w].job = j
               /\ row[j].status = "processing" /\ row[j].token = w

\* Stale processing rows go back to pending before the batch is fetched.
Released(rows, back) ==
    [j \in Jobs |-> IF j \in back
                    THEN [rows[j] EXCEPT !.status = "pending", !.token = None]
                    ELSE rows[j]]

\* Conflicts wait for an administrator; the other blocked jobs are tried again.
Due(r) == r.status \in {"pending", "blocked"}

\* A pass of processOrderLinkingJobs or processPurchaseProvisioningJobs calls in
\* the stale rows of its table, reads the due jobs and turns to one of them.
Dispatch(w, j) ==
    LET back == {k \in TableOf(j) : row[k].status = "processing" /\ stale[k]}
        rows == Released(row, back)
    IN  /\ worker[w] = Idle
        /\ Due(rows[j])
        /\ row' = rows
        /\ stale' = [k \in Jobs |-> k \notin back /\ stale[k]]
        /\ worker' = [worker EXCEPT ![w] =
                        [pc |-> "claim", job |-> j, from |-> Waiting,
                         seen |-> rows[j].attempt, id |-> None]]
        /\ contested' = contested \cup
                          {k \in back : \E v \in Workers : Holds(v, k)}
        /\ UNCHANGED <<order, user, offered, hubVars, raced, mishaps>>

\* What an administrator may have run again.
Retryable(j) == row[j].status \notin {"absent", "processing", "succeeded"}

\* retryOrderLinkingJob, retryPurchaseProvisioningJob: the row is read, and
\* claimed only while it still has the status that was read.
Retry(w, j) ==
    /\ worker[w] = Idle
    /\ Retryable(j)
    /\ worker' = [worker EXCEPT ![w] =
                    [pc |-> "claim", job |-> j,
                     from |-> IF row[j].status \in Blocked THEN Blocked
                              ELSE {row[j].status},
                     seen |-> row[j].attempt, id |-> None]]
    /\ UNCHANGED <<jobVars, order, user, offered, hubVars, ghosts, mishaps>>

\* skipOrderLinkingJob, skipPurchaseProvisioningJob.
Skippable(j) == Retryable(j) /\ row[j].status # "skipped"

Skip(j) ==
    /\ Skippable(j)
    /\ mishaps < MishapLimit
    /\ mishaps' = mishaps + 1
    /\ row' = [row EXCEPT ![j].status = "skipped"]
    /\ UNCHANGED <<stale, order, user, offered, hubVars, worker, ghosts>>

Claim(w) ==
    LET j == worker[w].job
    IN  /\ worker[w].pc = "claim"
        /\ IF row[j].status \in worker[w].from
           THEN /\ row' = [row EXCEPT ![j].status = "processing", ![j].token = w]
                /\ stale' = [stale EXCEPT ![j] = FALSE]
                /\ worker' = [worker EXCEPT ![w].pc = "load", ![w].from = {}]
           ELSE Finish(w) /\ UNCHANGED jobVars
        /\ UNCHANGED <<order, user, offered, hubVars, ghosts, mishaps>>

-----------------------------------------------------------------------------
(* Running a job: what is read before the remote call *)

Working(w, pc, kind) ==
    /\ worker[w].pc = pc
    /\ Kind(worker[w].job) = kind

\* runCommonUserResolveJob: a buyer who has an id needs no call.
LoadUser(w) ==
    /\ Working(w, "load", "resolve")
    /\ worker' = [worker EXCEPT ![w].id = user.common,
                    ![w].pc = IF user.common = None THEN "call" ELSE "link"]
    /\ UNCHANGED <<jobVars, order, user, offered, hubVars, ghosts, mishaps>>

\* runReferralCaptureJob: jobs exist only for orders with a referral code.
LoadCapture(w) ==
    /\ Working(w, "load", "capture")
    /\ Goto(w, "call")
    /\ UNCHANGED <<jobVars, order, user, offered, hubVars, ghosts, mishaps>>

\* runReferralConfirmPurchaseJob waits for the other two linking jobs.
LoadConfirm(w) ==
    LET o == order[OrderOf(worker[w].job)]
    IN  /\ Working(w, "load", "confirm")
        /\ worker' = [worker EXCEPT ![w].id = o.common,
                        ![w].pc = IF ~o.session \/ o.common = None
                                  THEN "block" ELSE "call"]
        /\ UNCHANGED <<jobVars, order, user, offered, hubVars, ghosts, mishaps>>

\* runProvisionJob with buildProvisioningRequestInput: an order that is no
\* longer paid is left alone, one without a common user id waits, one whose
\* product no longer grants access is declined.
LoadProvision(w) ==
    LET o == order[OrderOf(worker[w].job)]
    IN  /\ Working(w, "load", "provision")
        /\ worker' = [worker EXCEPT ![w].id = o.common,
                        ![w].pc = IF o.pay # "paid" THEN "succeed"
                                  ELSE IF o.common = None THEN "block"
                                  ELSE IF offered THEN "call" ELSE "decline"]
        /\ UNCHANGED <<jobVars, order, user, offered, hubVars, ghosts, mishaps>>

\* runRevokeJob: without a common user id there is nothing to close.
LoadRevoke(w) ==
    LET o == order[OrderOf(worker[w].job)]
    IN  /\ Working(w, "load", "revoke")
        /\ worker' = [worker EXCEPT ![w].id = o.common,
                        ![w].pc = IF o.common = None THEN "succeed" ELSE "call"]
        /\ UNCHANGED <<jobVars, order, user, offered, hubVars, ghosts, mishaps>>

-----------------------------------------------------------------------------
(* The remote calls *)

\* A call that fails: no 2xx, no usable body, or an answer for another user.
Failing(w) ==
    /\ mishaps < MishapLimit
    /\ mishaps' = mishaps + 1
    /\ Goto(w, "fail")

\* resolveCommonUserId.
ResolveCommonUserId(w) ==
    /\ Working(w, "call", "resolve")
    /\ \/ Failing(w)
       \/ /\ worker' = [worker EXCEPT ![w].pc = "compare", ![w].id = hub]
          /\ UNCHANGED mishaps
    /\ UNCHANGED <<jobVars, order, user, offered, hubVars, ghosts>>

\* captureReferralToken.
CaptureReferralToken(w) ==
    /\ Working(w, "call", "capture")
    /\ Failing(w) \/ (Goto(w, "store") /\ UNCHANGED mishaps)
    /\ UNCHANGED <<jobVars, order, user, offered, hubVars, ghosts>>

\* confirmReferral: the answer must name the user that was sent.
ConfirmReferral(w) ==
    /\ Working(w, "call", "confirm")
    /\ Failing(w) \/ (Goto(w, "store") /\ UNCHANGED mishaps)
    /\ UNCHANGED <<jobVars, order, user, offered, hubVars, ghosts>>

\* requestPurchaseProvisioning: the hub opens the account; the answer may be
\* lost, or the request may not arrive.
RequestPurchaseProvisioning(w) ==
    LET o == OrderOf(worker[w].job)
    IN  /\ Working(w, "call", "provision")
        /\ \/ access' = access \cup {o} /\ Goto(w, "store") /\ UNCHANGED mishaps
           \/ access' \in {access, access \cup {o}} /\ Failing(w)
        /\ UNCHANGED <<jobVars, order, user, offered, hub, ghosts>>

\* A grant for order o is past its check of the order.
Granting(o) ==
    \E w \in Workers :
       \/ /\ worker[w].pc \in {"call", "store", "decline", "fail", "failOrder"}
          /\ worker[w].job = <<"provision", o>>
       \/ worker[w].pc = "reissue" /\ OrderOf(worker[w].job) = o
Raced(o) == raced' = IF Granting(o) THEN raced \cup {o} ELSE raced

\* revokePurchaseProvisioning.
RevokePurchaseProvisioning(w) ==
    LET o == OrderOf(worker[w].job)
    IN  /\ Working(w, "call", "revoke")
        /\ \/ access' = access \ {o} /\ Goto(w, "store") /\ UNCHANGED mishaps
           \/ access' \in {access, access \ {o}} /\ Failing(w)
        /\ Raced(o)
        /\ UNCHANGED <<jobVars, order, user, offered, hub, contested>>

-----------------------------------------------------------------------------
(* What is written after the call *)

\* Mutation: the identity on record is not compared.
TrustIdentity(w) ==
    /\ worker[w].pc = "compare"
    /\ Goto(w, "identity")
    /\ UNCHANGED <<jobVars, order, user, offered, hubVars, ghosts, mishaps>>

\* The hub's answer is compared with the identity on record, if there is one.
CompareIdentity(w) ==
    /\ worker[w].pc = "compare"
    /\ Goto(w, IF user.identity \in {None, worker[w].id} THEN "identity"
               ELSE "conflict")
    /\ UNCHANGED <<jobVars, order, user, offered, hubVars, ghosts, mishaps>>

SaveIdentity(w) ==
    /\ worker[w].pc = "identity"
    /\ user' = [user EXCEPT !.identity = worker[w].id]
    /\ Goto(w, "user")
    /\ UNCHANGED <<jobVars, order, offered, hubVars, ghosts, mishaps>>

SaveUser(w) ==
    /\ worker[w].pc = "user"
    /\ user' = [user EXCEPT !.common = worker[w].id]
    /\ Goto(w, "link")
    /\ UNCHANGED <<jobVars, order, offered, hubVars, ghosts, mishaps>>

\* Only the order whose checkout created the job is linked.
LinkOrder(w) ==
    LET o == row[Resolve].order
    IN  /\ worker[w].pc = "link"
        /\ order' = IF o = None THEN order
                    ELSE [order EXCEPT ![o].common = worker[w].id]
        /\ Goto(w, "succeed")
        /\ UNCHANGED <<jobVars, user, offered, hubVars, ghosts, mishaps>>

StoreReferral(w) ==
    LET o == OrderOf(worker[w].job)
    IN  /\ worker[w].pc = "store"
        /\ \/ /\ Kind(worker[w].job) = "capture"
              /\ order' = [order EXCEPT ![o].session = TRUE]
           \/ /\ Kind(worker[w].job) = "confirm"
              /\ order' = [order EXCEPT ![o].agents = TRUE]
        /\ Goto(w, "succeed")
        /\ UNCHANGED <<jobVars, user, offered, hubVars, ghosts, mishaps>>

\* One transaction, whatever has become of the job and of the payment.  It
\* also writes the access mail to the notification outbox.
StoreProvisioned(w) ==
    LET o == OrderOf(worker[w].job)
    IN  /\ Working(w, "store", "provision")
        /\ order' = [order EXCEPT ![o].access = "provisioned"]
        /\ Goto(w, "succeed")
        /\ UNCHANGED <<jobVars, user, offered, hubVars, ghosts, mishaps>>

Decline(w) ==
    LET o == OrderOf(worker[w].job)
    IN  /\ worker[w].pc = "decline"
        /\ order' = [order EXCEPT ![o].access = "not_applicable"]
        /\ Goto(w, "succeed")
        /\ UNCHANGED <<jobVars, user, offered, hubVars, ghosts, mishaps>>

StoreRevoked(w) ==
    LET o == OrderOf(worker[w].job)
    IN  /\ Working(w, "store", "revoke")
        /\ order' = [order EXCEPT ![o].access = "revoked"]
        /\ Goto(w, "succeed")
        /\ Raced(o)
        /\ UNCHANGED <<jobVars, user, offered, hubVars, contested,
                       mishaps>>

\* reissueAgencyLoginUrl: an order whose account is open and still offered.
Reissuable(o) ==
    order[o].access = "provisioned" /\ order[o].common # None /\ offered

\* The buyer asks for a new login URL: checked when the order is read, sent
\* later; only the login URL of the order changes.
Reissue(w, o) ==
    /\ worker[w] = Idle
    /\ Reissuable(o)
    /\ worker' = [worker EXCEPT ![w] =
                    [pc |-> "reissue", job |-> <<"provision", o>>, from |-> {},
                     seen |-> 0, id |-> order[o].common]]
    /\ UNCHANGED <<jobVars, order, user, offered, hubVars, ghosts, mishaps>>

SendReissue(w) ==
    LET o == OrderOf(worker[w].job) IN
    /\ worker[w].pc = "reissue"
    /\ access' \in {access, access \cup {o}}
    /\ raced' = IF order[o].pay = "refunded" THEN raced \cup {o} ELSE raced
    /\ Finish(w)
    /\ UNCHANGED <<jobVars, order, user, offered, hub, contested,
                   mishaps>>

-----------------------------------------------------------------------------
(* Settling the job: UPDATE ... WHERE status = processing and the token *)

Settled(w, status, attempt) ==
    LET j == worker[w].job
    IN  IF Holds(w, j)
        THEN /\ row' = [row EXCEPT ![j].status = status, ![j].token = None,
                                   ![j].attempt = attempt]
             /\ stale' = [stale EXCEPT ![j] = FALSE]
        ELSE UNCHANGED jobVars

Succeed(w) ==
    /\ worker[w].pc = "succeed"
    /\ Settled(w, "succeeded", row[worker[w].job].attempt)
    /\ Finish(w)
    /\ UNCHANGED <<order, user, offered, hubVars, ghosts, mishaps>>

Block(w) ==
    /\ worker[w].pc \in {"block", "conflict"}
    /\ Settled(w, IF worker[w].pc = "block" THEN "blocked" ELSE "conflict",
               row[worker[w].job].attempt)
    /\ Finish(w)
    /\ UNCHANGED <<order, user, offered, hubVars, ghosts, mishaps>>

\* The attempts are counted from the row as it was when the worker read it.
Fail(w) ==
    LET j == worker[w].job
        n == worker[w].seen + 1
    IN  /\ worker[w].pc = "fail"
        /\ Settled(w, IF n >= MaxAttempts THEN "dead" ELSE "pending", n)
        /\ IF Kind(j) = "provision" THEN Goto(w, "failOrder") ELSE Finish(w)
        /\ UNCHANGED <<order, user, offered, hubVars, contested, raced, mishaps>>

\* markOrderProvisioningFailed: by order id, whoever owns the job by now.
MarkOrderProvisioningFailed(w) ==
    LET o == OrderOf(worker[w].job)
    IN  /\ worker[w].pc = "failOrder"
        /\ order' = [order EXCEPT ![o].access =
                       IF worker[w].seen + 1 >= MaxAttempts THEN "failed"
                       ELSE "pending"]
        /\ Finish(w)
        /\ UNCHANGED <<jobVars, user, offered, hubVars, ghosts, mishaps>>

-----------------------------------------------------------------------------
(* Time and crashes *)

LeaseTimesOut(j) ==
    /\ row[j].status = "processing" /\ ~stale[j]
    /\ stale' = [stale EXCEPT ![j] = TRUE]
    /\ IF \E w \in Workers : Holds(w, j)
       THEN mishaps < MishapLimit /\ mishaps' = mishaps + 1
       ELSE UNCHANGED mishaps
    /\ UNCHANGED <<row, order, user, offered, hubVars, worker, ghosts>>

\* The invocation is killed, or a statement outside runJob throws.
Crash(w) ==
    /\ worker[w] # Idle
    /\ mishaps < MishapLimit
    /\ mishaps' = mishaps + 1
    /\ Finish(w)
    /\ UNCHANGED <<jobVars, order, user, offered, hubVars, ghosts>>

Load(w) == LoadUser(w) \/ LoadCapture(w) \/ LoadConfirm(w) \/ LoadProvision(w)
           \/ LoadRevoke(w)
Call(w) == ResolveCommonUserId(w) \/ CaptureReferralToken(w) \/ ConfirmReferral(w)
           \/ RequestPurchaseProvisioning(w) \/ RevokePurchaseProvisioning(w)
Store(w) == CompareIdentity(w) \/ SaveIdentity(w) \/ SaveUser(w) \/ LinkOrder(w) \/ StoreReferral(w)
            \/ StoreProvisioned(w) \/ Decline(w) \/ StoreRevoked(w)
Settle(w) == Succeed(w) \/ Block(w) \/ Fail(w) \/ MarkOrderProvisioningFailed(w)
Step(w) == Claim(w) \/ Load(w) \/ Call(w) \/ Store(w) \/ Settle(w) \/ SendReissue(w)

Next ==
    \/ \E o \in Orders : PlaceOrder(o) \/ Pay(o) \/ Refund(o)
    \/ StopOffering \/ Merge
    \/ \E w \in Workers, j \in Jobs : Dispatch(w, j) \/ Retry(w, j)
    \/ \E w \in Workers, o \in Orders : Reissue(w, o)
    \/ \E w \in Workers : Step(w) \/ Crash(w)
    \/ \E j \in Jobs : Skip(j) \/ LeaseTimesOut(j)

Spec == Init /\ [][Next]_vars

-----------------------------------------------------------------------------
(* Properties *)

\* After a full refund whose revocation went through, the buyer keeps no agency
\* account and the order claims none, however often runs failed, were repeated or
\* died: unless a grant was already past its check of the payment when the
\* revocation was made, a login URL was issued anew after the refund, or the product stopped granting access in between.
RefundEndsAccess ==
    \A o \in Orders :
       LET revoke == row[<<"revoke", o>>].status
       IN  /\ order[o].pay = "refunded"
           /\ revoke \in {"absent", "succeeded"}
           /\ o \notin raced
           /\ offered
           => /\ o \notin access
              /\ order[o].access # "provisioned"

\* The common user id on record for a buyer is never replaced by another one,
\* even when the hub changes its mind and runs crash and are repeated: unless two
\* runs of the resolve job overlapped because its lease ran out under a live
\* worker.
IdentityIsKept ==
    [][Resolve \notin contested /\ user.identity # None
         => user'.identity = user.identity]_vars

\* Once the buyer's common user id is known and no resolve job is left to run,
\* every order of the buyer carries it: the linking documented for the resolve
\* job reaches the order it was enqueued for.  It does not hold for the second
\* order of a buyer whose resolve job has succeeded (README, section 6).
OrdersAreLinked ==
    \A o \in Orders :
       row[Resolve].status = "succeeded" /\ user.common # None
         /\ order[o].pay # "none"
           => order[o].common = user.common

=============================================================================

---------------------------- MODULE StripeInbox ----------------------------
(***************************************************************************)
(* The Stripe event inbox: the claim protocol that decides which request   *)
(* may run the business handler of a Stripe event, and what becomes of the *)
(* event afterwards.                                                       *)
(*                                                                         *)
(*   server/src/services/stripeEventInbox.ts  the stripe_events row        *)
(*   server/src/routes/stripeWebhook.ts       the webhook request          *)
(*   server/src/routes/admin/stripeEvents.ts  the administrator's retry    *)
(*                                                                         *)
(* A worker is one serverless invocation.  Its database statements are     *)
(* separate steps: between them only the WHERE clauses protect the row.    *)
(* Stripe redelivers an event until a delivery has been answered 2xx.  The *)
(* business handler is one transaction that commits or throws; what it     *)
(* does is the subject of OrderPayments.                                   *)
(*                                                                         *)
(* Bounds: Tokens bounds the number of claims per event (every winning     *)
(* claim writes a fresh token), CrashLimit the number of crashes.          *)
(***************************************************************************)
EXTENDS Integers, FiniteSets

CONSTANTS
    Events,        \* Stripe event ids
    Workers,       \* concurrent invocations
    Tokens,        \* processing tokens
    Hashes,        \* payload digests
    NoToken,       \* the NULL of processing_token
    LegacyHash,    \* LEGACY_UNKNOWN_HASH of the rows migrated as succeeded
    MaxAttempts,   \* MAX_ATTEMPTS_BEFORE_TERMINAL
    CrashLimit     \* bound on the invocations killed before they answer

ASSUME TokenAssumption == NoToken \notin Tokens
ASSUME HashAssumption == LegacyHash \notin Hashes
ASSUME AttemptAssumption == MaxAttempts \in Nat \ {0}
ASSUME CrashAssumption == CrashLimit \in Nat

VARIABLES
    row,       \* row[e]: the stripe_events row of event e
    stale,     \* stale[e]: processing_started_at is over 5 minutes old
    issued,    \* issued[e]: tokens written to the row so far
    owed,      \* owed[e]: Stripe has had no 2xx for e and delivers again
    worker,    \* worker[w]: an invocation's program counter and locals
    applied,   \* applied[e]: a handler transaction for e has committed
    crashes    \* number of crashes so far

vars == <<row, stale, issued, owed, worker, applied, crashes>>

Statuses == {"absent", "processing", "succeeded",
             "failed_retryable", "failed_terminal"}

Row == [status: Statuses, token: Tokens \cup {NoToken}, attempt: Nat,
        hash: Hashes \cup {LegacyHash}]

\* A row not inserted yet, and one the migration to the inbox backfilled.
Absent == [status |-> "absent", token |-> NoToken, attempt |-> 0,
           hash |-> LegacyHash]
Legacy == [status |-> "succeeded", token |-> NoToken, attempt |-> 0,
           hash |-> LegacyHash]

\* insert, read, reclaim: the statements of claimStripeEventForProcessing
\* (reclaim stands for both of its updateMany); manual: the updateMany of
\* claimStripeEventForManualRetry; run: the handler; mark, check, fail: the
\* statements of markStripeEventSucceeded and markStripeEventFailed.
Busy == [pc: {"insert", "read", "reclaim", "manual", "run",
              "mark", "check", "fail"},
         event: Events, hash: Hashes \cup {LegacyHash}, webhook: BOOLEAN,
         token: Tokens \cup {NoToken}, seen: Row]
Idle == [pc |-> "idle"]

TypeOK ==
    /\ row \in [Events -> Row]
    /\ stale \in [Events -> BOOLEAN]
    /\ issued \in [Events -> SUBSET Tokens]
    /\ owed \in [Events -> BOOLEAN]
    /\ worker \in [Workers -> Busy \cup {Idle}]
    /\ applied \in [Events -> BOOLEAN]
    /\ crashes \in 0..CrashLimit

Init ==
    /\ row \in [Events -> {Absent, Legacy}]
    /\ stale = [e \in Events |-> FALSE]
    /\ issued = [e \in Events |-> {}]
    /\ owed = [e \in Events |-> TRUE]
    /\ worker = [w \in Workers |-> Idle]
    /\ applied = [e \in Events |-> FALSE]
    /\ crashes = 0

-----------------------------------------------------------------------------
(* Building blocks *)

\* The invocation continues at pc p, keeping its locals.
Goto(w, p) == worker' = [worker EXCEPT ![w].pc = p]

\* The invocation ends.  A 2xx may be lost on the way back to Stripe.
Finish(w) == worker' = [worker EXCEPT ![w] = Idle]
Answer2xx(w) ==
    /\ Finish(w)
    /\ \E reached \in BOOLEAN :
         owed' = [owed EXCEPT ![worker[w].event] =
                    @ /\ ~(worker[w].webhook /\ reached)]
AnswerError(w) == Finish(w) /\ UNCHANGED owed

\* A claim writes a fresh token: the row is processing, its clock restarts, and
\* the invocation that wrote the token goes on to the handler.
Grant(w, e, t, newRow) ==
    /\ t \in Tokens \ issued[e]
    /\ row' = [row EXCEPT ![e] = newRow]
    /\ stale' = [stale EXCEPT ![e] = FALSE]
    /\ issued' = [issued EXCEPT ![e] = @ \cup {t}]
    /\ worker' = [worker EXCEPT ![w].pc = "run", ![w].token = t,
                                ![w].seen = Absent]
    /\ UNCHANGED <<owed, applied, crashes>>

Claimed(r, t) ==
    [r EXCEPT !.status = "processing", !.token = t, !.attempt = @ + 1]

-----------------------------------------------------------------------------
(* The webhook request *)

\* Stripe delivers e; the signature is verified and the body is hashed.
Deliver(w, e, h) ==
    /\ worker[w] = Idle
    /\ owed[e]
    /\ worker' = [worker EXCEPT ![w] =
                    [pc |-> "insert", event |-> e, hash |-> h,
                     webhook |-> TRUE, token |-> NoToken, seen |-> Absent]]
    /\ UNCHANGED <<row, stale, issued, owed, applied, crashes>>

\* Mutation: the event counts as processed as soon as it is inserted.
InsertAsProcessed(w) ==
    LET e == worker[w].event
    IN  /\ worker[w].pc = "insert"
        /\ \/ /\ row[e].status = "absent"
              /\ \E t \in Tokens :
                   Grant(w, e, t, [status |-> "succeeded", token |-> t,
                                   attempt |-> 1, hash |-> worker[w].hash])
           \/ /\ row[e].status # "absent"
              /\ Goto(w, "read")
              /\ UNCHANGED <<row, stale, issued, owed, applied, crashes>>

\* INSERT with attempt 1; a unique violation (P2002) leads to the read.
Insert(w) ==
    LET e == worker[w].event
    IN  /\ worker[w].pc = "insert"
        /\ \/ /\ row[e].status = "absent"
              /\ \E t \in Tokens :
                   Grant(w, e, t, [status |-> "processing", token |-> t,
                                   attempt |-> 1, hash |-> worker[w].hash])
           \/ /\ row[e].status # "absent"
              /\ Goto(w, "read")
              /\ UNCHANGED <<row, stale, issued, owed, applied, crashes>>

\* What the row read tells the request to do.
Outcome(r, h, isStale) ==
    CASE r.status = "succeeded" /\ r.hash = LegacyHash -> "already_succeeded"
      [] r.hash # h -> "payload_mismatch"
      [] r.status \in {"succeeded", "failed_terminal"} -> "settled"
      [] r.status = "processing" /\ ~isStale -> "in_progress"
      [] OTHER -> "claim"

Read(w) ==
    LET e == worker[w].event
        outcome == Outcome(row[e], worker[w].hash, stale[e])
    IN  /\ worker[w].pc = "read"
        /\ \/ /\ outcome = "claim"
              /\ worker' = [worker EXCEPT ![w].pc = "reclaim",
                                          ![w].seen = row[e]]
              /\ UNCHANGED owed
           \/ /\ outcome = "payload_mismatch"     \* 409
              /\ AnswerError(w)
           \/ /\ outcome \in {"already_succeeded", "settled", "in_progress"}
              /\ Answer2xx(w)
        /\ UNCHANGED <<row, stale, issued, applied, crashes>>

\* Mutation: the compare-and-swap looks at the status alone.
CasOnStatus(seen, r) == r.status = seen.status

\* The compare-and-swap matches: a failed_retryable row by its status, a stale
\* processing row also by the token (and start time) that was read.
CasMatches(seen, r) ==
    /\ r.status = seen.status
    /\ seen.status = "processing" => r.token = seen.token

Reclaim(w) ==
    LET e == worker[w].event
    IN  /\ worker[w].pc = "reclaim"
        /\ \/ /\ CasMatches(worker[w].seen, row[e])
              /\ \E t \in Tokens : Grant(w, e, t, Claimed(row[e], t))
           \/ /\ ~CasMatches(worker[w].seen, row[e])      \* in_progress
              /\ Answer2xx(w)
              /\ UNCHANGED <<row, stale, issued, applied, crashes>>

-----------------------------------------------------------------------------
(* The handler and the bookkeeping after it *)

\* processStripeEvent commits its transaction, or throws.
Run(w) ==
    LET e == worker[w].event
    IN  /\ worker[w].pc = "run"
        /\ \/ /\ applied' = [applied EXCEPT ![e] = TRUE]
              /\ Goto(w, "mark")
           \/ /\ Goto(w, "check")
              /\ UNCHANGED applied
        /\ UNCHANGED <<row, stale, issued, owed, crashes>>

\* The row is still processing under this invocation's token.
Owns(w, r) == r.status = "processing" /\ r.token = worker[w].token

Settled(e, status) ==
    /\ row' = [row EXCEPT ![e].status = status]
    /\ stale' = [stale EXCEPT ![e] = FALSE]

\* Mutation: a throwing UPDATE is not caught.
MarkUncaught(w) ==
    LET e == worker[w].event
    IN  /\ worker[w].pc = "mark"
        /\ \/ /\ \/ Owns(w, row[e]) /\ Settled(e, "succeeded")
                 \/ ~Owns(w, row[e]) /\ UNCHANGED <<row, stale>>
              /\ Answer2xx(w)
           \/ /\ AnswerError(w)
              /\ UNCHANGED <<row, stale>>
        /\ UNCHANGED <<issued, applied, crashes>>

\* markStripeEventSucceeded: updates nothing when the lease was lost, and the
\* request answers 200 all the same.  If the statement throws, the catch block
\* treats the event as failed.
Mark(w) ==
    LET e == worker[w].event
    IN  /\ worker[w].pc = "mark"
        /\ \/ /\ \/ Owns(w, row[e]) /\ Settled(e, "succeeded")
                 \/ ~Owns(w, row[e]) /\ UNCHANGED <<row, stale>>
              /\ Answer2xx(w)
           \/ /\ Goto(w, "check")
              /\ UNCHANGED <<row, stale, owed>>
        /\ UNCHANGED <<issued, applied, crashes>>

\* markStripeEventFailed reads the row first; without the lease it returns.
CheckOwnership(w) ==
    LET e == worker[w].event
    IN  /\ worker[w].pc = "check"
        /\ \/ /\ Owns(w, row[e])
              /\ worker' = [worker EXCEPT ![w].pc = "fail",
                                          ![w].seen = row[e]]
              /\ UNCHANGED owed
           \/ ~Owns(w, row[e]) /\ AnswerError(w)
        /\ UNCHANGED <<row, stale, issued, applied, crashes>>

FailureStatus(attempt) ==
    IF attempt >= MaxAttempts THEN "failed_terminal" ELSE "failed_retryable"

Fail(w) ==
    LET e == worker[w].event
    IN  /\ worker[w].pc = "fail"
        /\ \/ /\ Owns(w, row[e])
              /\ Settled(e, FailureStatus(worker[w].seen.attempt))
           \/ ~Owns(w, row[e]) /\ UNCHANGED <<row, stale>>
        /\ AnswerError(w)
        /\ UNCHANGED <<issued, applied, crashes>>

-----------------------------------------------------------------------------
(* The administrator's retry *)

ManuallyRetryable == {"failed_retryable", "failed_terminal"}

\* POST /stripe-events/:id/retry reads the row, then fetches the event from
\* Stripe (an await that may fail) before it claims.
ManualRetry(w, e) ==
    /\ worker[w] = Idle
    /\ row[e].status \in ManuallyRetryable
    /\ worker' = [worker EXCEPT ![w] =
                    [pc |-> "manual", event |-> e, hash |-> row[e].hash,
                     webhook |-> FALSE, token |-> NoToken, seen |-> Absent]]
    /\ UNCHANGED <<row, stale, issued, owed, applied, crashes>>

ManualClaim(w) ==
    LET e == worker[w].event
    IN  /\ worker[w].pc = "manual"
        /\ \/ /\ row[e].status \in ManuallyRetryable
              /\ \E t \in Tokens : Grant(w, e, t, Claimed(row[e], t))
           \/ /\ AnswerError(w)         \* 409 when taken, 502 from Stripe
              /\ UNCHANGED <<row, stale, issued, applied, crashes>>

-----------------------------------------------------------------------------
(* Time and crashes *)

\* STALE_PROCESSING_MS passes while the row is processing.
LeaseTimesOut(e) ==
    /\ row[e].status = "processing" /\ ~stale[e]
    /\ stale' = [stale EXCEPT ![e] = TRUE]
    /\ UNCHANGED <<row, issued, owed, worker, applied, crashes>>

\* The platform kills the invocation, or a statement outside the handler's try
\* block throws: nothing more is written and Stripe gets no 2xx.
Crash(w) ==
    /\ worker[w] # Idle
    /\ crashes < CrashLimit
    /\ crashes' = crashes + 1
    /\ Finish(w)
    /\ UNCHANGED <<row, stale, issued, owed, applied>>

Step(w) == \/ Insert(w) \/ Read(w) \/ Reclaim(w) \/ Run(w) \/ Mark(w)
           \/ CheckOwnership(w) \/ Fail(w) \/ ManualClaim(w)

Next ==
    \/ \E w \in Workers, e \in Events, h \in Hashes : Deliver(w, e, h)
    \/ \E w \in Workers, e \in Events : ManualRetry(w, e)
    \/ \E w \in Workers : Step(w) \/ Crash(w)
    \/ \E e \in Events : LeaseTimesOut(e)

Spec == Init /\ [][Next]_vars

\* A running invocation keeps executing; Stripe and administrators owe nothing.
FairSpec == Spec /\ \A w \in Workers : WF_vars(Step(w))

-----------------------------------------------------------------------------
(* Properties *)

\* Only one invocation at a time can write the outcome of an event: two never
\* hold the current token of a processing row (the tokens written by
\* claimStripeEventForProcessing and claimStripeEventForManualRetry).
Owner(w, e) ==
    worker[w] # Idle /\ worker[w].event = e /\ Owns(w, row[e])
SingleOwner ==
    \A w1, w2 \in Workers, e \in Events :
       Owner(w1, e) /\ Owner(w2, e) => w1 = w2

\* An event is recorded as succeeded only after a handler transaction for it
\* has committed: the defect of the first implementation, which counted the
\* INSERT as success, cannot come back through any interleaving.
SucceededMeansApplied ==
    \A e \in Events :
       row[e].status = "succeeded" /\ row[e].hash # LegacyHash => applied[e]

\* A processing row is settled only by the invocation that owns it, and as
\* succeeded only after its own handler run: a slow invocation that lost its
\* lease never overwrites the result of the one that took over.
SettledByOwner ==
    [][\A e \in Events :
         row[e].status = "processing" /\ row'[e].status # "processing"
           => \E w \in Workers :
                /\ worker[w] # Idle
                /\ worker[w].event = e
                /\ worker[w].token = row[e].token
                /\ worker[w].pc = IF row'[e].status = "succeeded"
                                  THEN "mark" ELSE "fail"]_vars

\* As long as no invocation has crashed: once Stripe has stopped delivering an
\* event and no invocation works on it, the event has succeeded or an
\* administrator can retry it.  (One crash is enough to break this: see the
\* README, section 6.)
Abandoned(e) ==
    ~owed[e] /\ \A w \in Workers : worker[w] # Idle => worker[w].event # e
AbandonedIsRecoverable ==
    crashes = 0 =>
       \A e \in Events :
          Abandoned(e) => row[e].status \in {"succeeded"} \cup ManuallyRetryable

\* A processing row is settled in the end, unless an invocation crashes.
ProcessingEnds ==
    \A e \in Events :
       row[e].status = "processing" ~>
          row[e].status # "processing" \/ crashes > 0

\* The rows implement the leases of JobLease: a lease is taken over only after
\* it has expired, tokens are never reused, success is final.
LeaseStatus(r) ==
    CASE r.status = "absent" -> "waiting"
      [] r.status = "processing" -> "held"
      [] r.status = "succeeded" -> "done"
      [] OTHER -> "failed"
LeaseHolder(r) == IF r.status = "processing" THEN r.token ELSE NoToken
Lease == INSTANCE JobLease WITH
    Jobs <- Events,
    status <- [e \in Events |-> LeaseStatus(row[e])],
    holder <- [e \in Events |-> LeaseHolder(row[e])],
    expired <- stale,
    taken <- issued
LeaseSpec == Lease!Spec

=============================================================================

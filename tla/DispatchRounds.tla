---------------------------- MODULE DispatchRounds ----------------------------
(***************************************************************************)
(* Which rows of a job table a dispatcher's round works on, and which ones *)
(* it leaves for another round.                                            *)
(*                                                                         *)
(*   server/src/services/integrationOutboxDispatcher.ts (outbox)           *)
(*   server/src/services/orderLinkingJobDispatcher.ts (linking)            *)
(*   server/src/services/purchaseProvisioningDispatcher.ts (provisioning)  *)
(*   server/src/modules/notifications/ (notification)                      *)
(*   server/src/routes/internalCron.ts                                     *)
(*                                                                         *)
(* A round puts abandoned rows back, lists the rows it will visit, and     *)
(* takes them one after the other until its time is up.  Rounds overlap:   *)
(* the cron starts them, and a purchase may start one of its own.  Which   *)
(* worker owns a row, and what its work does, is in the modules of the     *)
(* four tables; here a row is taken, worked on and settled.                *)
(*                                                                         *)
(* Rows are numbered in the order they are created.  Bounds: a scope says  *)
(* which table it is, how many rows it has, how often calls fail and       *)
(* rounds die.                                                             *)
(***************************************************************************)
EXTENDS Integers, FiniteSets

CONSTANTS
    Rounds,        \* invocations that may overlap
    Scopes,        \* what may happen
    BatchLimit,    \* BATCH_LIMIT, getBatchLimit()
    LaneLimit,     \* PER_DESTINATION_BATCH_LIMIT
    MaxAttempts    \* MAX_ATTEMPTS

VARIABLES
    scope,     \* the scope of this behaviour
    row,       \* the rows of the table
    round,     \* round[k]: a round's program counter and locals
    stale,     \* abandoned rows held for STALE_PROCESSING_MS
    met,       \* rows whose required ids are known by now
    mishaps    \* failed calls and rounds that died

roundVars == <<scope, row, round, stale, met, mishaps>>

\* What a scope fixes: the table; the rounds that may overlap; each row's lane (its
\* destination, or the priority of its job type); the rows whose ids come late; and those that may
\* become hopeless, to be blocked for ever (the rule disabled, the claim refunded).
Rows == DOMAIN scope.lane
Hopeless == scope.never

\* The tables whose rounds are modelled.
Queues == {"outbox", "linking", "provisioning", "notification"}
QueuesAssumption == \A t \in Scopes : t.queue \in Queues

Statuses == {"absent", "pending", "blocked", "processing", "succeeded", "dead"}
Idle == [pc |-> "idle"]
Working == {k \in Rounds : round[k].pc = "work"}
Looping == {k \in Rounds : round[k].pc = "loop"}

TypeOK ==
    /\ scope \in Scopes
    /\ row \in [Rows -> [status: Statuses, attempts: 0 .. MaxAttempts + scope.mishaps,
                         due: BOOLEAN]]
    /\ stale \subseteq Rows /\ met \subseteq Rows
    /\ mishaps \in 0 .. scope.mishaps
    /\ \A k \in Rounds :
         /\ round[k].pc \in {"idle", "list", "loop", "work"}
         /\ k \in Looping \cup Working => DOMAIN round[k].todo \subseteq Rows

Init ==
    /\ scope \in Scopes
    /\ row = [r \in Rows |-> [status |-> "absent", attempts |-> 0, due |-> TRUE]]
    /\ round = [k \in Rounds |-> Idle]
    /\ stale = {}
    /\ met = Rows \ scope.late
    /\ mishaps = 0

-----------------------------------------------------------------------------
(* Which rows a round visits *)

\* Mutation: a blocked row is not looked at again.
WaitingPending == {"pending"}

\* A notification is never blocked; the other tables look at blocked rows anew
\* in every round.
Waiting == IF scope.queue = "notification" THEN {"pending"} ELSE {"pending", "blocked"}

\* Mutation: a row in backoff is listed as well.
CandidatesAny == {r \in Rows : row[r].status \in Waiting}

Candidates == {r \in Rows : row[r].status \in Waiting /\ row[r].due}

\* The n oldest rows of S.
Oldest(S, n) == {r \in S : Cardinality({s \in S : s < r}) < n}

\* Linking jobs go by the priority of their type, then by age.
Before(r, s) ==
    \/ scope.queue = "linking" /\ scope.lane[r] < scope.lane[s]
    \/ (scope.queue = "linking" => scope.lane[r] = scope.lane[s]) /\ r < s

\* Ten rounds' worth of rows are read, and the oldest of each destination kept.
OutboxBatch ==
    LET read == Oldest(Candidates, 10 * BatchLimit)
        Lane(r) == {s \in read : scope.lane[s] = scope.lane[r]}
    IN  Oldest({r \in read : r \in Oldest(Lane(r), LaneLimit)}, BatchLimit)

LinkingBatch ==
    {r \in Candidates : Cardinality({s \in Candidates : Before(s, r)}) < BatchLimit}

ProvisioningBatch == Oldest(Candidates, BatchLimit)

\* claimOne looks as far ahead as a round may claim (CLAIM_LOOKAHEAD).
Lookahead == Oldest(Candidates, BatchLimit)

Batch ==
    CASE scope.queue = "outbox" -> OutboxBatch
      [] scope.queue = "linking" -> LinkingBatch
      [] scope.queue = "provisioning" -> ProvisioningBatch
      [] scope.queue = "notification" -> Lookahead

-----------------------------------------------------------------------------
(* Rounds *)

\* Rows that nobody works on any more: their round died.
Abandoned == {r \in Rows : row[r].status = "processing"
                             /\ \A k \in Working : round[k].row # r}

\* The rows that have been held for too long are put back.
PutBack == [r \in Rows |-> IF r \in stale THEN [row[r] EXCEPT !.status = "pending"] ELSE row[r]]

\* The cron calls the dispatcher of the table, whose round begins with that.
Reclaim(k) ==
    /\ k \in scope.rounds /\ round[k] = Idle
    /\ row' = PutBack
    /\ stale' = {}
    /\ round' = [round EXCEPT ![k] = [pc |-> "list", claimed |-> 0, overtaken |-> {}]]
    /\ UNCHANGED <<scope, met, mishaps>>

\* What the round goes by is each row as it was listed.
List(k) ==
    /\ round[k].pc = "list"
    /\ round' = [round EXCEPT ![k] =
         IF Batch = {} THEN Idle
         ELSE [pc |-> "loop", todo |-> [r \in Batch |-> row[r]],
               claimed |-> round[k].claimed, overtaken |-> {}]]
    /\ UNCHANGED <<scope, row, stale, met, mishaps>>

Without(todo, r) == [s \in DOMAIN todo \ {r} |-> todo[s]]

\* The outbox compares the status with the one listed; the others only ask that
\* the row is still waiting.
Takeable(k, r) ==
    IF scope.queue = "outbox" THEN row[r].status = round[k].todo[r].status
                              ELSE row[r].status \in Waiting

\* The next row is taken, or skipped when another round has been quicker.  A
\* notification's attempt counts from the start.
Claim(k) ==
    /\ k \in Looping
    /\ \E r \in DOMAIN round[k].todo :
         /\ \A s \in DOMAIN round[k].todo : s = r \/ Before(r, s)
         /\ \/ /\ Takeable(k, r)
               /\ row' = [row EXCEPT ![r].status = "processing",
                            ![r].attempts = IF scope.queue = "notification" THEN @ + 1 ELSE @]
               /\ round' = [round EXCEPT ![k] =
                    [pc |-> "work", row |-> r, attempts |-> @.todo[r].attempts,
                     todo |-> Without(@.todo, r), claimed |-> @.claimed + 1,
                     overtaken |-> @.overtaken]]
            \/ /\ ~Takeable(k, r)
               /\ round' = [round EXCEPT ![k] =
                    IF DOMAIN round[k].todo = {r} THEN Idle
                    ELSE [round[k] EXCEPT !.todo = Without(@, r)]]
               /\ UNCHANGED row
    /\ UNCHANGED <<scope, stale, met, mishaps>>

\* The round goes on, until its rows or its time (getTimeBudgetMs) are used up;
\* a round of notifications looks again for each.
Proceed(k, timeIsUp) ==
    LET rest == round[k].todo
    IN  CASE timeIsUp -> Idle
          [] scope.queue = "notification" /\ round[k].claimed < BatchLimit ->
               [pc |-> "list", claimed |-> round[k].claimed, overtaken |-> {}]
          [] scope.queue # "notification" /\ DOMAIN rest # {} ->
               [pc |-> "loop", todo |-> rest, claimed |-> round[k].claimed,
                overtaken |-> round[k].overtaken]
          [] OTHER -> Idle

\* The row is settled, and every other round that has listed it is overtaken.
SettleRow(k, new, timeIsUp) ==
    LET r == round[k].row
    IN  /\ row' = [row EXCEPT ![r] = new]
        /\ round' = [j \in Rounds |->
             IF j = k THEN Proceed(k, timeIsUp)
             ELSE IF j \in Looping \cup Working
               THEN [round[j] EXCEPT !.overtaken = @ \cup {r}]
               ELSE round[j]]
        /\ UNCHANGED <<scope, stale, met>>

\* A required id is missing: no attempt is made, none is counted.
Block(k) ==
    /\ k \in Working
    /\ scope.queue # "notification" /\ round[k].row \notin met
    /\ SettleRow(k, [row[round[k].row] EXCEPT !.status = "blocked"], FALSE)
    /\ UNCHANGED mishaps

Ready(k) == k \in Working /\ (scope.queue = "notification" \/ round[k].row \in met)

\* A call may take what is left of the round's time.
Succeed(k) ==
    /\ Ready(k)
    /\ \E timeIsUp \in BOOLEAN :
         SettleRow(k, [row[round[k].row] EXCEPT !.status = "succeeded"], timeIsUp)
    /\ UNCHANGED mishaps

\* The attempt after the one that was listed; backoff sets next_attempt_at.
Fail(k) ==
    LET r == round[k].row
        attempt == round[k].attempts + 1
        tried == IF scope.queue = "notification" THEN row[r]
                                                 ELSE [row[r] EXCEPT !.attempts = attempt]
    IN  /\ Ready(k)
        /\ mishaps < scope.mishaps
        /\ \E timeIsUp \in BOOLEAN :
             SettleRow(k, IF attempt >= MaxAttempts
                            THEN [tried EXCEPT !.status = "dead"]
                            ELSE [tried EXCEPT !.status = "pending", !.due = FALSE],
                       timeIsUp)
        /\ mishaps' = mishaps + 1

\* The platform kills the round; what it held stays in processing.
Die(k) ==
    /\ round[k] # Idle
    /\ mishaps < scope.mishaps
    /\ mishaps' = mishaps + 1
    /\ round' = [round EXCEPT ![k] = Idle]
    /\ UNCHANGED <<scope, row, stale, met>>

-----------------------------------------------------------------------------
(* What happens meanwhile *)

\* Rows are created in order.
Enqueue(r) ==
    /\ row[r].status = "absent"
    /\ \A s \in Rows : s < r => row[s].status # "absent"
    /\ row' = [row EXCEPT ![r].status = "pending"]
    /\ UNCHANGED <<scope, round, stale, met, mishaps>>

LeaseTimesOut(r) ==
    /\ r \in Abandoned \ stale
    /\ stale' = stale \cup {r}
    /\ UNCHANGED <<scope, row, round, met, mishaps>>

BackoffPasses(r) ==
    /\ ~row[r].due
    /\ row' = [row EXCEPT ![r].due = TRUE]
    /\ UNCHANGED <<scope, round, stale, met, mishaps>>

\* The ids a row waits for become known.
IdsResolve(r) ==
    /\ r \in scope.late \ met
    /\ met' = met \cup {r}
    /\ UNCHANGED <<scope, row, round, stale, mishaps>>

\* The rule of a row is disabled, or its order refunded.
LosesItsRule(r) ==
    /\ r \in Hopeless \cap met
    /\ met' = met \ {r}
    /\ UNCHANGED <<scope, row, round, stale, mishaps>>

Step(k) == List(k) \/ Claim(k) \/ Block(k) \/ Succeed(k) \/ Fail(k)

Next ==
    \/ \E k \in Rounds : Reclaim(k) \/ Step(k) \/ Die(k)
    \/ \E r \in Rows :
         Enqueue(r) \/ LeaseTimesOut(r) \/ BackoffPasses(r) \/ IdsResolve(r)
         \/ LosesItsRule(r)

Spec == Init /\ [][Next]_roundVars

\* The cron starts rounds for ever; a round that is not killed goes on; leases
\* and backoffs run out and ids arrive.
Fairness ==
    /\ \A k \in Rounds : WF_roundVars(Reclaim(k)) /\ WF_roundVars(Step(k))
    /\ \A r \in Rows :
         /\ WF_roundVars(LeaseTimesOut(r)) /\ WF_roundVars(BackoffPasses(r))
         /\ WF_roundVars(IdsResolve(r))

-----------------------------------------------------------------------------
(* Properties *)

\* A row is taken during its backoff only by a round that had listed it before
\* another round worked on it.
TakenInBackoff(r) == ~row[r].due /\ row[r].status # "processing" /\ row'[r].status = "processing"
BackoffKeptStep ==
    \A r \in Rows : TakenInBackoff(r) =>
       \E k \in Rounds : k \in Looping /\ r \in round[k].overtaken /\ round'[k].pc = "work"
                           /\ round'[k].row = r

\* A row whose ids are known, and stay known, is finished in the end.
Finished(r) == r \in Rows => row[r].status \in {"succeeded", "dead"}
ReadyRow(r) == r \in Rows /\ row[r].status # "absent" /\ r \in met \ Hopeless
ReadyRowFinishes(r) == ReadyRow(r) ~> Finished(r)

\* A blocked row whose ids have become known is sent (or given up) in the end.
BlockedRowResumes(r) == (ReadyRow(r) /\ row[r].status = "blocked") ~> Finished(r)
=============================================================================

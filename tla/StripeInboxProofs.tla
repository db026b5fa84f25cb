------------------------- MODULE StripeInboxProofs -------------------------
(***************************************************************************)
(* Proofs about StripeInbox, for any number of events, invocations, tokens *)
(* and crashes.                                                            *)
(*                                                                         *)
(* The inductive invariant IInv says where the tokens are: a processing    *)
(* row carries a token that was issued for it, an invocation that has a    *)
(* token was issued it, no two invocations on one event have the same, and *)
(* an invocation about to reclaim has seen a token whose lease has expired *)
(* if the row still carries it.                                            *)
(***************************************************************************)
EXTENDS StripeInbox, TLAPS

\* The tokens in use.
Holding(w) == worker[w] # Idle /\ worker[w].token # NoToken
Reclaiming(w) == worker[w] # Idle /\ worker[w].pc = "reclaim"

RowTokenIssued ==
    \A e \in Events : row[e].status = "processing" => row[e].token \in issued[e]
WorkerTokenIssued ==
    \A w \in Workers : Holding(w) => worker[w].token \in issued[worker[w].event]
TokensDistinct ==
    \A w1, w2 \in Workers :
       /\ Holding(w1) /\ Holding(w2)
       /\ worker[w1].event = worker[w2].event
       /\ worker[w1].token = worker[w2].token
       => w1 = w2
SeenIsClaimable ==
    \A w \in Workers :
       Reclaiming(w) =>
         worker[w].seen.status \in {"absent", "processing", "failed_retryable"}
SeenHasExpired ==
    \A w \in Workers :
       Reclaiming(w) /\ worker[w].seen.status = "processing" =>
         LET e == worker[w].event
             t == worker[w].seen.token
         IN  /\ t \in issued[e]
             /\ row[e].status = "processing" /\ row[e].token = t => stale[e]

IInv == /\ TypeOK /\ RowTokenIssued /\ WorkerTokenIssued /\ TokensDistinct
        /\ SeenIsClaimable /\ SeenHasExpired

-----------------------------------------------------------------------------
(* Types *)

\* Absent and Legacy are rows, and a row stays one when it is claimed.
LEMMA RowShapes ==
    /\ Absent \in Row /\ Legacy \in Row
    /\ \A r \in Row, t \in Tokens : Claimed(r, t) \in Row
    /\ \A r \in Row, s \in Statuses : [r EXCEPT !.status = s] \in Row
  <1>1. Absent \in Row /\ Legacy \in Row
    BY DEF Absent, Legacy, Row, Statuses
  <1>2. ASSUME NEW r \in Row, NEW t \in Tokens PROVE Claimed(r, t) \in Row
    <2>1. r.attempt + 1 \in Nat
      BY DEF Row
    <2>2. \A n \in Nat :
            [r EXCEPT !.status = "processing", !.token = t, !.attempt = n] \in Row
      BY DEF Row, Statuses
    <2> QED
      BY <2>1, <2>2 DEF Claimed
  <1>3. ASSUME NEW r \in Row, NEW s \in Statuses
        PROVE  [r EXCEPT !.status = s] \in Row
    BY DEF Row
  <1> QED
    BY <1>1, <1>2, <1>3

\* Settling a row keeps the types.
LEMMA SettledTypeOK ==
    ASSUME TypeOK, NEW e \in Events, NEW s \in Statuses, Settled(e, s)
    PROVE  row' \in [Events -> Row] /\ stale' \in [Events -> BOOLEAN]
  <1>1. row[e] \in Row
    BY DEF TypeOK
  <1>2. [row[e] EXCEPT !.status = s] \in Row
    BY <1>1, RowShapes
  <1> QED
    BY <1>2 DEF Settled, TypeOK

\* A worker record is never the idle one.
LEMMA BusyShape ==
    \A x \in Busy : x # Idle
  <1> SUFFICES ASSUME NEW x \in Busy PROVE x # Idle
    OBVIOUS
  <1>1. x.pc # "idle"
    BY DEF Busy
  <1>2. Idle.pc = "idle"
    BY DEF Idle
  <1> QED
    BY <1>1, <1>2

\* Writing a token keeps the types.
LEMMA GrantTypeOK ==
    ASSUME TypeOK, NEW w \in Workers, NEW e \in Events, NEW t, NEW r \in Row,
           worker[w] \in Busy, Grant(w, e, t, r)
    PROVE  TypeOK'
  <1> USE DEF TypeOK, Grant
  <1>1. [worker[w] EXCEPT !.pc = "run", !.token = t, !.seen = Absent] \in Busy
    BY RowShapes DEF Busy
  <1>2. worker' = [worker EXCEPT ![w] =
                    [worker[w] EXCEPT !.pc = "run", !.token = t, !.seen = Absent]]
    BY <1>1
  <1> QED
    BY <1>1, <1>2

\* A busy worker that moves on stays typed.
LEMMA GotoTypeOK ==
    ASSUME TypeOK, NEW w \in Workers, worker[w] \in Busy,
           NEW p \in {"insert", "read", "reclaim", "manual", "run",
                      "mark", "check", "fail"}, Goto(w, p)
    PROVE  worker' \in [Workers -> Busy \cup {Idle}]
BY DEF TypeOK, Goto, Busy

LEMMA InitTypeOK == Init => TypeOK
BY RowShapes, CrashAssumption DEF Init, TypeOK, Idle

\* Every step keeps the types.
LEMMA NextTypeOK == TypeOK /\ [Next]_vars => TypeOK'
  <1> SUFFICES ASSUME TypeOK, Next PROVE TypeOK'
    BY DEF TypeOK, vars
  <1>1. ASSUME NEW w \in Workers, NEW e \in Events, NEW h \in Hashes,
               Deliver(w, e, h)
        PROVE  TypeOK'
    <2>1. [pc |-> "insert", event |-> e, hash |-> h, webhook |-> TRUE,
           token |-> NoToken, seen |-> Absent] \in Busy
      BY RowShapes DEF Busy
    <2> QED
      BY <1>1, <2>1 DEF Deliver, TypeOK
  <1>2. ASSUME NEW w \in Workers, NEW e \in Events, ManualRetry(w, e)
        PROVE  TypeOK'
    <2>1. row[e].hash \in Hashes \cup {LegacyHash}
      BY DEF TypeOK, Row
    <2>2. [pc |-> "manual", event |-> e, hash |-> row[e].hash,
           webhook |-> FALSE, token |-> NoToken, seen |-> Absent] \in Busy
      BY <2>1, RowShapes DEF Busy
    <2> QED
      BY <1>2, <2>2 DEF ManualRetry, TypeOK
  <1>3. ASSUME NEW w \in Workers, Step(w) PROVE TypeOK'
    <2>1. worker[w] \in Busy
      BY <1>3 DEF Step, Insert, Read, Reclaim, Run, Mark, CheckOwnership,
                  Fail, ManualClaim, TypeOK, Idle
    <2>2. worker[w].event \in Events /\ worker[w].hash \in Hashes \cup {LegacyHash}
      BY <2>1 DEF Busy
    <2>3. row[worker[w].event] \in Row
      BY <2>2 DEF TypeOK
    <2>4. CASE Insert(w)
      <3>1. \A t \in Tokens : [status |-> "processing", token |-> t,
               attempt |-> 1, hash |-> worker[w].hash] \in Row
        BY <2>2 DEF Row, Statuses
      <3>2. CASE Goto(w, "read") /\ UNCHANGED <<row, stale, issued, owed, applied, crashes>>
        BY <3>2, <2>1, GotoTypeOK DEF TypeOK
      <3> QED
        BY <2>4, <3>1, <3>2, <2>1, <2>2, GrantTypeOK DEF Insert
    <2>5. CASE Read(w)
      <3>1. [worker[w] EXCEPT !.pc = "reclaim", !.seen = row[worker[w].event]]
              \in Busy
        BY <2>1, <2>3 DEF Busy
      <3>2. worker' \in [Workers -> Busy \cup {Idle}]
        BY <2>5, <3>1 DEF Read, Answer2xx, AnswerError, Finish, TypeOK
      <3>3. owed' \in [Events -> BOOLEAN]
        BY <2>5 DEF Read, Answer2xx, AnswerError, TypeOK
      <3> QED
        BY <2>5, <3>2, <3>3 DEF Read, TypeOK
    <2>6. CASE Reclaim(w)
      <3>1. CASE Answer2xx(w) /\ UNCHANGED <<row, stale, issued, applied, crashes>>
        BY <3>1 DEF Answer2xx, Finish, TypeOK
      <3> QED
        BY <2>6, <3>1, <2>1, <2>2, <2>3, RowShapes, GrantTypeOK DEF Reclaim
    <2>7. CASE Run(w)
      <3>1. worker' \in [Workers -> Busy \cup {Idle}]
        BY <2>7, <2>1, GotoTypeOK DEF Run
      <3> QED
        BY <2>7, <3>1 DEF Run, TypeOK
    <2>8. CASE Mark(w)
      <3>1. worker' \in [Workers -> Busy \cup {Idle}]
        BY <2>8, <2>1, GotoTypeOK DEF Mark, Answer2xx, Finish, TypeOK
      <3>2. owed' \in [Events -> BOOLEAN]
        BY <2>8 DEF Mark, Answer2xx, TypeOK
      <3>3. row' \in [Events -> Row] /\ stale' \in [Events -> BOOLEAN]
        BY <2>8, <2>2, SettledTypeOK DEF Mark, TypeOK, Statuses
      <3> QED
        BY <2>8, <3>1, <3>2, <3>3 DEF Mark, TypeOK
    <2>9. CASE CheckOwnership(w)
      <3>1. [worker[w] EXCEPT !.pc = "fail", !.seen = row[worker[w].event]]
              \in Busy
        BY <2>1, <2>3 DEF Busy
      <3>2. worker' \in [Workers -> Busy \cup {Idle}]
        BY <2>9, <3>1 DEF CheckOwnership, AnswerError, Finish, TypeOK
      <3> QED
        BY <2>9, <3>2 DEF CheckOwnership, AnswerError, TypeOK
    <2>10. CASE Fail(w)
      <3>1. FailureStatus(worker[w].seen.attempt) \in Statuses
        BY DEF FailureStatus, Statuses
      <3>2. row' \in [Events -> Row] /\ stale' \in [Events -> BOOLEAN]
        BY <2>10, <2>2, <3>1, SettledTypeOK DEF Fail, TypeOK
      <3> QED
        BY <2>10, <3>2 DEF Fail, AnswerError, Finish, TypeOK
    <2>11. CASE ManualClaim(w)
      <3>1. CASE AnswerError(w) /\ UNCHANGED <<row, stale, issued, applied, crashes>>
        BY <3>1 DEF AnswerError, Finish, TypeOK
      <3> QED
        BY <2>11, <3>1, <2>1, <2>2, <2>3, RowShapes, GrantTypeOK DEF ManualClaim
    <2> QED
      BY <1>3, <2>4, <2>5, <2>6, <2>7, <2>8, <2>9, <2>10, <2>11 DEF Step
  <1>4. ASSUME NEW w \in Workers, Crash(w) PROVE TypeOK'
    BY <1>4, CrashAssumption DEF Crash, Finish, TypeOK
  <1>5. ASSUME NEW e \in Events, LeaseTimesOut(e) PROVE TypeOK'
    BY <1>5 DEF LeaseTimesOut, TypeOK
  <1> QED
    BY <1>1, <1>2, <1>3, <1>4, <1>5 DEF Next

\* The variables have their types in every state of StripeInbox.
THEOREM TypeCorrect == Spec => []TypeOK
  <1>1. Init => TypeOK
    BY InitTypeOK
  <1>2. TypeOK /\ [Next]_vars => TypeOK'
    BY NextTypeOK
  <1> QED
    BY <1>1, <1>2, PTL DEF Spec

-----------------------------------------------------------------------------
(* The tokens *)

Continues(w) ==
    /\ worker[w] # Idle /\ worker'[w] # Idle
    /\ worker'[w].event = worker[w].event
    /\ worker'[w].token = worker[w].token

\* What the steps that grant no token have in common: a row that changes is no
\* longer processing, an invocation that changes ends, starts without a token
\* or keeps its own, and if it is going to reclaim, it has just read the row.
NoGrant ==
    /\ issued' = issued
    /\ \A e \in Events :
         \/ row'[e] = row[e] /\ (stale[e] => stale'[e])
         \/ row'[e].status # "processing"
    /\ \A w \in Workers :
         \/ worker'[w] = worker[w]
         \/ worker'[w] = Idle
         \/ worker'[w].token = NoToken /\ worker'[w].pc # "reclaim"
         \/ Continues(w) /\ worker'[w].pc # "reclaim"
         \/ /\ Continues(w)
            /\ UNCHANGED <<row, stale>>
            /\ worker'[w].seen = row[worker[w].event]
            /\ Outcome(row[worker[w].event], worker[w].hash,
                       stale[worker[w].event]) = "claim"

LEMMA NoGrantKeepsIInv ==
    ASSUME IInv, TypeOK', NoGrant
    PROVE  IInv'
  <1>1. RowTokenIssued'
    BY DEF IInv, RowTokenIssued, NoGrant
  <1>2. WorkerTokenIssued'
    BY DEF IInv, WorkerTokenIssued, NoGrant, Continues, Holding
  <1>3. TokensDistinct'
    BY DEF IInv, TokensDistinct, NoGrant, Continues, Holding
  <1>4. ASSUME NEW w \in Workers, Reclaiming(w)'
        PROVE  \/ worker'[w] = worker[w]
               \/ /\ Continues(w) /\ UNCHANGED <<row, stale>>
                  /\ worker'[w].seen = row[worker[w].event]
                  /\ Outcome(row[worker[w].event], worker[w].hash,
                             stale[worker[w].event]) = "claim"
    BY <1>4 DEF Reclaiming, NoGrant
  <1>5. ASSUME NEW w \in Workers, Continues(w) PROVE worker[w].event \in Events
    BY <1>5 DEF Continues, IInv, TypeOK, Busy
  <1>6. SeenIsClaimable'
    <2> SUFFICES ASSUME NEW w \in Workers, Reclaiming(w)'
                 PROVE  worker'[w].seen.status
                          \in {"absent", "processing", "failed_retryable"}
      BY DEF SeenIsClaimable
    <2>1. CASE worker'[w] = worker[w]
      BY <2>1 DEF IInv, SeenIsClaimable, Reclaiming
    <2>2. ASSUME NEW r \in Row, NEW h, NEW old, Outcome(r, h, old) = "claim"
          PROVE  r.status \in {"absent", "processing", "failed_retryable"}
      BY <2>2 DEF Outcome, Row, Statuses
    <2>3. CASE Continues(w) /\ worker'[w] # worker[w]
      <3>1. row[worker[w].event] \in Row
        BY <2>3, <1>5 DEF IInv, TypeOK
      <3> QED
        BY <2>3, <1>4, <2>2, <3>1
    <2> QED
      BY <2>1, <2>3, <1>4
  <1>7. SeenHasExpired'
    <2> SUFFICES ASSUME NEW w \in Workers, Reclaiming(w)',
                        worker'[w].seen.status = "processing"
                 PROVE  LET e == worker'[w].event
                            t == worker'[w].seen.token
                        IN  /\ t \in issued'[e]
                            /\ row'[e].status = "processing" /\ row'[e].token = t
                                 => stale'[e]
      BY DEF SeenHasExpired
    <2>1. CASE worker'[w] = worker[w]
      <3>1. worker[w].event \in Events
        BY <2>1 DEF IInv, TypeOK, Busy, Reclaiming
      <3> QED
        BY <2>1, <3>1 DEF IInv, SeenHasExpired, Reclaiming, NoGrant
    <2>2. ASSUME NEW r \in Row, NEW h, NEW old, Outcome(r, h, old) = "claim",
                 r.status = "processing"
          PROVE  old
      BY <2>2 DEF Outcome
    <2>3. CASE worker'[w] # worker[w]
      <3>1. worker[w].event \in Events /\ row[worker[w].event] \in Row
        BY <2>3, <1>4, <1>5 DEF IInv, TypeOK
      <3>2. stale[worker[w].event] \in BOOLEAN
        BY <3>1 DEF IInv, TypeOK
      <3>3. stale[worker[w].event]
        BY <2>3, <1>4, <2>2, <3>1
      <3>4. row[worker[w].event].token \in issued[worker[w].event]
        BY <2>3, <1>4, <3>1 DEF IInv, RowTokenIssued
      <3> QED
        BY <2>3, <1>4, <3>1, <3>3, <3>4 DEF NoGrant, Continues
    <2> QED
      BY <2>1, <2>3
  <1> QED
    BY <1>1, <1>2, <1>3, <1>6, <1>7 DEF IInv

LEMMA GrantKeepsIInv ==
    ASSUME IInv, TypeOK', NEW w \in Workers, NEW e \in Events, NEW t, NEW r,
           worker[w] \in Busy, worker[w].event = e, r.token = t,
           Grant(w, e, t, r)
    PROVE  IInv'
  <1>1. /\ \A v \in Workers \ {w} : worker'[v] = worker[v]
        /\ worker'[w].event = e /\ worker'[w].token = t /\ worker'[w].pc = "run"
    BY DEF Grant, IInv, TypeOK, Busy
  <1>2. /\ \A x \in Events \ {e} :
             row'[x] = row[x] /\ stale'[x] = stale[x] /\ issued'[x] = issued[x]
        /\ row'[e] = r /\ issued'[e] = issued[e] \cup {t} /\ t \notin issued[e]
    BY DEF Grant, IInv, TypeOK
  <1>3. RowTokenIssued'
    BY <1>2 DEF IInv, RowTokenIssued
  <1>4. ASSUME NEW v \in Workers, Holding(v) PROVE worker[v].event \in Events
    BY <1>4 DEF Holding, IInv, TypeOK, Busy
  <1>5. WorkerTokenIssued'
    <2> SUFFICES ASSUME NEW v \in Workers, Holding(v)'
                 PROVE  worker'[v].token \in issued'[worker'[v].event]
      BY DEF WorkerTokenIssued
    <2>1. CASE v = w
      BY <2>1, <1>1, <1>2
    <2>2. CASE v # w
      <3>1. Holding(v) /\ worker'[v] = worker[v]
        BY <2>2, <1>1 DEF Holding
      <3> QED
        BY <3>1, <1>2, <1>4 DEF IInv, WorkerTokenIssued
    <2> QED
      BY <2>1, <2>2
  <1>6. TokensDistinct'
    <2>1. ASSUME NEW v \in Workers \ {w}, Holding(v), worker[v].event = e
          PROVE  worker[v].token # t
      BY <2>1, <1>2 DEF IInv, WorkerTokenIssued
    <2> QED
      BY <2>1, <1>1 DEF IInv, TokensDistinct, Holding
  <1>7. ASSUME NEW v \in Workers, Reclaiming(v)'
        PROVE  Reclaiming(v) /\ v # w /\ worker'[v] = worker[v]
                 /\ worker[v].event \in Events
    BY <1>7, <1>1 DEF Reclaiming, IInv, TypeOK, Busy
  <1>8. SeenIsClaimable'
    BY <1>7 DEF IInv, SeenIsClaimable
  <1>9. SeenHasExpired'
    <2> SUFFICES ASSUME NEW v \in Workers, Reclaiming(v)',
                        worker'[v].seen.status = "processing"
                 PROVE  LET x == worker'[v].event
                            s == worker'[v].seen.token
                        IN  /\ s \in issued'[x]
                            /\ row'[x].status = "processing" /\ row'[x].token = s
                                 => stale'[x]
      BY DEF SeenHasExpired
    <2>1. worker[v].seen.token \in issued[worker[v].event]
      BY <1>7 DEF IInv, SeenHasExpired
    <2>2. CASE worker[v].event = e
      BY <2>1, <2>2, <1>2, <1>7
    <2>3. CASE worker[v].event # e
      BY <2>1, <2>3, <1>2, <1>7 DEF IInv, SeenHasExpired
    <2> QED
      BY <2>2, <2>3
  <1> QED
    BY <1>3, <1>5, <1>6, <1>8, <1>9 DEF IInv

-----------------------------------------------------------------------------
(* The actions *)

\* What the steps that grant a token have in common: the row is free, or its
\* lease has expired.
Granting(w, e, t, r) ==
    /\ worker[w] \in Busy /\ worker[w].event = e
    /\ r.status = "processing" /\ r.token = t
    /\ \/ row[e].status \in {"absent", "failed_retryable", "failed_terminal"}
       \/ row[e].status = "processing" /\ stale[e]
    /\ Grant(w, e, t, r)

Grants == \E w \in Workers, e \in Events, t \in Tokens, r \in Row :
             Granting(w, e, t, r)

\* A claimed row is processing under its new token.
LEMMA ClaimedShape ==
    ASSUME NEW r \in Row, NEW t \in Tokens
    PROVE  /\ Claimed(r, t) \in Row
           /\ Claimed(r, t).status = "processing" /\ Claimed(r, t).token = t
  <1>1. Claimed(r, t) \in Row
    BY RowShapes
  <1> QED
    BY <1>1 DEF Claimed, Row

\* The statements of claimStripeEventForProcessing and of the manual claim.
LEMMA InsertShape ==
    ASSUME IInv, NEW w \in Workers, worker[w] \in Busy, Insert(w)
    PROVE  Grants \/ (NoGrant /\ UNCHANGED <<row, stale>>)
  <1> DEFINE e == worker[w].event
             new(t) == [status |-> "processing", token |-> t,
                        attempt |-> 1, hash |-> worker[w].hash]
  <1>1. e \in Events /\ worker[w].hash \in Hashes \cup {LegacyHash}
    BY DEF Busy
  <1>2. CASE row[e].status = "absent"
    <2>1. PICK t \in Tokens : Grant(w, e, t, new(t))
      BY <1>2 DEF Insert
    <2>2. new(t) \in Row
      BY <1>1 DEF Row, Statuses
    <2>3. Granting(w, e, t, new(t))
      BY <2>1, <1>2 DEF Granting
    <2> QED
      BY <2>2, <2>3, <1>1 DEF Grants
  <1>3. CASE row[e].status # "absent"
    <2>1. Goto(w, "read") /\ UNCHANGED <<row, stale, issued>>
      BY <1>3 DEF Insert
    <2>2. \A v \in Workers \ {w} : worker'[v] = worker[v]
      BY <2>1 DEF Goto, IInv, TypeOK
    <2>3. Continues(w) /\ worker'[w].pc # "reclaim"
      BY <2>1, BusyShape DEF Goto, Continues, IInv, TypeOK, Busy, Idle
    <2> QED
      BY <2>1, <2>2, <2>3 DEF NoGrant
  <1> QED
    BY <1>2, <1>3

\* What a step that ends, or moves on without a token, does to the workers.
LEMMA FinishShape ==
    ASSUME IInv, NEW w \in Workers, Finish(w)
    PROVE  worker'[w] = Idle /\ \A v \in Workers \ {w} : worker'[v] = worker[v]
BY DEF Finish, IInv, TypeOK

LEMMA GotoShape ==
    ASSUME IInv, NEW w \in Workers, worker[w] \in Busy, NEW p, Goto(w, p),
           p \in {"read", "mark", "check"}
    PROVE  /\ Continues(w) /\ worker'[w].pc = p
           /\ \A v \in Workers \ {w} : worker'[v] = worker[v]
  <1>1. worker'[w] = [worker[w] EXCEPT !.pc = p]
    BY DEF Goto, IInv, TypeOK
  <1>2. [worker[w] EXCEPT !.pc = p] \in Busy
    BY DEF Busy
  <1> QED
    BY <1>1, <1>2, BusyShape DEF Goto, Continues, IInv, TypeOK, Busy

LEMMA SeeShape ==
    ASSUME IInv, NEW w \in Workers, worker[w] \in Busy, NEW p,
           p \in {"reclaim", "fail"},
           worker' = [worker EXCEPT ![w].pc = p,
                                    ![w].seen = row[worker[w].event]]
    PROVE  /\ Continues(w) /\ worker'[w].pc = p
           /\ worker'[w].seen = row[worker[w].event]
           /\ \A v \in Workers \ {w} : worker'[v] = worker[v]
  <1>1. row[worker[w].event] \in Row
    BY DEF IInv, TypeOK, Busy
  <1>2. worker'[w] = [worker[w] EXCEPT !.pc = p, !.seen = row[worker[w].event]]
    BY DEF IInv, TypeOK
  <1>3. [worker[w] EXCEPT !.pc = p, !.seen = row[worker[w].event]] \in Busy
    BY <1>1 DEF Busy
  <1> QED
    BY <1>2, <1>3, BusyShape DEF Continues, IInv, TypeOK, Busy

LEMMA ReadShape ==
    ASSUME IInv, NEW w \in Workers, worker[w] \in Busy, Read(w)
    PROVE  NoGrant
  <1>1. UNCHANGED <<row, stale, issued>>
    BY DEF Read
  <1>2. CASE Finish(w)
    BY <1>1, <1>2, FinishShape DEF NoGrant
  <1>3. CASE /\ Outcome(row[worker[w].event], worker[w].hash,
                        stale[worker[w].event]) = "claim"
             /\ worker' = [worker EXCEPT ![w].pc = "reclaim",
                                         ![w].seen = row[worker[w].event]]
    BY <1>1, <1>3, SeeShape DEF NoGrant
  <1> QED
    BY <1>2, <1>3 DEF Read, Answer2xx, AnswerError

\* The compare-and-swap matches only a row that may be taken.
LEMMA ReclaimShape ==
    ASSUME IInv, NEW w \in Workers, worker[w] \in Busy, Reclaim(w)
    PROVE  Grants \/ (NoGrant /\ UNCHANGED <<row, stale>>)
  <1> DEFINE e == worker[w].event
  <1>1. e \in Events /\ row[e] \in Row
    BY DEF Busy, IInv, TypeOK
  <1>2. CASE CasMatches(worker[w].seen, row[e])
    <2>1. PICK t \in Tokens : Grant(w, e, t, Claimed(row[e], t))
      BY <1>2 DEF Reclaim
    <2>2. Reclaiming(w)
      BY BusyShape DEF Reclaim, Reclaiming
    <2>3. \/ row[e].status \in {"absent", "failed_retryable"}
          \/ row[e].status = "processing" /\ stale[e]
      BY <1>2, <2>2 DEF CasMatches, IInv, SeenIsClaimable, SeenHasExpired
    <2>4. Granting(w, e, t, Claimed(row[e], t))
      BY <1>1, <2>1, <2>3, ClaimedShape DEF Granting
    <2> QED
      BY <1>1, <2>4, ClaimedShape DEF Grants
  <1>3. CASE ~CasMatches(worker[w].seen, row[e])
    BY <1>3, FinishShape DEF Reclaim, Answer2xx, NoGrant
  <1> QED
    BY <1>2, <1>3

LEMMA ManualClaimShape ==
    ASSUME IInv, NEW w \in Workers, worker[w] \in Busy, ManualClaim(w)
    PROVE  Grants \/ (NoGrant /\ UNCHANGED <<row, stale>>)
  <1> DEFINE e == worker[w].event
  <1>1. e \in Events /\ row[e] \in Row
    BY DEF Busy, IInv, TypeOK
  <1>2. ASSUME row[e].status \in ManuallyRetryable, NEW t \in Tokens,
               Grant(w, e, t, Claimed(row[e], t))
        PROVE  Grants
    <2>1. Granting(w, e, t, Claimed(row[e], t))
      BY <1>1, <1>2, ClaimedShape DEF Granting, ManuallyRetryable
    <2> QED
      BY <1>1, <2>1, ClaimedShape DEF Grants
  <1>3. CASE AnswerError(w) /\ UNCHANGED <<row, stale, issued, applied, crashes>>
    BY <1>3, FinishShape DEF AnswerError, NoGrant
  <1> QED
    BY <1>2, <1>3 DEF ManualClaim

\* A row is settled by the invocation whose token it carries, with the outcome
\* of that invocation.
Settles(w) ==
    LET e == worker[w].event
    IN  /\ worker[w] \in Busy /\ Owns(w, row[e])
        /\ \/ worker[w].pc = "mark" /\ Settled(e, "succeeded")
           \/ /\ worker[w].pc = "fail"
              /\ \E s \in {"failed_retryable", "failed_terminal"} : Settled(e, s)

LEMMA SettledShape ==
    ASSUME IInv, NEW e \in Events, NEW s \in Statuses \ {"processing"},
           Settled(e, s)
    PROVE  /\ row'[e].status = s
           /\ \A x \in Events \ {e} : row'[x] = row[x] /\ stale'[x] = stale[x]
  <1>1. row[e] \in Row
    BY DEF IInv, TypeOK
  <1>2. row'[e] = [row[e] EXCEPT !.status = s]
    BY DEF Settled, IInv, TypeOK
  <1>3. row'[e].status = s
    BY <1>1, <1>2 DEF Row
  <1> QED
    BY <1>3 DEF Settled, IInv, TypeOK

LEMMA MarkShape ==
    ASSUME IInv, NEW w \in Workers, worker[w] \in Busy, Mark(w)
    PROVE  NoGrant /\ (Settles(w) \/ UNCHANGED <<row, stale>>)
  <1> DEFINE e == worker[w].event
  <1>1. e \in Events /\ UNCHANGED issued
    BY DEF Busy, Mark
  <1>2. Settles(w) \/ UNCHANGED <<row, stale>>
    BY DEF Mark, Settles
  <1>3. \A x \in Events : \/ row'[x] = row[x] /\ (stale[x] => stale'[x])
                          \/ row'[x].status # "processing"
    BY <1>1, SettledShape DEF Mark, Statuses
  <1>4. \/ Continues(w) /\ worker'[w].pc # "reclaim"
        \/ worker'[w] = Idle
    BY FinishShape, GotoShape DEF Mark, Answer2xx
  <1>5. \A v \in Workers \ {w} : worker'[v] = worker[v]
    BY FinishShape, GotoShape DEF Mark, Answer2xx
  <1> QED
    BY <1>1, <1>2, <1>3, <1>4, <1>5 DEF NoGrant

LEMMA FailShape ==
    ASSUME IInv, NEW w \in Workers, worker[w] \in Busy, Fail(w)
    PROVE  NoGrant /\ (Settles(w) \/ UNCHANGED <<row, stale>>)
  <1> DEFINE e == worker[w].event
             s == FailureStatus(worker[w].seen.attempt)
  <1>1. e \in Events /\ UNCHANGED issued
    BY DEF Busy, Fail
  <1>2. s \in {"failed_retryable", "failed_terminal"}
    BY DEF FailureStatus
  <1>3. Settles(w) \/ UNCHANGED <<row, stale>>
    BY <1>2 DEF Fail, Settles
  <1>4. \A x \in Events : \/ row'[x] = row[x] /\ (stale[x] => stale'[x])
                          \/ row'[x].status # "processing"
    BY <1>1, <1>2, SettledShape DEF Fail, Statuses
  <1>5. worker'[w] = Idle /\ \A v \in Workers \ {w} : worker'[v] = worker[v]
    BY FinishShape DEF Fail, AnswerError
  <1> QED
    BY <1>1, <1>3, <1>4, <1>5 DEF NoGrant

\* Every step grants a token, settles a row, times a lease out, or leaves the
\* rows alone.
LEMMA NextShape ==
    ASSUME IInv, Next
    PROVE  \/ Grants
           \/ NoGrant /\ \E w \in Workers : Settles(w)
           \/ NoGrant /\ \E e \in Events : LeaseTimesOut(e)
           \/ NoGrant /\ UNCHANGED <<row, stale>>
  <1>1. ASSUME NEW w \in Workers, NEW e \in Events, NEW h \in Hashes,
               Deliver(w, e, h)
        PROVE  NoGrant /\ UNCHANGED <<row, stale>>
    BY <1>1 DEF Deliver, NoGrant, IInv, TypeOK
  <1>2. ASSUME NEW w \in Workers, NEW e \in Events, ManualRetry(w, e)
        PROVE  NoGrant /\ UNCHANGED <<row, stale>>
    BY <1>2 DEF ManualRetry, NoGrant, IInv, TypeOK
  <1>3. ASSUME NEW w \in Workers, Crash(w)
        PROVE  NoGrant /\ UNCHANGED <<row, stale>>
    BY <1>3, FinishShape DEF Crash, NoGrant
  <1>4. ASSUME NEW e \in Events, LeaseTimesOut(e)
        PROVE  NoGrant
    BY <1>4 DEF LeaseTimesOut, NoGrant, IInv, TypeOK
  <1>5. ASSUME NEW w \in Workers, Step(w)
        PROVE  \/ Grants
               \/ NoGrant /\ (Settles(w) \/ UNCHANGED <<row, stale>>)
    <2>1. worker[w] \in Busy
      BY <1>5 DEF Step, Insert, Read, Reclaim, Run, Mark, CheckOwnership,
                  Fail, ManualClaim, IInv, TypeOK, Idle
    <2>2. CASE Insert(w)
      BY <2>1, <2>2, InsertShape
    <2>3. CASE Read(w)
      BY <2>1, <2>3, ReadShape DEF Read
    <2>4. CASE Reclaim(w)
      BY <2>1, <2>4, ReclaimShape
    <2>5. CASE Run(w)
      BY <2>1, <2>5, GotoShape DEF Run, NoGrant
    <2>6. CASE Mark(w)
      BY <2>1, <2>6, MarkShape
    <2>7. CASE CheckOwnership(w)
      BY <2>1, <2>7, SeeShape, FinishShape DEF CheckOwnership, AnswerError, NoGrant
    <2>8. CASE Fail(w)
      BY <2>1, <2>8, FailShape
    <2>9. CASE ManualClaim(w)
      BY <2>1, <2>9, ManualClaimShape
    <2> QED
      BY <1>5, <2>2, <2>3, <2>4, <2>5, <2>6, <2>7, <2>8, <2>9 DEF Step
  <1> QED
    BY <1>1, <1>2, <1>3, <1>4, <1>5 DEF Next

-----------------------------------------------------------------------------
(* Theorems *)

LEMMA InitIInv == Init => IInv
  <1> SUFFICES ASSUME Init PROVE IInv
    OBVIOUS
  <1>1. \A e \in Events : row[e].status # "processing"
    BY DEF Init, Absent, Legacy
  <1>2. \A w \in Workers : worker[w] = Idle
    BY DEF Init
  <1> QED
    BY <1>1, <1>2, InitTypeOK DEF IInv, RowTokenIssued, WorkerTokenIssued,
       TokensDistinct, SeenIsClaimable, SeenHasExpired, Holding, Reclaiming

LEMMA NextIInv == IInv /\ [Next]_vars => IInv'
  <1> SUFFICES ASSUME IInv, [Next]_vars PROVE IInv'
    OBVIOUS
  <1>1. TypeOK'
    BY NextTypeOK DEF IInv
  <1>2. CASE UNCHANGED vars
    BY <1>1, <1>2 DEF vars, IInv, RowTokenIssued, WorkerTokenIssued,
       TokensDistinct, SeenIsClaimable, SeenHasExpired, Holding, Reclaiming
  <1>3. CASE Grants
    BY <1>1, <1>3, GrantKeepsIInv DEF Grants, Granting
  <1>4. CASE NoGrant
    BY <1>1, <1>4, NoGrantKeepsIInv
  <1> QED
    BY <1>2, <1>3, <1>4, NextShape

\* The inductive invariant: where the tokens are.
THEOREM TokenInvariant == Spec => []IInv
BY InitIInv, NextIInv, PTL DEF Spec

\* Two invocations never hold the current token of a processing row.
THEOREM SingleOwnerHolds == Spec => []SingleOwner
  <1>1. IInv => SingleOwner
    <2> SUFFICES ASSUME IInv, NEW w1 \in Workers, NEW w2 \in Workers,
                        NEW e \in Events, Owner(w1, e), Owner(w2, e)
                 PROVE  w1 = w2
      BY DEF SingleOwner
    <2>1. row[e].token \in Tokens
      BY DEF Owner, Owns, IInv, RowTokenIssued, TypeOK
    <2>2. Holding(w1) /\ Holding(w2)
      BY <2>1, TokenAssumption DEF Owner, Owns, Holding
    <2> QED
      BY <2>2 DEF Owner, Owns, IInv, TokensDistinct
  <1> QED
    BY <1>1, TokenInvariant, PTL

\* Only the invocation whose token a processing row carries settles it, with
\* the outcome of its own handler.
THEOREM SettledByOwnerHolds == Spec => SettledByOwner
  <1> DEFINE Settling ==
        \A e \in Events :
           row[e].status = "processing" /\ row'[e].status # "processing"
             => \E w \in Workers :
                  /\ worker[w] # Idle
                  /\ worker[w].event = e
                  /\ worker[w].token = row[e].token
                  /\ worker[w].pc = IF row'[e].status = "succeeded"
                                    THEN "mark" ELSE "fail"
  <1>1. IInv /\ [Next]_vars => [Settling]_vars
    <2> SUFFICES ASSUME IInv, Next, NEW e \in Events,
                        row[e].status = "processing",
                        row'[e].status # "processing"
                 PROVE  \E w \in Workers :
                          /\ worker[w] # Idle
                          /\ worker[w].event = e
                          /\ worker[w].token = row[e].token
                          /\ worker[w].pc = IF row'[e].status = "succeeded"
                                            THEN "mark" ELSE "fail"
      OBVIOUS
    <2>1. CASE Grants
      <3>1. \A w \in Workers, x \in Events, t \in Tokens, r \in Row :
               Granting(w, x, t, r) => row'[e] = row[e] \/ row'[e] = r
        BY DEF Granting, Grant, IInv, TypeOK
      <3> QED
        BY <2>1, <3>1 DEF Grants, Granting
    <2>2. ASSUME NEW w \in Workers, Settles(w)
          PROVE  /\ worker[w] # Idle
                 /\ worker[w].event = e
                 /\ worker[w].token = row[e].token
                 /\ worker[w].pc = IF row'[e].status = "succeeded"
                                   THEN "mark" ELSE "fail"
      <3>1. worker[w].event \in Events /\ worker[w] # Idle
        BY <2>2, BusyShape DEF Settles, Busy
      <3>2. worker[w].event = e
        BY <2>2, <3>1, SettledShape DEF Settles, Statuses
      <3>3. worker[w].token = row[e].token
        BY <2>2, <3>2 DEF Settles, Owns
      <3>4. ASSUME worker[w].pc = "mark" PROVE row'[e].status = "succeeded"
        BY <2>2, <3>1, <3>2, <3>4, SettledShape DEF Settles, Statuses
      <3>5. ASSUME worker[w].pc = "fail" PROVE row'[e].status # "succeeded"
        BY <2>2, <3>1, <3>2, <3>5, SettledShape DEF Settles, Statuses
      <3> QED
        BY <2>2, <3>1, <3>2, <3>3, <3>4, <3>5 DEF Settles
    <2>3. CASE \E x \in Events : LeaseTimesOut(x)
      BY <2>3 DEF LeaseTimesOut
    <2>4. CASE UNCHANGED <<row, stale>>
      BY <2>4
    <2> QED
      BY <2>1, <2>2, <2>3, <2>4, NextShape
  <1> QED
    BY <1>1, TokenInvariant, PTL DEF Spec, SettledByOwner, Settling

-----------------------------------------------------------------------------
(* Refinement of JobLease *)

LEMMA LeaseInit == Init => Lease!Init
  <1> SUFFICES ASSUME Init PROVE Lease!Init
    OBVIOUS
  <1>1. \A e \in Events : row[e] \in {Absent, Legacy}
    BY DEF Init
  <1>2. \A e \in Events : LeaseStatus(row[e]) \in {"waiting", "done"}
                          /\ LeaseHolder(row[e]) = NoToken
    BY <1>1 DEF LeaseStatus, LeaseHolder, Absent, Legacy
  <1> QED
    BY <1>2 DEF Init, Lease!Init

\* A granting step is a Take of the event's lease.
LEMMA GrantTakes ==
    ASSUME IInv, NEW w \in Workers, NEW e \in Events, NEW t \in Tokens,
           NEW r \in Row, Granting(w, e, t, r)
    PROVE  Lease!Take(e, t)
  <1>1. LeaseStatus(row[e]) \in {"waiting", "failed"}
          \/ (LeaseStatus(row[e]) = "held" /\ stale[e])
    BY DEF Granting, LeaseStatus
  <1>2. row' = [row EXCEPT ![e] = r] /\ stale' = [stale EXCEPT ![e] = FALSE]
          /\ issued' = [issued EXCEPT ![e] = @ \cup {t}] /\ t \in Tokens \ issued[e]
    BY DEF Granting, Grant
  <1>3. LeaseStatus(r) = "held" /\ LeaseHolder(r) = t
    BY DEF Granting, LeaseStatus, LeaseHolder
  <1>4. \A x \in Events : row'[x] = IF x = e THEN r ELSE row[x]
    BY <1>2 DEF IInv, TypeOK
  <1>5. [x \in Events |-> LeaseStatus(row'[x])]
          = [[x \in Events |-> LeaseStatus(row[x])] EXCEPT ![e] = "held"]
    BY <1>3, <1>4
  <1>6. [x \in Events |-> LeaseHolder(row'[x])]
          = [[x \in Events |-> LeaseHolder(row[x])] EXCEPT ![e] = t]
    BY <1>3, <1>4
  <1> QED
    BY <1>1, <1>2, <1>5, <1>6 DEF Lease!Take, LeaseStatus, LeaseHolder

\* Settling a row settles the lease.
LEMMA SettleSettles ==
    ASSUME IInv, NEW w \in Workers, Settles(w), UNCHANGED issued
    PROVE  \E e \in Events, outcome \in Lease!Outcomes :
             Lease!Settle(e, outcome)
  <1> DEFINE e == worker[w].event
  <1>1. e \in Events /\ row[e].status = "processing"
    BY DEF Settles, Busy, Owns
  <1>2. PICK s \in {"succeeded", "failed_retryable", "failed_terminal"} :
          Settled(e, s)
    BY DEF Settles
  <1> DEFINE outcome == LeaseStatus(row'[e])
  <1>3. row'[e].status = s /\ \A x \in Events \ {e} : row'[x] = row[x]
    BY <1>1, <1>2, SettledShape DEF Statuses
  <1>4. outcome \in Lease!Outcomes /\ LeaseHolder(row'[e]) = NoToken
    BY <1>3 DEF LeaseStatus, LeaseHolder, Lease!Outcomes
  <1>5. [x \in Events |-> LeaseStatus(row'[x])]
          = [[x \in Events |-> LeaseStatus(row[x])] EXCEPT ![e] = outcome]
    BY <1>1, <1>3
  <1>6. [x \in Events |-> LeaseHolder(row'[x])]
          = [[x \in Events |-> LeaseHolder(row[x])] EXCEPT ![e] = NoToken]
    BY <1>1, <1>3, <1>4
  <1>7. LeaseStatus(row[e]) = "held"
    BY <1>1 DEF LeaseStatus
  <1>8. Lease!Settle(e, outcome)
    BY <1>1, <1>2, <1>4, <1>5, <1>6, <1>7 DEF Lease!Settle, Settled
  <1> QED
    BY <1>1, <1>4, <1>8

\* The event rows implement the abstract leases.
THEOREM ImplementsLease == Spec => LeaseSpec
  <1>1. IInv /\ [Next]_vars => [Lease!Next]_(Lease!vars)
    <2> SUFFICES ASSUME IInv, [Next]_vars PROVE [Lease!Next]_(Lease!vars)
      OBVIOUS
    <2>1. CASE Grants
      BY <2>1, GrantTakes DEF Grants, Lease!Next
    <2>2. CASE NoGrant /\ \E w \in Workers : Settles(w)
      BY <2>2, SettleSettles DEF NoGrant, Lease!Next
    <2>3. ASSUME NEW e \in Events, LeaseTimesOut(e)
          PROVE  Lease!Next
      <3>1. LeaseStatus(row[e]) = "held" /\ stale' = [stale EXCEPT ![e] = TRUE]
              /\ UNCHANGED <<row, issued>>
        BY <2>3 DEF LeaseTimesOut, LeaseStatus
      <3>2. Lease!Expire(e)
        BY <3>1 DEF Lease!Expire
      <3> QED
        BY <3>2 DEF Lease!Next
    <2>4. CASE NoGrant /\ UNCHANGED <<row, stale>>
      BY <2>4 DEF NoGrant, Lease!vars
    <2>5. CASE UNCHANGED vars
      BY <2>5 DEF vars, Lease!vars
    <2> QED
      BY <2>1, <2>2, <2>3, <2>4, <2>5, NextShape
  <1> QED
    BY <1>1, LeaseInit, TokenInvariant, PTL DEF Spec, LeaseSpec, Lease!Spec

-----------------------------------------------------------------------------
(* Success *)

\* An invocation that is about to record a success has seen its handler commit.
MarkingMeansApplied ==
    \A w \in Workers : worker[w].pc = "mark" => applied[worker[w].event]

AppliedInv == IInv /\ SucceededMeansApplied /\ MarkingMeansApplied

\* What every step has in common: a committed handler stays committed, and an
\* invocation marks, or a row becomes succeeded, only for a committed handler.
Honest ==
    /\ \A e \in Events : applied[e] => applied'[e]
    /\ \A w \in Workers : worker'[w].pc = "mark" =>
         \/ worker'[w] = worker[w]
         \/ applied'[worker'[w].event]
    /\ \A e \in Events : row'[e].status = "succeeded" => row'[e] = row[e] \/ applied[e]

LEMMA HonestKeepsAppliedInv ==
    ASSUME AppliedInv, IInv', Honest
    PROVE  AppliedInv'
  <1>1. SucceededMeansApplied'
    BY DEF AppliedInv, SucceededMeansApplied, Honest
  <1>2. ASSUME NEW w \in Workers, worker[w].pc = "mark" PROVE worker[w].event \in Events
    BY <1>2 DEF AppliedInv, IInv, TypeOK, Busy, Idle
  <1>3. MarkingMeansApplied'
    BY <1>2 DEF AppliedInv, MarkingMeansApplied, Honest
  <1> QED
    BY <1>1, <1>3 DEF AppliedInv

LEMMA GrantIsHonest ==
    ASSUME TypeOK, NEW w \in Workers, NEW e \in Events, NEW t, NEW r,
           r.status = "processing", worker[w] \in Busy, Grant(w, e, t, r)
    PROVE  Honest
  <1>1. applied' = applied
    BY DEF Grant
  <1>2. \A v \in Workers : worker'[v] = worker[v] \/ worker'[v].pc = "run"
    BY DEF Grant, TypeOK, Busy
  <1>3. \A x \in Events : row'[x] = row[x] \/ row'[x].status = "processing"
    BY DEF Grant, TypeOK
  <1> QED
    BY <1>1, <1>2, <1>3 DEF Honest

\* A step that leaves the rows and the handlers alone, and marks nothing.
LEMMA QuietIsHonest ==
    ASSUME UNCHANGED <<row, applied>>,
           \A w \in Workers : worker'[w] = worker[w] \/ worker'[w].pc # "mark"
    PROVE  Honest
  BY DEF Honest

LEMMA NextIsHonest ==
    ASSUME AppliedInv, Next
    PROVE  Honest
  <1> USE DEF AppliedInv, IInv
  <1>a. IInv
    OBVIOUS
  <1>1. ASSUME NEW w \in Workers, NEW e \in Events, NEW h \in Hashes, Deliver(w, e, h)
        PROVE  Honest
    <2>1. \A v \in Workers : worker'[v] = worker[v] \/ worker'[v].pc # "mark"
      BY <1>1 DEF Deliver, TypeOK
    <2> QED
      BY <1>1, <2>1, QuietIsHonest DEF Deliver
  <1>2. ASSUME NEW w \in Workers, NEW e \in Events, ManualRetry(w, e) PROVE Honest
    <2>1. \A v \in Workers : worker'[v] = worker[v] \/ worker'[v].pc # "mark"
      BY <1>2 DEF ManualRetry, TypeOK
    <2> QED
      BY <1>2, <2>1, QuietIsHonest DEF ManualRetry
  <1>3. ASSUME NEW w \in Workers, Crash(w) PROVE Honest
    <2>1. \A v \in Workers : worker'[v] = worker[v] \/ worker'[v].pc # "mark"
      BY <1>3, <1>a, FinishShape DEF Crash, Idle
    <2> QED
      BY <1>3, <2>1, QuietIsHonest DEF Crash
  <1>4. ASSUME NEW e \in Events, LeaseTimesOut(e) PROVE Honest
    BY <1>4, QuietIsHonest DEF LeaseTimesOut
  <1>5. ASSUME NEW w \in Workers, Step(w) PROVE Honest
    <2> DEFINE e == worker[w].event
    <2>1. worker[w] \in Busy
      BY <1>5 DEF Step, Insert, Read, Reclaim, Run, Mark, CheckOwnership,
                  Fail, ManualClaim, TypeOK, Idle
    <2>2. e \in Events /\ row[e] \in Row
      BY <2>1 DEF Busy, TypeOK
    <2>3. CASE Insert(w)
      <3>1. CASE Goto(w, "read") /\ UNCHANGED <<row, stale, issued, owed, applied, crashes>>
        BY <3>1, GotoShape, QuietIsHonest DEF Goto, TypeOK
      <3>2. ASSUME NEW t, Grant(w, e, t, [status |-> "processing", token |-> t,
                                          attempt |-> 1, hash |-> worker[w].hash])
            PROVE  Honest
        BY <2>1, <2>2, <3>2, GrantIsHonest
      <3> QED
        BY <2>3, <3>1, <3>2 DEF Insert
    <2>4. CASE Read(w)
      <3>1. \A v \in Workers : worker'[v] = worker[v] \/ worker'[v].pc # "mark"
        BY <2>1, <2>4, <1>a, FinishShape DEF Read, Answer2xx, AnswerError, Idle, Finish, TypeOK, Busy
      <3> QED
        BY <2>4, <3>1, QuietIsHonest DEF Read
    <2>5. CASE Reclaim(w)
      <3>1. CASE Answer2xx(w) /\ UNCHANGED <<row, stale, issued, applied, crashes>>
        <4>1. \A v \in Workers : worker'[v] = worker[v] \/ worker'[v].pc # "mark"
          BY <1>a, <3>1, FinishShape DEF Answer2xx, Idle
        <4> QED
          BY <3>1, <4>1, QuietIsHonest
      <3>2. \A t : Claimed(row[e], t).status = "processing"
        BY <2>2 DEF Claimed, Row
      <3> QED
        BY <2>1, <2>2, <2>5, <3>1, <3>2, GrantIsHonest DEF Reclaim
    <2>6. CASE Run(w)
      <3>1. row' = row
        BY <2>6 DEF Run
      <3>2. \A x \in Events : applied[x] => applied'[x]
        BY <2>2, <2>6 DEF Run, TypeOK
      <3>3. ASSUME NEW v \in Workers, worker'[v].pc = "mark", worker'[v] # worker[v]
            PROVE  applied'[worker'[v].event]
        BY <2>1, <2>2, <2>6, <3>3 DEF Run, Goto, TypeOK, Busy
      <3> QED
        BY <3>1, <3>2, <3>3 DEF Honest
    <2>7. CASE Mark(w)
      <3>1. applied' = applied /\ applied[e]
        BY <2>7 DEF Mark, MarkingMeansApplied
      <3>2. \A x \in Events : row'[x] = row[x] \/ x = e
        BY <2>7 DEF Mark, Settled, TypeOK
      <3>3. \A v \in Workers : worker'[v] = worker[v] \/ worker'[v].pc # "mark"
        BY <2>1, <2>7 DEF Mark, Answer2xx, Finish, Goto, Idle, TypeOK, Busy
      <3> QED
        BY <3>1, <3>2, <3>3 DEF Honest
    <2>8. CASE CheckOwnership(w)
      <3>1. \A v \in Workers : worker'[v] = worker[v] \/ worker'[v].pc # "mark"
        BY <2>1, <2>8 DEF CheckOwnership, AnswerError, Finish, Idle, TypeOK, Busy
      <3> QED
        BY <2>8, <3>1, QuietIsHonest DEF CheckOwnership
    <2>9. CASE Fail(w)
      <3>1. FailureStatus(worker[w].seen.attempt) # "succeeded"
        BY DEF FailureStatus
      <3>2. \A x \in Events : row'[x] = row[x] \/ row'[x].status # "succeeded"
        BY <2>2, <2>9, <3>1 DEF Fail, Settled, TypeOK, Row
      <3>3. \A v \in Workers : worker'[v] = worker[v] \/ worker'[v].pc # "mark"
        BY <2>9 DEF Fail, AnswerError, Finish, Idle, TypeOK
      <3> QED
        BY <2>9, <3>2, <3>3 DEF Honest, Fail
    <2>10. CASE ManualClaim(w)
      <3>1. CASE AnswerError(w) /\ UNCHANGED <<row, stale, issued, applied, crashes>>
        <4>1. \A v \in Workers : worker'[v] = worker[v] \/ worker'[v].pc # "mark"
          BY <1>a, <3>1, FinishShape DEF AnswerError, Idle
        <4> QED
          BY <3>1, <4>1, QuietIsHonest
      <3>2. \A t : Claimed(row[e], t).status = "processing"
        BY <2>2 DEF Claimed, Row
      <3> QED
        BY <2>1, <2>2, <2>10, <3>1, <3>2, GrantIsHonest DEF ManualClaim
    <2> QED
      BY <1>5, <2>3, <2>4, <2>5, <2>6, <2>7, <2>8, <2>9, <2>10 DEF Step
  <1> QED
    BY <1>1, <1>2, <1>3, <1>4, <1>5 DEF Next

\* An event counts as succeeded only after a handler transaction for it has
\* committed, whatever claims, retries, leases and crashes do to its row.
THEOREM SucceededMeansAppliedHolds == Spec => []SucceededMeansApplied
  <1>1. Init => AppliedInv
    <2> SUFFICES ASSUME Init PROVE AppliedInv
      OBVIOUS
    <2>1. SucceededMeansApplied
      BY DEF Init, SucceededMeansApplied, Absent, Legacy
    <2>2. MarkingMeansApplied
      BY DEF Init, MarkingMeansApplied, Idle
    <2> QED
      BY <2>1, <2>2, InitIInv DEF AppliedInv
  <1>2. AppliedInv /\ [Next]_vars => AppliedInv'
    <2> SUFFICES ASSUME AppliedInv, [Next]_vars PROVE AppliedInv'
      OBVIOUS
    <2>1. IInv'
      BY NextIInv DEF AppliedInv
    <2>2. CASE Next
      BY <2>1, <2>2, NextIsHonest, HonestKeepsAppliedInv
    <2>3. CASE UNCHANGED vars
      BY <2>1, <2>3 DEF vars, AppliedInv, SucceededMeansApplied, MarkingMeansApplied
    <2> QED
      BY <2>2, <2>3
  <1>3. AppliedInv => SucceededMeansApplied
    BY DEF AppliedInv
  <1> QED
    BY <1>1, <1>2, <1>3, PTL DEF Spec
=============================================================================

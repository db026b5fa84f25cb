---------------------------- MODULE OutboxProofs ----------------------------
(***************************************************************************)
(* What the runs check of the two users of the integration outbox, for any *)
(* number of cards, rules, senders, tokens and crashes: the cards of a     *)
(* claim, the rewards of an order line (their specification is that of the *)
(* instance), and at last the two as MCOutbox composes them.               *)
(***************************************************************************)
EXTENDS MCOutbox, MCDelivery, Sequences, SequencesExt, FiniteSetTheorems, TLAPS

-----------------------------------------------------------------------------
(***************************************************************************)
(* The cards.  CardIInv says who works on which row: a sender under way    *)
(* has a row and, once it has claimed it, a token nobody else has; a       *)
(* sender in its last transaction still owns its row; a stale row is being *)
(* processed.                                                              *)
(***************************************************************************)

\* Before the claim is confirmed no grant exists.
ClaimFirst ==
    claim \in {"PENDING", "EXPIRED"} =>
      \A i \in Issues : event[<<i, "grant">>].status = "absent"

\* A sender works on a row that exists.
RowExists ==
    \A w \in Senders : sender[w].pc # "idle" => event[sender[w].event].status # "absent"

CardStaleIsProcessing ==
    \A e \in Events : stale[e] => event[e].status = "processing"

\* A sender about to claim has seen a row that may be claimed.
SeenIsClaimable ==
    \A w \in Senders :
       sender[w].pc = "claim" => sender[w].seen.status \in {"pending", "blocked", "dead"}

Holding(w) == sender[w].pc \notin {"idle", "claim"}

TokenIssued ==
    \A w \in Senders : Holding(w) => sender[w].token \in issued[sender[w].event]

TokensDistinct ==
    \A v, w \in Senders :
       /\ Holding(v) /\ Holding(w)
       /\ sender[v].event = sender[w].event
       /\ sender[v].token = sender[w].token
       => v = w

\* Nobody takes a row from a sender whose last transaction has locked it.
LockedIsOwned ==
    \A w \in Senders : sender[w].pc \in {"count", "commit"} => Owns(w)

\* Only grants are guarded.
GuardedIsGrant ==
    \A w \in Senders :
       sender[w].pc \in {"count", "commit"} /\ sender[w].guarded
         => sender[w].event[2] = "grant"

CardIInv ==
    /\ TypeOK /\ ClaimFirst /\ RowExists /\ CardStaleIsProcessing
    /\ SeenIsClaimable /\ TokenIssued /\ TokensDistinct /\ LockedIsOwned /\ GuardedIsGrant

-----------------------------------------------------------------------------
(* What is received *)

\* A sender that records a success has been answered by the wallet.
RecordedWasReceived ==
    \A w \in Senders :
       sender[w].pc \in {"record", "count", "commit"} => sender[w].event \in received

\* What the refund has read of the deliveries is no better than what they were.
ReadWasReceived ==
    refundTx # NoRefund =>
      \A i \in Issues :
         refundTx.delivery[i].status = "DELIVERED" => <<i, "grant">> \in received

ReceivedInv ==
    /\ CardIInv /\ RecordedWasReceived /\ ReadWasReceived /\ DeliveredWasReceived

-----------------------------------------------------------------------------
(* Shapes *)

CardPcs == {"claim", "check", "block", "mark", "send", "record", "count", "commit", "failed"}
CardStatuses == {"absent", "pending", "processing", "succeeded", "blocked", "dead"}

LEMMA IdlePc == Idle.pc = "idle"
BY DEF Idle

\* A sender is idle or busy, and its pc tells which.
LEMMA CardSenderShape ==
    ASSUME TypeOK, NEW w \in Senders, sender[w].pc # "idle"
    PROVE  /\ sender[w] \in Busy /\ sender[w] # Idle
           /\ sender[w].event \in Events /\ sender[w].pc \in CardPcs
           /\ sender[w].seen \in Row /\ sender[w].token \in Tokens \cup {NoToken}
           /\ event[sender[w].event] \in Row
  <1>1. sender[w] \in Busy
    BY IdlePc DEF TypeOK
  <1>2. sender[w].event \in Events
    BY <1>1 DEF Busy
  <1>3. event[sender[w].event] \in Row
    BY <1>2 DEF TypeOK
  <1> QED
    BY <1>1, <1>2, <1>3, IdlePc DEF Busy, CardPcs

LEMMA BusyPc == \A x \in Busy : x.pc \in CardPcs /\ x.pc # "idle"
BY DEF Busy, CardPcs

\* A sender that ends is idle; the others do not notice.
LEMMA FinishShape ==
    ASSUME TypeOK, NEW w \in Senders, Finish(w)
    PROVE  /\ sender' \in [Senders -> Busy \cup {Idle}]
           /\ sender'[w].pc = "idle"
           /\ \A v \in Senders \ {w} : sender'[v] = sender[v]
  <1>1. sender'[w] = Idle
    BY DEF Finish, TypeOK
  <1> QED
    BY <1>1, IdlePc DEF Finish, TypeOK

\* A sender that goes on keeps what it knows.
LEMMA GotoShape ==
    ASSUME TypeOK, NEW w \in Senders, sender[w].pc # "idle", NEW p \in CardPcs, Goto(w, p)
    PROVE  /\ sender' \in [Senders -> Busy \cup {Idle}]
           /\ sender'[w].pc = p
           /\ sender'[w].event = sender[w].event /\ sender'[w].seen = sender[w].seen
           /\ sender'[w].token = sender[w].token /\ sender'[w].guarded = sender[w].guarded
           /\ sender'[w].after = sender[w].after
           /\ \A v \in Senders \ {w} : sender'[v] = sender[v]
  <1>1. sender[w] \in Busy
    BY CardSenderShape
  <1>2. [sender[w] EXCEPT !.pc = p] \in Busy
    BY <1>1 DEF Busy, CardPcs
  <1>3. sender' = [sender EXCEPT ![w] = [sender[w] EXCEPT !.pc = p]]
    BY DEF Goto
  <1> QED
    BY <1>1, <1>2, <1>3 DEF TypeOK, Busy

\* A row is written with any status.
LEMMA RowWrites ==
    /\ Absent \in Row
    /\ \A r \in Row, s \in CardStatuses :
         /\ [r EXCEPT !.status = s] \in Row
         /\ [r EXCEPT !.status = s].status = s
         /\ [r EXCEPT !.status = s].token = r.token
    /\ \A s \in CardStatuses, t \in Tokens \cup {NoToken}, n \in Nat :
         [status |-> s, token |-> t, attempt |-> n] \in Row
BY DEF Row, CardStatuses, Absent

\* A row that its sender settles.
LEMMA SettleShape ==
    ASSUME TypeOK, NEW w \in Senders, sender[w].pc # "idle",
           NEW s \in CardStatuses, NEW n \in Nat, Settle(w, s, n)
    PROVE  /\ event' \in [Events -> Row] /\ stale' \in [Events -> BOOLEAN]
           /\ event'[sender[w].event].status = s
           /\ ~stale'[sender[w].event]
           /\ \A e \in Events \ {sender[w].event} :
                event'[e] = event[e] /\ stale'[e] = stale[e]
  <1>1. sender[w].event \in Events
    BY CardSenderShape
  <1>2. [status |-> s, token |-> NoToken, attempt |-> n] \in Row
    BY RowWrites
  <1> QED
    BY <1>1, <1>2 DEF Settle, TypeOK

LEMMA SetDeliveryShape ==
    ASSUME TypeOK, NEW i \in Issues,
           NEW s \in {"PENDING", "PROCESSING", "DELIVERED", "REVOKED", "FAILED", "DEAD"},
           SetDelivery(i, s)
    PROVE  /\ delivery' \in [Issues -> Delivery]
           /\ delivery'[i].status = s /\ delivery'[i].event = delivery[i].event
           /\ \A j \in Issues \ {i} : delivery'[j] = delivery[j]
  <1>1. delivery[i] \in Delivery
    BY DEF TypeOK
  <1>2. [delivery[i] EXCEPT !.status = s] \in Delivery
    BY <1>1 DEF Delivery
  <1>3. delivery' = [delivery EXCEPT ![i] = [delivery[i] EXCEPT !.status = s]]
    BY DEF SetDelivery
  <1> QED
    BY <1>1, <1>2, <1>3 DEF TypeOK, Delivery

\* A card and the kinds of its events.
LEMMA EventShape ==
    /\ \A e \in Events : e[1] \in Issues /\ e[2] \in {"grant", "revoke"}
                        /\ e = <<e[1], e[2]>>
    /\ \A i \in Issues : <<i, "grant">> \in Events /\ <<i, "revoke">> \in Events
BY DEF Events

-----------------------------------------------------------------------------
(* Types *)

LEMMA InitTypeOK == Init => TypeOK
  <1> SUFFICES ASSUME Init PROVE TypeOK
    OBVIOUS
  <1>1. NoDelivery \in Delivery
    BY DEF NoDelivery, Delivery
  <1>2. crashes \in 0..CrashLimit
    BY EnvAssumption DEF Init
  <1> QED
    BY <1>1, <1>2, RowWrites DEF Init, TypeOK, IssueStatuses, Claims

\* The claim and the refund.
LEMMA ClaimTypeOK ==
    ASSUME TypeOK, Confirm \/ Expire \/ Reissue \/ RefundReads \/ \E i \in Issues : Mint(i)
    PROVE  TypeOK'
  <1>1. CASE Confirm
    <2>1. CASE ConfirmClaim
      <3>1. delivery' \in [Issues -> Delivery]
        BY <2>1 DEF ConfirmClaim, Delivery
      <3>2. \A e \in Events : [event[e] EXCEPT !.status = "pending"] \in Row
        BY RowWrites DEF TypeOK, CardStatuses
      <3>3. event' \in [Events -> Row]
        BY <2>1, <3>2 DEF ConfirmClaim, TypeOK
      <3>4. claim' \in Claims
        BY <2>1 DEF ConfirmClaim, Claims
      <3> QED
        BY <1>1, <3>1, <3>3, <3>4 DEF Confirm, TypeOK, walletVars
    <2>2. CASE RejectClaim
      BY <1>1, <2>2 DEF Confirm, RejectClaim, TypeOK, walletVars, Claims
    <2> QED
      BY <1>1, <2>1, <2>2 DEF Confirm
  <1>2. CASE Expire
    BY <1>2 DEF Expire, TypeOK, eventVars, walletVars, Claims
  <1>3. CASE Reissue
    BY <1>3 DEF Reissue, TypeOK, eventVars, walletVars, Claims
  <1>4. CASE RefundReads
    <2>1. [claim |-> claim, delivery |-> delivery] \in Reading
      BY DEF Reading, TypeOK
    <2> QED
      BY <1>4, <2>1 DEF RefundReads, TypeOK, rowVars, eventVars, walletVars
  <1>5. ASSUME NEW i \in Issues, Mint(i) PROVE TypeOK'
    BY <1>5 DEF Mint, TypeOK, eventVars, walletVars, IssueStatuses
  <1> QED
    BY <1>1, <1>2, <1>3, <1>4, <1>5

LEMMA EnqueuedShape ==
    ASSUME TypeOK, NEW e \in Events
    PROVE  /\ Enqueued(e) \in Row /\ Enqueued(e).status # "absent"
           /\ event[e].status # "absent" => Enqueued(e) = event[e]
           /\ event[e].status = "absent" =>
                Enqueued(e).status = "pending" /\ Enqueued(e).token = event[e].token
  <1>1. event[e] \in Row
    BY DEF TypeOK
  <1> QED
    BY <1>1, RowWrites DEF Enqueued, CardStatuses

\* What the refund writes to the outbox: it blocks grants that are not under
\* way, and adds revokes that are not there.
LEMMA RefundShape ==
    ASSUME TypeOK, RefundCommits
    PROVE  /\ event' \in [Events -> Row]
           /\ \A e \in Events :
                \/ event'[e] = event[e]
                \/ /\ event[e].status \in {"pending", "blocked"}
                   /\ event'[e].status = "blocked" /\ event'[e].token = event[e].token
                \/ /\ event[e].status = "absent"
                   /\ event'[e].status = "pending" /\ event'[e].token = event[e].token
                   /\ e[2] = "revoke" /\ e[1] \in Revocable
           /\ claim' \in Claims
           /\ claim' \in {"PENDING", "EXPIRED"} => claim' = claim
  <1>1. \A e \in Events :
          event'[e] = IF e[2] = "revoke" /\ e[1] \in Revocable THEN Enqueued(e)
                      ELSE IF /\ refundTx.claim = "DELIVERY_PENDING"
                              /\ e[2] = "grant" /\ e[1] \in Stopped
                              /\ event[e].status \in {"pending", "blocked"}
                      THEN [event[e] EXCEPT !.status = "blocked"]
                      ELSE event[e]
    BY DEF RefundCommits
  <1>2. \A e \in Events : event[e] \in Row
    BY DEF TypeOK
  <1>3. ASSUME NEW e \in Events
        PROVE  /\ event'[e] \in Row
               /\ \/ event'[e] = event[e]
                  \/ /\ event[e].status \in {"pending", "blocked"}
                     /\ event'[e].status = "blocked" /\ event'[e].token = event[e].token
                  \/ /\ event[e].status = "absent"
                     /\ event'[e].status = "pending" /\ event'[e].token = event[e].token
                     /\ e[2] = "revoke" /\ e[1] \in Revocable
    <2>1. CASE e[2] = "revoke" /\ e[1] \in Revocable
      BY <1>1, <2>1, EnqueuedShape
    <2>2. CASE /\ ~(e[2] = "revoke" /\ e[1] \in Revocable)
               /\ event[e].status \in {"pending", "blocked"}
      <3>1. event'[e] = [event[e] EXCEPT !.status = "blocked"] \/ event'[e] = event[e]
        BY <1>1, <2>2
      <3>2. /\ [event[e] EXCEPT !.status = "blocked"] \in Row
            /\ [event[e] EXCEPT !.status = "blocked"].status = "blocked"
            /\ [event[e] EXCEPT !.status = "blocked"].token = event[e].token
        BY <1>2, RowWrites DEF CardStatuses
      <3>3. event[e] \in Row
        BY <1>2
      <3> QED
        BY <2>2, <3>1, <3>2, <3>3
    <2>3. CASE /\ ~(e[2] = "revoke" /\ e[1] \in Revocable)
               /\ event[e].status \notin {"pending", "blocked"}
      BY <1>1, <1>2, <2>3
    <2> QED
      BY <2>1, <2>2, <2>3
  <1>4. event' \in [Events -> Row]
    BY <1>3 DEF RefundCommits
  <1>5. claim' \in Claims /\ (claim' \in {"PENDING", "EXPIRED"} => claim' = claim)
    BY DEF RefundCommits, ClaimAfterRefund, TypeOK, Claims
  <1> QED
    BY <1>3, <1>4, <1>5

LEMMA RefundTypeOK == TypeOK /\ RefundCommits => TypeOK'
  <1> SUFFICES ASSUME TypeOK, RefundCommits PROVE TypeOK'
    OBVIOUS
  <1>1. ASSUME NEW i \in Issues, NEW d \in Delivery
        PROVE  [d EXCEPT !.event = "revoke"] \in Delivery
               /\ [d EXCEPT !.status = "REVOKED"] \in Delivery
    BY DEF Delivery
  <1>2. delivery' \in [Issues -> Delivery]
    BY <1>1 DEF RefundCommits, TypeOK
  <1>3. issue' \in [Issues -> IssueStatuses]
    BY DEF RefundCommits, Cancelled, TypeOK, IssueStatuses
  <1> QED
    BY <1>2, <1>3, RefundShape DEF RefundCommits, TypeOK, walletVars

\* The senders.
LEMMA PickTypeOK ==
    ASSUME TypeOK, NEW w \in Senders, NEW e \in Events, Pick(w, e)
    PROVE  TypeOK'
  <1>1. [pc |-> "claim", event |-> e, seen |-> event[e], token |-> NoToken,
         after |-> FALSE, guarded |-> FALSE, left |-> FALSE] \in Busy
    BY DEF Busy, TypeOK
  <1> QED
    BY <1>1 DEF Pick, TypeOK, rowVars, eventVars, walletVars

\* A row that is claimed.
LEMMA CardClaimShape ==
    ASSUME TypeOK, NEW w \in Senders, Claim(w), ~Finish(w)
    PROVE  LET e == sender[w].event
           IN  /\ Unclaimed(w, e) /\ Fresh(e) \in Tokens \ issued[e]
               /\ event' \in [Events -> Row] /\ stale' \in [Events -> BOOLEAN]
               /\ issued' \in [Events -> SUBSET Tokens]
               /\ sender' \in [Senders -> Busy \cup {Idle}]
               /\ event'[e].status = "processing" /\ event'[e].token = Fresh(e)
               /\ issued' = [issued EXCEPT ![e] = @ \cup {Fresh(e)}]
               /\ stale' = [stale EXCEPT ![e] = FALSE]
               /\ \A x \in Events \ {e} : event'[x] = event[x]
               /\ sender'[w].pc = "check" /\ sender'[w].event = e
               /\ sender'[w].token = Fresh(e) /\ sender'[w].after = (order = "refunded")
               /\ \A v \in Senders \ {w} : sender'[v] = sender[v]
  <1> DEFINE e == sender[w].event
             t == Fresh(e)
             row == [event[e] EXCEPT !.status = "processing", !.token = t]
             at == [sender[w] EXCEPT !.pc = "check", !.token = t, !.after = (order = "refunded")]
  <1>1. /\ Unclaimed(w, e) /\ issued[e] # Tokens
        /\ event' = [event EXCEPT ![e].status = "processing", ![e].token = t]
        /\ stale' = [stale EXCEPT ![e] = FALSE]
        /\ issued' = [issued EXCEPT ![e] = @ \cup {t}]
        /\ sender' = [sender EXCEPT ![w].pc = "check", ![w].token = t,
                                    ![w].after = (order = "refunded")]
    BY DEF Claim
  <1>2. sender[w] \in Busy /\ e \in Events /\ event[e] \in Row
    BY CardSenderShape DEF Claim
  <1>3. t \in Tokens \ issued[e]
    <2>1. \E x \in Tokens : x \notin issued[e]
      BY <1>1, <1>2 DEF TypeOK
    <2> QED
      BY <2>1 DEF Fresh
  <1> HIDE DEF t
  <1>4. row \in Row /\ row.status = "processing" /\ row.token = t
    BY <1>2, <1>3 DEF Row
  <1>5. /\ at \in Busy /\ at.pc = "check" /\ at.event = e /\ at.token = t
        /\ at.after = (order = "refunded")
    BY <1>2, <1>3 DEF Busy
  <1>6. event' = [event EXCEPT ![e] = row] /\ sender' = [sender EXCEPT ![w] = at]
    BY <1>1, <1>2 DEF TypeOK
  <1> HIDE DEF e, row, at
  <1>7. /\ event' \in [Events -> Row] /\ event'[e] = row
        /\ \A x \in Events \ {e} : event'[x] = event[x]
    BY <1>2, <1>4, <1>6 DEF TypeOK
  <1>8. /\ sender' \in [Senders -> Busy \cup {Idle}] /\ sender'[w] = at
        /\ \A v \in Senders \ {w} : sender'[v] = sender[v]
    BY <1>5, <1>6 DEF TypeOK
  <1>9. stale' \in [Events -> BOOLEAN] /\ issued' \in [Events -> SUBSET Tokens]
    BY <1>1, <1>2, <1>3 DEF TypeOK
  <1> QED
    BY <1>1, <1>3, <1>4, <1>5, <1>7, <1>8, <1>9 DEF e, t

\* A claim that ends has found the row claimed and written nothing.
LEMMA ClaimLost ==
    ASSUME TypeOK, NEW w \in Senders, Claim(w), Finish(w)
    PROVE  UNCHANGED eventVars
  <1>1. sender'[w].pc = "idle"
    BY FinishShape
  <1>2. ASSUME sender' = [sender EXCEPT ![w].pc = "check", ![w].token = Fresh(sender[w].event),
                                       ![w].after = (order = "refunded")]
        PROVE  sender'[w].pc = "check"
    <2>1. sender[w] \in Busy
      BY CardSenderShape DEF Claim
    <2> QED
      BY <1>2, <2>1 DEF TypeOK, Busy
  <1> QED
    BY <1>1, <1>2 DEF Claim

LEMMA ClaimStepTypeOK ==
    ASSUME TypeOK, NEW w \in Senders, Claim(w)
    PROVE  TypeOK'
  <1>1. CASE Finish(w) /\ UNCHANGED eventVars
    BY <1>1, FinishShape DEF Claim, TypeOK, rowVars, eventVars, walletVars
  <1>2. CASE ~Finish(w)
    BY <1>2, CardClaimShape DEF Claim, TypeOK, rowVars, walletVars
  <1> QED
    BY <1>1, <1>2, ClaimLost

-----------------------------------------------------------------------------
(* A sender at work *)

\* What its steps after the claim have in common: it ends, or goes on with its row
\* and token; it writes to its row only as the owner, who then ends; of other rows
\* it may only add a revoke.
OwnRowWritten(w) ==
    LET e == sender[w].event
    IN  /\ Holding(w) /\ Owns(w) /\ sender'[w].pc = "idle"
        /\ event'[e].status \notin {"absent", "processing"} /\ ~stale'[e]
RevokeAdded(e) ==
    /\ event[e].status = "absent" /\ event'[e].status = "pending"
    /\ event'[e].token = event[e].token /\ e[2] = "revoke" /\ stale'[e] = stale[e]
Moves(w) ==
    /\ issued' = issued
    /\ \A v \in Senders \ {w} : sender'[v] = sender[v]
    /\ \/ sender'[w].pc = "idle"
       \/ /\ Holding(w) /\ Holding(w)'
          /\ sender'[w].event = sender[w].event /\ sender'[w].token = sender[w].token
          /\ sender'[w].after = sender[w].after
          /\ sender'[w].pc \in {"count", "commit"} =>
               /\ Owns(w) /\ event' = event
               /\ sender'[w].guarded => sender[w].event[2] = "grant"
    /\ \A e \in Events :
         \/ event'[e] = event[e] /\ stale'[e] = stale[e]
         \/ e = sender[w].event /\ OwnRowWritten(w)
         \/ RevokeAdded(e)
    /\ claim' \in {"PENDING", "EXPIRED"} => claim' = claim

LEMMA HoldMoves ==
    ASSUME CardIInv, NEW w \in Senders, Hold(w)
    PROVE  TypeOK' /\ Moves(w)
  <1> DEFINE e == sender[w].event
  <1>1. TypeOK /\ sender[w].pc = "check"
    BY DEF CardIInv, Hold
  <1>2. e \in Events /\ event[e] \in Row
    BY <1>1, CardSenderShape
  <1>3. Finish(w)
    BY DEF Hold
  <1>4. CASE /\ Owns(w)
             /\ event' = [event EXCEPT ![e].status = "blocked"]
             /\ stale' = [stale EXCEPT ![e] = FALSE]
    <2>1. [event[e] EXCEPT !.status = "blocked"] \in Row
            /\ [event[e] EXCEPT !.status = "blocked"].status = "blocked"
      BY <1>2, RowWrites DEF CardStatuses
    <2>2. event' = [event EXCEPT ![e] = [event[e] EXCEPT !.status = "blocked"]]
      BY <1>4
    <2>3. /\ event' \in [Events -> Row] /\ stale' \in [Events -> BOOLEAN]
          /\ event'[e].status = "blocked" /\ ~stale'[e]
          /\ \A x \in Events \ {e} : event'[x] = event[x] /\ stale'[x] = stale[x]
      BY <1>1, <1>2, <1>4, <2>1, <2>2 DEF TypeOK
    <2>4. TypeOK'
      BY <1>1, <1>3, <2>3, FinishShape DEF Hold, TypeOK, rowVars, walletVars
    <2> QED
      BY <1>1, <1>3, <1>4, <2>3, <2>4, FinishShape
      DEF Hold, Moves, OwnRowWritten, Holding, rowVars
  <1>5. CASE UNCHANGED <<event, stale>>
    <2>1. TypeOK'
      BY <1>1, <1>3, <1>5, FinishShape DEF Hold, TypeOK, rowVars, walletVars
    <2> QED
      BY <1>1, <1>3, <1>5, <2>1, FinishShape DEF Hold, Moves, rowVars
  <1> QED
    BY <1>4, <1>5 DEF Hold

\* A step that touches neither the rows nor the claim.
LEMMA GotoMoves ==
    ASSUME CardIInv, NEW w \in Senders, NEW p \in CardPcs, Goto(w, p), Holding(w),
           p \notin {"claim", "count", "commit"}, UNCHANGED eventVars,
           UNCHANGED claim
    PROVE  Moves(w) /\ sender' \in [Senders -> Busy \cup {Idle}]
  <1>1. TypeOK /\ sender[w].pc # "idle"
    BY DEF CardIInv, Holding
  <1>2. Holding(w)'
    BY <1>1, GotoShape DEF Holding, CardPcs
  <1> QED
    BY <1>1, <1>2, GotoShape DEF Moves, eventVars

LEMMA CheckMoves ==
    ASSUME CardIInv, NEW w \in Senders, Check(w)
    PROVE  TypeOK' /\ Moves(w)
  <1>1. TypeOK /\ Holding(w)
    BY DEF CardIInv, Check, Holding
  <1>2. PICK p \in {"block", "mark", "send"} : Goto(w, p)
    BY DEF Check
  <1>3. UNCHANGED <<rowVars, eventVars, refundTx, walletVars, crashes>>
    BY DEF Check
  <1>4. Moves(w) /\ sender' \in [Senders -> Busy \cup {Idle}]
    BY <1>1, <1>2, <1>3, GotoMoves DEF CardPcs, rowVars
  <1> QED
    BY <1>1, <1>3, <1>4 DEF TypeOK, rowVars, eventVars, walletVars

LEMMA MarkMoves ==
    ASSUME CardIInv, NEW w \in Senders, MarkProcessing(w)
    PROVE  TypeOK' /\ Moves(w)
  <1>1. TypeOK /\ Holding(w)
    BY DEF CardIInv, MarkProcessing, Holding
  <1>2. sender[w].event[1] \in Issues
    BY <1>1, CardSenderShape, EventShape DEF Holding
  <1>3. delivery' \in [Issues -> Delivery]
    BY <1>1, <1>2, SetDeliveryShape DEF MarkProcessing, TypeOK
  <1>4. Goto(w, "send") /\ UNCHANGED <<order, issue, claim, eventVars, refundTx, walletVars, crashes>>
    BY DEF MarkProcessing
  <1>5. Moves(w) /\ sender' \in [Senders -> Busy \cup {Idle}]
    BY <1>1, <1>4, GotoMoves DEF CardPcs
  <1> QED
    BY <1>1, <1>3, <1>4, <1>5 DEF TypeOK, eventVars, walletVars

LEMMA SendMoves ==
    ASSUME CardIInv, NEW w \in Senders, Send(w)
    PROVE  TypeOK' /\ Moves(w)
  <1>1. TypeOK /\ Holding(w)
    BY DEF CardIInv, Send, Holding
  <1>2. sender[w].event \in Events /\ sender[w].event[1] \in Issues
    BY <1>1, CardSenderShape, EventShape DEF Holding
  <1>3. received' \subseteq Events /\ held' \in [Issues -> BOOLEAN]
    BY <1>1, <1>2 DEF Send, Taken, TypeOK, walletVars
  <1>4. PICK p \in {"record", "failed"} : Goto(w, p)
    BY DEF Send
  <1>5. UNCHANGED <<rowVars, eventVars, refundTx, crashes>>
    BY DEF Send
  <1>6. Moves(w) /\ sender' \in [Senders -> Busy \cup {Idle}]
    BY <1>1, <1>4, <1>5, GotoMoves DEF CardPcs, rowVars
  <1> QED
    BY <1>1, <1>3, <1>5, <1>6 DEF TypeOK, rowVars, eventVars

\* A row that the owner settles, or a lost lease.
LEMMA SettleMoves ==
    ASSUME CardIInv, NEW w \in Senders, Holding(w), Finish(w), UNCHANGED <<claim, issued>>,
           \/ UNCHANGED <<event, stale>>
           \/ Owns(w) /\ \E s \in {"pending", "blocked", "dead"}, n \in Nat : Settle(w, s, n)
    PROVE  /\ Moves(w)
           /\ event' \in [Events -> Row] /\ stale' \in [Events -> BOOLEAN]
           /\ sender' \in [Senders -> Busy \cup {Idle}]
  <1>1. TypeOK /\ sender[w].pc # "idle"
    BY DEF CardIInv, Holding
  <1>2. CASE UNCHANGED <<event, stale>>
    BY <1>1, <1>2, FinishShape DEF Moves, TypeOK
  <1>3. ASSUME Owns(w), NEW s \in {"pending", "blocked", "dead"}, NEW n \in Nat, Settle(w, s, n)
        PROVE  Moves(w) /\ event' \in [Events -> Row] /\ stale' \in [Events -> BOOLEAN]
    <2>1. s \in CardStatuses
      BY DEF CardStatuses
    <2>2. /\ event' \in [Events -> Row] /\ stale' \in [Events -> BOOLEAN]
          /\ event'[sender[w].event].status = s
          /\ ~stale'[sender[w].event]
          /\ \A e \in Events \ {sender[w].event} :
                event'[e] = event[e] /\ stale'[e] = stale[e]
      BY <1>1, <1>3, <2>1, SettleShape
    <2>3. OwnRowWritten(w)
      BY <1>1, <1>3, <2>2, FinishShape DEF OwnRowWritten
    <2> QED
      BY <1>1, <2>2, <2>3, FinishShape DEF Moves
  <1> QED
    BY <1>1, <1>2, <1>3, FinishShape

LEMMA BlockMoves ==
    ASSUME CardIInv, NEW w \in Senders, Block(w)
    PROVE  TypeOK' /\ Moves(w)
  <1> DEFINE e == sender[w].event
  <1>1. TypeOK /\ Holding(w) /\ sender[w].pc # "idle"
    BY DEF CardIInv, Block, Holding
  <1>2. e \in Events /\ e[1] \in Issues /\ event[e].attempt \in Nat
    BY <1>1, CardSenderShape, EventShape DEF Row
  <1>3. delivery' \in [Issues -> Delivery]
    BY <1>1, <1>2, SetDeliveryShape DEF Block, TypeOK
  <1>4. \/ UNCHANGED <<event, stale>>
        \/ Owns(w) /\ \E s \in {"pending", "blocked", "dead"}, n \in Nat : Settle(w, s, n)
    BY <1>2 DEF Block
  <1>5. Finish(w) /\ UNCHANGED <<order, issue, claim, issued, refundTx, walletVars, crashes>>
    BY DEF Block
  <1>6. /\ Moves(w)
        /\ event' \in [Events -> Row] /\ stale' \in [Events -> BOOLEAN]
        /\ sender' \in [Senders -> Busy \cup {Idle}]
    BY <1>1, <1>4, <1>5, SettleMoves
  <1> QED
    BY <1>1, <1>3, <1>5, <1>6 DEF TypeOK, walletVars

LEMMA FailedMoves ==
    ASSUME CardIInv, NEW w \in Senders, Failed(w)
    PROVE  TypeOK' /\ Moves(w)
  <1> DEFINE e == sender[w].event
             n == sender[w].seen.attempt + 1
  <1>1. TypeOK /\ Holding(w) /\ sender[w].pc # "idle"
    BY DEF CardIInv, Failed, Holding
  <1>2. e \in Events /\ e[1] \in Issues /\ n \in Nat
    BY <1>1, CardSenderShape, EventShape DEF Row
  <1>3. NextStatus(n) \in {"pending", "dead"}
    BY DEF NextStatus
  <1>4. delivery' \in [Issues -> Delivery]
    <2>1. CASE UNCHANGED delivery
      BY <1>1, <2>1 DEF TypeOK
    <2>2. CASE SetDelivery(e[1], "DEAD") \/ SetDelivery(e[1], "FAILED")
      BY <1>1, <1>2, <2>2, SetDeliveryShape
    <2> QED
      BY <2>1, <2>2 DEF Failed
  <1>5. \/ UNCHANGED <<event, stale>>
        \/ Owns(w) /\ \E s \in {"pending", "blocked", "dead"}, m \in Nat : Settle(w, s, m)
    BY <1>2, <1>3 DEF Failed
  <1>6. Finish(w) /\ UNCHANGED <<order, issue, claim, issued, refundTx, walletVars, crashes>>
    BY DEF Failed
  <1>7. /\ Moves(w)
        /\ event' \in [Events -> Row] /\ stale' \in [Events -> BOOLEAN]
        /\ sender' \in [Senders -> Busy \cup {Idle}]
    BY <1>1, <1>5, <1>6, SettleMoves
  <1> QED
    BY <1>1, <1>4, <1>6, <1>7 DEF TypeOK, walletVars

LEMMA RecordMoves ==
    ASSUME CardIInv, NEW w \in Senders, Record(w)
    PROVE  TypeOK' /\ Moves(w)
  <1>1. TypeOK /\ Holding(w) /\ sender[w].pc = "record" /\ sender[w] \in Busy
    BY CardSenderShape DEF CardIInv, Record, Holding
  <1>2. UNCHANGED <<rowVars, eventVars, refundTx, walletVars, crashes>>
    BY DEF Record
  <1>3. CASE Finish(w)
    BY <1>1, <1>2, <1>3, FinishShape DEF Moves, TypeOK, rowVars, eventVars, walletVars
  <1>4. ASSUME NEW g \in BOOLEAN, Owns(w), g => sender[w].event[2] = "grant",
               sender' = [sender EXCEPT ![w].pc = "count", ![w].guarded = g]
        PROVE  TypeOK' /\ Moves(w)
    <2> DEFINE next == [sender[w] EXCEPT !.pc = "count", !.guarded = g]
    <2>1. /\ next \in Busy /\ next.pc = "count" /\ next.guarded = g
          /\ next.event = sender[w].event /\ next.token = sender[w].token
          /\ next.after = sender[w].after
      BY <1>1 DEF Busy
    <2>2. sender' = [sender EXCEPT ![w] = next]
      BY <1>4
    <2> HIDE DEF next
    <2>3. /\ sender' \in [Senders -> Busy \cup {Idle}] /\ sender'[w] = next
          /\ \A v \in Senders \ {w} : sender'[v] = sender[v]
      BY <1>1, <2>1, <2>2 DEF TypeOK
    <2>4. Holding(w)'
      BY <2>1, <2>3 DEF Holding
    <2> QED
      BY <1>1, <1>2, <1>4, <2>1, <2>3, <2>4 DEF Moves, TypeOK, rowVars, eventVars, walletVars
  <1>5. (sender[w].event[2] = "grant" /\ Guard) \in BOOLEAN
    OBVIOUS
  <1> QED
    BY <1>3, <1>4, <1>5 DEF Record

LEMMA CountMoves ==
    ASSUME CardIInv, NEW w \in Senders, Count(w)
    PROVE  TypeOK' /\ Moves(w)
  <1>1. /\ TypeOK /\ Holding(w) /\ sender[w] \in Busy /\ Owns(w)
        /\ sender[w].guarded => sender[w].event[2] = "grant"
    BY CardSenderShape DEF CardIInv, Count, Holding, LockedIsOwned, GuardedIsGrant
  <1>2. UNCHANGED <<rowVars, eventVars, refundTx, walletVars, crashes>>
    BY DEF Count
  <1>3. PICK left \in BOOLEAN :
          sender' = [sender EXCEPT ![w].pc = "commit", ![w].left = left]
    BY DEF Count
  <1> DEFINE next == [sender[w] EXCEPT !.pc = "commit", !.left = left]
  <1>4. /\ next \in Busy /\ next.pc = "commit" /\ next.guarded = sender[w].guarded
        /\ next.event = sender[w].event /\ next.token = sender[w].token
        /\ next.after = sender[w].after
    BY <1>1 DEF Busy
  <1>5. sender' = [sender EXCEPT ![w] = next]
    BY <1>3
  <1> HIDE DEF next
  <1>6. /\ sender' \in [Senders -> Busy \cup {Idle}] /\ sender'[w] = next
        /\ \A v \in Senders \ {w} : sender'[v] = sender[v]
    BY <1>1, <1>4, <1>5 DEF TypeOK
  <1>7. Holding(w)'
    BY <1>4, <1>6 DEF Holding
  <1> QED
    BY <1>1, <1>2, <1>4, <1>6, <1>7 DEF Moves, TypeOK, rowVars, eventVars, walletVars

\* A success is recorded: the delivery and the claim follow, or are reversed.
LEMMA SucceedShape ==
    ASSUME CardIInv, NEW w \in Senders, Succeed(w)
    PROVE  LET e == sender[w].event
               rev == <<e[1], "revoke">>
           IN  /\ delivery' \in [Issues -> Delivery] /\ claim' \in Claims
               /\ claim' \in {"PENDING", "EXPIRED"} => claim' = claim
               /\ \A i \in Issues :
                    \/ delivery'[i].status = delivery[i].status
                    \/ i = e[1] /\ delivery'[i].status = Goal(e[2])
               /\ event' \in [Events -> Row]
               /\ \A x \in Events \ {e} :
                    \/ event'[x] = event[x]
                    \/ /\ x = rev /\ event[x].status = "absent" /\ sender[w].guarded
                       /\ event'[x].status = "pending" /\ event'[x].token = event[x].token
               /\ event'[e].status = "succeeded"
               /\ \A i \in Issues :
                    \/ delivery'[i].event = delivery[i].event
                    \/ i = e[1] /\ e[2] = "grant" /\ delivery'[i].event = "revoke"
  <1> DEFINE e == sender[w].event
             rev == <<e[1], "revoke">>
             done == [status |-> "succeeded", token |-> NoToken, attempt |-> event[e].attempt]
  <1>1. /\ TypeOK /\ e \in Events /\ event[e] \in Row /\ Owns(w)
    BY CardSenderShape DEF CardIInv, Succeed, LockedIsOwned
  <1>2. e[1] \in Issues /\ e[2] \in {"grant", "revoke"} /\ rev \in Events
    BY <1>1, EventShape
  <1>3. done \in Row /\ done.status = "succeeded"
    BY <1>1, RowWrites DEF Row, CardStatuses
  <1>4. Goal(e[2]) \in {"DELIVERED", "REVOKED"} \cap Claims
    BY DEF Goal, Claims
  <1>5. CASE /\ ~sender[w].guarded
             /\ event' = [event EXCEPT ![e] = done]
             /\ \/ PointsTo(e[1], e) /\ SyncSucceeded(w)
                \/ ~PointsTo(e[1], e) /\ UNCHANGED <<delivery, claim>>
    <2>1. CASE SyncSucceeded(w)
      <3>1. SetDelivery(e[1], Goal(e[2]))
        BY <2>1 DEF SyncSucceeded
      <3>2. claim' \in {claim, Goal(e[2])}
        BY <2>1 DEF SyncSucceeded
      <3> QED
        BY <1>1, <1>2, <1>3, <1>4, <1>5, <3>1, <3>2, SetDeliveryShape DEF TypeOK
    <2>2. CASE UNCHANGED <<delivery, claim>>
      BY <1>1, <1>2, <1>3, <1>5, <2>2 DEF TypeOK
    <2> QED
      BY <1>5, <2>1, <2>2
  <1>6. CASE /\ sender[w].guarded
             /\ Compensate(e)
             /\ event' = [event EXCEPT ![e] = done,
                            ![rev] = IF Reversed(e) THEN Enqueued(rev) ELSE @]
    <2>1. Enqueued(rev) \in Row /\ Enqueued(rev).status # "absent"
            /\ (event[rev].status # "absent" => Enqueued(rev) = event[rev])
            /\ (event[rev].status = "absent" =>
                  Enqueued(rev).status = "pending" /\ Enqueued(rev).token = event[rev].token)
      BY <1>1, <1>2, EnqueuedShape
    <2>2. e[2] = "grant" /\ rev # e
      BY <1>2, <1>6 DEF CardIInv, GuardedIsGrant, Succeed
    <2>3. /\ event' \in [Events -> Row] /\ event'[e] = done
          /\ event'[rev] = IF Reversed(e) THEN Enqueued(rev) ELSE event[rev]
          /\ \A x \in Events \ {e, rev} : event'[x] = event[x]
      BY <1>1, <1>2, <1>3, <1>6, <2>1, <2>2 DEF TypeOK
    <2>4. CASE Reversed(e)
      <3> DEFINE reversed == [delivery[e[1]] EXCEPT !.event = "revoke"]
      <3>1. /\ reversed \in Delivery
            /\ reversed.status = delivery[e[1]].status /\ reversed.event = "revoke"
        BY <1>1, <1>2 DEF TypeOK, Delivery
      <3>2. delivery' = [delivery EXCEPT ![e[1]] = reversed] /\ claim' = Compensated
        BY <1>6, <2>4 DEF Compensate
      <3> HIDE DEF reversed
      <3>4. /\ delivery' \in [Issues -> Delivery] /\ delivery'[e[1]] = reversed
            /\ \A i \in Issues \ {e[1]} : delivery'[i] = delivery[i]
        BY <1>1, <1>2, <3>1, <3>2 DEF TypeOK
      <3>3. Compensated \in Claims \ {"PENDING", "EXPIRED"}
        BY <1>1 DEF Compensated, TypeOK, Claims
      <3> QED
        BY <1>2, <1>3, <1>6, <2>1, <2>2, <2>3, <3>1, <3>2, <3>3, <3>4
    <2>5. CASE ~Reversed(e)
      <3>1. UNCHANGED <<delivery, claim>>
        BY <1>6, <2>5 DEF Compensate
      <3> QED
        BY <1>1, <1>3, <2>3, <2>5, <3>1 DEF TypeOK
    <2> QED
      BY <2>4, <2>5
  <1> QED
    BY <1>5, <1>6 DEF Succeed

LEMMA SucceedMoves ==
    ASSUME CardIInv, NEW w \in Senders, Succeed(w)
    PROVE  TypeOK' /\ Moves(w)
  <1> DEFINE e == sender[w].event
  <1>1. /\ TypeOK /\ Holding(w) /\ e \in Events /\ Owns(w)
    BY CardSenderShape DEF CardIInv, Succeed, LockedIsOwned, Holding
  <1>2. /\ stale' = [stale EXCEPT ![e] = FALSE] /\ Finish(w)
        /\ UNCHANGED <<order, issue, issued, refundTx, walletVars, crashes>>
    BY DEF Succeed
  <1>3. /\ sender' \in [Senders -> Busy \cup {Idle}] /\ sender'[w].pc = "idle"
        /\ \A v \in Senders \ {w} : sender'[v] = sender[v]
    BY <1>1, <1>2, FinishShape
  <1>4. /\ stale' \in [Events -> BOOLEAN] /\ ~stale'[e]
        /\ \A x \in Events \ {e} : stale'[x] = stale[x]
    BY <1>1, <1>2 DEF TypeOK
  <1>5. OwnRowWritten(w)
    BY <1>1, <1>3, <1>4, SucceedShape DEF OwnRowWritten
  <1>6. ASSUME NEW x \in Events \ {e}
        PROVE  (event'[x] = event[x] /\ stale'[x] = stale[x]) \/ RevokeAdded(x)
    <2>1. <<e[1], "revoke">>[2] = "revoke"
      OBVIOUS
    <2> QED
      BY <1>4, <2>1, SucceedShape DEF RevokeAdded
  <1>7. Moves(w)
    BY <1>2, <1>3, <1>5, <1>6, SucceedShape DEF Moves
  <1>8. /\ delivery' \in [Issues -> Delivery] /\ claim' \in Claims
        /\ event' \in [Events -> Row]
    BY SucceedShape
  <1> QED
    BY <1>1, <1>2, <1>3, <1>4, <1>7, <1>8 DEF TypeOK, walletVars

LEMMA EndMoves ==
    ASSUME CardIInv, NEW w \in Senders, Finish(w),
           UNCHANGED <<rowVars, eventVars, refundTx, walletVars>>, crashes' \in 0..CrashLimit
    PROVE  TypeOK' /\ Moves(w)
  <1>1. TypeOK
    BY DEF CardIInv
  <1> QED
    BY <1>1, FinishShape DEF Moves, TypeOK, rowVars, eventVars, walletVars

LEMMA CrashMoves ==
    ASSUME CardIInv, NEW w \in Senders, Crash(w)
    PROVE  TypeOK' /\ Moves(w)
  <1>1. crashes' \in 0..CrashLimit
    BY EnvAssumption DEF Crash, CardIInv, TypeOK
  <1> QED
    BY <1>1, EndMoves DEF Crash

-----------------------------------------------------------------------------
(* The invariant *)

\* A row has one owner.
LEMMA OneOwner ==
    ASSUME CardIInv, NEW v \in Senders, NEW w \in Senders, Holding(v), Holding(w),
           Owns(v), Owns(w), sender[v].event = sender[w].event
    PROVE  v = w
BY DEF CardIInv, TokensDistinct, Owns

LEMMA MovesKeepsIInv ==
    ASSUME CardIInv, TypeOK', NEW w \in Senders, Moves(w)
    PROVE  CardIInv'
  <1>1. /\ sender'[w].pc \notin {"idle", "claim"} =>
             /\ Holding(w)
             /\ sender'[w].event = sender[w].event /\ sender'[w].token = sender[w].token
        /\ sender'[w].pc # "claim"
    BY DEF Moves, Holding
  <1>2. \A e \in Events : event[e].status # "absent" => event'[e].status # "absent"
    BY DEF Moves, OwnRowWritten, RevokeAdded
  <1>3. ClaimFirst'
    <2> SUFFICES ASSUME claim' \in {"PENDING", "EXPIRED"}, NEW i \in Issues
                 PROVE  event'[<<i, "grant">>].status = "absent"
      BY DEF ClaimFirst
    <2> DEFINE e == <<i, "grant">>
    <2>1. e \in Events /\ e[2] = "grant" /\ event[e].status = "absent"
      BY EventShape DEF CardIInv, ClaimFirst, Moves
    <2>2. ~(e = sender[w].event /\ OwnRowWritten(w))
      BY <2>1 DEF OwnRowWritten, Owns
    <2>3. ~RevokeAdded(e)
      BY <2>1 DEF RevokeAdded
    <2> QED
      BY <2>1, <2>2, <2>3 DEF Moves
  <1>4. RowExists'
    <2> SUFFICES ASSUME NEW v \in Senders, sender'[v].pc # "idle"
                 PROVE  event'[sender'[v].event].status # "absent"
      BY DEF RowExists
    <2>1. sender'[v].event = sender[v].event /\ sender[v].pc # "idle"
      BY <1>1 DEF Moves, Holding
    <2>2. sender[v].event \in Events
      BY <2>1, CardSenderShape DEF CardIInv
    <2> QED
      BY <1>2, <2>1, <2>2 DEF CardIInv, RowExists
  <1>5. CardStaleIsProcessing'
    <2> SUFFICES ASSUME NEW e \in Events, stale'[e] PROVE event'[e].status = "processing"
      BY DEF CardStaleIsProcessing
    <2>1. ~(e = sender[w].event /\ OwnRowWritten(w))
      BY DEF OwnRowWritten
    <2>2. ~RevokeAdded(e)
      BY DEF RevokeAdded, CardIInv, CardStaleIsProcessing
    <2> QED
      BY <2>1, <2>2 DEF Moves, CardIInv, CardStaleIsProcessing
  <1>6. SeenIsClaimable'
    BY <1>1 DEF CardIInv, SeenIsClaimable, Moves
  <1>7. TokenIssued'
    BY <1>1 DEF CardIInv, TokenIssued, Moves, Holding
  <1>8. TokensDistinct'
    BY <1>1 DEF CardIInv, TokensDistinct, Moves, Holding
  <1>9. LockedIsOwned'
    <2> SUFFICES ASSUME NEW v \in Senders, sender'[v].pc \in {"count", "commit"}
                 PROVE  Owns(v)'
      BY DEF LockedIsOwned
    <2>1. CASE v = w
      BY <2>1, <1>1 DEF Moves, Owns
    <2>2. CASE v # w
      <3>1. sender'[v] = sender[v] /\ Owns(v) /\ Holding(v) /\ sender[v].event \in Events
        BY <2>2, CardSenderShape DEF Moves, CardIInv, LockedIsOwned, Holding
      <3>2. ~(sender[v].event = sender[w].event /\ OwnRowWritten(w))
        BY <2>2, <3>1, OneOwner DEF OwnRowWritten
      <3>3. ~RevokeAdded(sender[v].event)
        BY <3>1 DEF RevokeAdded, Owns
      <3>4. event'[sender[v].event] = event[sender[v].event]
        BY <3>1, <3>2, <3>3 DEF Moves
      <3> QED
        BY <3>1, <3>4 DEF Owns
    <2> QED
      BY <2>1, <2>2
  <1>10. GuardedIsGrant'
    BY <1>1 DEF Moves, CardIInv, GuardedIsGrant
  <1> QED
    BY <1>3, <1>4, <1>5, <1>6, <1>7, <1>8, <1>9, <1>10 DEF CardIInv

\* What the steps of others do to the outbox: they leave locked rows alone, and a
\* stale row is one that was stale or is being processed.
OutboxKept ==
    /\ issued' = issued /\ sender' = sender
    /\ \A e \in Events :
         /\ event[e].status # "absent" => event'[e].status # "absent"
         /\ Locked(e) /\ event[e].status = "processing" => event'[e] = event[e]
         /\ stale'[e] => event'[e].status = "processing"

LEMMA OutboxKeepsIInv ==
    ASSUME CardIInv, TypeOK', ClaimFirst', OutboxKept
    PROVE  CardIInv'
  <1>1. RowExists'
    <2> SUFFICES ASSUME NEW v \in Senders, sender[v].pc # "idle"
                 PROVE  event'[sender[v].event].status # "absent"
      BY DEF RowExists, OutboxKept
    <2>1. sender[v].event \in Events
      BY CardSenderShape DEF CardIInv
    <2> QED
      BY <2>1 DEF OutboxKept, CardIInv, RowExists
  <1>2. CardStaleIsProcessing'
    BY DEF OutboxKept, CardStaleIsProcessing
  <1>3. SeenIsClaimable' /\ TokenIssued' /\ TokensDistinct' /\ GuardedIsGrant'
    BY DEF OutboxKept, CardIInv, SeenIsClaimable, TokenIssued, TokensDistinct, GuardedIsGrant, Holding
  <1>4. LockedIsOwned'
    <2> SUFFICES ASSUME NEW v \in Senders, sender[v].pc \in {"count", "commit"}
                 PROVE  Owns(v)'
      BY DEF LockedIsOwned, OutboxKept
    <2>1. /\ sender[v].event \in Events /\ Owns(v) /\ Locked(sender[v].event)
      BY CardSenderShape DEF CardIInv, LockedIsOwned, Locked
    <2>2. event'[sender[v].event] = event[sender[v].event]
      BY <2>1 DEF OutboxKept, Owns
    <2> QED
      BY <2>1, <2>2 DEF Owns, OutboxKept
  <1> QED
    BY <1>1, <1>2, <1>3, <1>4 DEF CardIInv

LEMMA PickKeepsIInv ==
    ASSUME CardIInv, NEW w \in Senders, NEW e \in Events, Pick(w, e)
    PROVE  CardIInv'
  <1> DEFINE new == [pc |-> "claim", event |-> e, seen |-> event[e], token |-> NoToken,
                     after |-> FALSE, guarded |-> FALSE, left |-> FALSE]
  <1>1. TypeOK' /\ UNCHANGED <<rowVars, eventVars>>
    BY PickTypeOK DEF Pick, CardIInv
  <1>2. /\ sender'[w] = new /\ \A v \in Senders \ {w} : sender'[v] = sender[v]
    BY DEF Pick, CardIInv, TypeOK
  <1>3. event[e].status \in {"pending", "blocked", "dead"}
    BY DEF Pick, Retried
  <1>4. RowExists'
    BY <1>1, <1>2, <1>3 DEF CardIInv, RowExists, eventVars
  <1>5. SeenIsClaimable'
    BY <1>2, <1>3 DEF CardIInv, SeenIsClaimable
  <1>6. \A v \in Senders : sender'[v] = sender[v] \/ sender'[v].pc = "claim"
    BY <1>2
  <1>7. TokenIssued' /\ TokensDistinct'
    BY <1>1, <1>6 DEF CardIInv, TokenIssued, TokensDistinct, Holding, eventVars
  <1>8. LockedIsOwned' /\ GuardedIsGrant'
    BY <1>1, <1>6 DEF CardIInv, LockedIsOwned, GuardedIsGrant, Owns, eventVars
  <1>9. ClaimFirst' /\ CardStaleIsProcessing'
    BY <1>1 DEF CardIInv, ClaimFirst, CardStaleIsProcessing, rowVars, eventVars
  <1> QED
    BY <1>1, <1>4, <1>5, <1>7, <1>8, <1>9 DEF CardIInv

\* A fresh token is nobody's.
LEMMA CardClaimKeepsIInv ==
    ASSUME CardIInv, NEW w \in Senders, Claim(w)
    PROVE  CardIInv'
  <1> DEFINE e == sender[w].event
  <1>1. TypeOK /\ sender[w].pc = "claim" /\ e \in Events /\ TypeOK'
    BY CardSenderShape, ClaimStepTypeOK DEF Claim, CardIInv
  <1>2. CASE Finish(w) /\ UNCHANGED eventVars
    <2>1. UNCHANGED <<rowVars, refundTx, walletVars, crashes>>
      BY DEF Claim
    <2>2. crashes' \in 0..CrashLimit
      BY <1>1 DEF TypeOK
    <2> QED
      BY <1>2, <2>1, <2>2, EndMoves, MovesKeepsIInv
  <1>3. CASE ~Finish(w)
    <2>1. /\ Unclaimed(w, e) /\ Fresh(e) \in Tokens \ issued[e]
          /\ event'[e].status = "processing" /\ event'[e].token = Fresh(e)
          /\ issued' = [issued EXCEPT ![e] = @ \cup {Fresh(e)}]
          /\ stale' = [stale EXCEPT ![e] = FALSE]
          /\ \A x \in Events \ {e} : event'[x] = event[x]
          /\ sender'[w].pc = "check" /\ sender'[w].event = e
          /\ sender'[w].token = Fresh(e)
          /\ \A v \in Senders \ {w} : sender'[v] = sender[v]
      BY <1>1, <1>3, CardClaimShape
    <2>2. UNCHANGED <<rowVars>>
      BY DEF Claim
    <2>3. event[e].status \in {"pending", "blocked", "dead"}
      BY <1>1, <2>1 DEF Unclaimed, CardIInv, SeenIsClaimable
    <2>4. /\ issued'[e] = issued[e] \cup {Fresh(e)}
          /\ \A x \in Events : issued[x] \subseteq issued'[x]
      BY <1>1, <2>1 DEF TypeOK
    <2>5. ClaimFirst'
      <3> SUFFICES ASSUME claim \in {"PENDING", "EXPIRED"}, NEW i \in Issues
                   PROVE  event'[<<i, "grant">>].status = "absent"
        BY <2>2 DEF ClaimFirst, rowVars
      <3>1. <<i, "grant">> \in Events /\ event[<<i, "grant">>].status = "absent"
        BY EventShape DEF CardIInv, ClaimFirst
      <3> QED
        BY <2>1, <2>3, <3>1
    <2>6. RowExists'
      <3> SUFFICES ASSUME NEW v \in Senders, sender'[v].pc # "idle"
                   PROVE  event'[sender'[v].event].status # "absent"
        BY DEF RowExists
      <3>1. CASE v = w
        BY <2>1, <3>1
      <3>2. CASE v # w
        <4>1. sender'[v] = sender[v] /\ sender[v].event \in Events
                /\ event[sender[v].event].status # "absent"
          BY <2>1, <3>2, CardSenderShape DEF CardIInv, RowExists
        <4> QED
          BY <2>1, <4>1
      <3> QED
        BY <3>1, <3>2
    <2>7. CardStaleIsProcessing'
      BY <1>1, <2>1 DEF CardIInv, TypeOK, CardStaleIsProcessing
    <2>8. SeenIsClaimable' /\ GuardedIsGrant'
      BY <2>1 DEF CardIInv, SeenIsClaimable, GuardedIsGrant
    <2>9. \A v \in Senders \ {w} : Holding(v)' =>
             /\ Holding(v) /\ sender[v].event \in Events
             /\ sender[v].token \in issued[sender[v].event]
      BY <2>1, CardSenderShape DEF CardIInv, TokenIssued, Holding
    <2>10. TokenIssued'
      BY <2>1, <2>4, <2>9 DEF TokenIssued
    <2>11. TokensDistinct'
      <3> SUFFICES ASSUME NEW v \in Senders, NEW u \in Senders, Holding(v)', Holding(u)',
                          sender'[v].event = sender'[u].event,
                          sender'[v].token = sender'[u].token
                   PROVE  v = u
        BY DEF TokensDistinct
      <3>1. \A x \in Senders \ {w} :
              Holding(x)' /\ sender'[x].event = e => sender'[x].token # Fresh(e)
        BY <2>1, <2>9
      <3>2. CASE v # w /\ u # w
        BY <2>1, <2>9, <3>2 DEF CardIInv, TokensDistinct
      <3>3. CASE v = w \/ u = w
        BY <2>1, <3>1, <3>3
      <3> QED
        BY <3>2, <3>3
    <2>12. LockedIsOwned'
      <3> SUFFICES ASSUME NEW v \in Senders, sender'[v].pc \in {"count", "commit"}
                   PROVE  Owns(v)'
        BY DEF LockedIsOwned
      <3>1. sender'[v] = sender[v] /\ Owns(v) /\ sender[v].event \in Events
        BY <2>1, CardSenderShape DEF CardIInv, LockedIsOwned
      <3>2. sender[v].event # e
        BY <2>3, <3>1 DEF Owns
      <3> QED
        BY <2>1, <3>1, <3>2 DEF Owns
    <2> QED
      BY <1>1, <2>5, <2>6, <2>7, <2>8, <2>10, <2>11, <2>12 DEF CardIInv
  <1> QED
    BY <1>1, <1>2, <1>3, ClaimLost

LEMMA CardInitIInv == Init => CardIInv
  <1> SUFFICES ASSUME Init PROVE CardIInv
    OBVIOUS
  <1>1. \A w \in Senders : sender[w].pc = "idle"
    BY IdlePc DEF Init
  <1>2. \A e \in Events : event[e].status = "absent" /\ ~stale[e]
    BY DEF Init, Absent
  <1>3. \A i \in Issues : event[<<i, "grant">>].status = "absent"
    BY <1>2, EventShape
  <1> QED
    BY <1>1, <1>2, <1>3, InitTypeOK
    DEF CardIInv, ClaimFirst, RowExists, CardStaleIsProcessing, SeenIsClaimable, TokenIssued,
        TokensDistinct, LockedIsOwned, GuardedIsGrant, Holding

\* The claim, the refund, the mint and the lease.
LEMMA OthersKeepIInv ==
    ASSUME CardIInv,
           \/ Confirm \/ Expire \/ Reissue \/ RefundReads \/ RefundCommits \/ ReclaimStale
           \/ \E i \in Issues : Mint(i)
           \/ \E e \in Events : LeaseTimesOut(e)
    PROVE  CardIInv'
  <1>a. TypeOK
    BY DEF CardIInv
  <1>1. CASE Confirm
    <2>1. TypeOK'
      BY <1>a, <1>1, ClaimTypeOK
    <2>2. CASE ConfirmClaim
      <3>1. \A e \in Events : event'[e] = event[e] \/ event'[e].status = "pending"
        <4>1. \A e \in Events : [event[e] EXCEPT !.status = "pending"].status = "pending"
          BY <1>a, RowWrites DEF TypeOK, CardStatuses
        <4> QED
          BY <2>2, <4>1 DEF ConfirmClaim
      <3>2. ASSUME NEW e \in Events, event[e].status = "processing" PROVE event'[e] = event[e]
        <4>1. e[2] # "grant"
          BY <1>1, <3>2, EventShape DEF CardIInv, ClaimFirst, Confirm
        <4> QED
          BY <2>2, <4>1 DEF ConfirmClaim
      <3>3. ClaimFirst'
        BY <2>2 DEF ClaimFirst, ConfirmClaim
      <3>4. OutboxKept
        BY <1>1, <3>1, <3>2 DEF Confirm, OutboxKept, CardIInv, CardStaleIsProcessing
      <3> QED
        BY <2>1, <3>3, <3>4, OutboxKeepsIInv
    <2>3. CASE RejectClaim
      <3>1. OutboxKept /\ ClaimFirst'
        BY <1>1, <2>3 DEF Confirm, RejectClaim, OutboxKept, ClaimFirst, CardIInv, CardStaleIsProcessing
      <3> QED
        BY <2>1, <3>1, OutboxKeepsIInv
    <2> QED
      BY <1>1, <2>2, <2>3 DEF Confirm
  <1>2. CASE Expire \/ Reissue \/ RefundReads \/ \E i \in Issues : Mint(i)
    <2>1. TypeOK'
      BY <1>a, <1>2, ClaimTypeOK
    <2>2. UNCHANGED <<eventVars, sender>>
      BY <1>2 DEF Expire, Reissue, RefundReads, Mint
    <2>3. claim' \in {"PENDING", "EXPIRED"} => claim \in {"PENDING", "EXPIRED"}
      BY <1>2 DEF Expire, Reissue, Reissuable, RefundReads, Mint, rowVars
    <2>4. OutboxKept /\ ClaimFirst'
      BY <2>2, <2>3 DEF OutboxKept, ClaimFirst, CardIInv, CardStaleIsProcessing, eventVars
    <2> QED
      BY <2>1, <2>4, OutboxKeepsIInv
  <1>3. CASE RefundCommits
    <2>1. TypeOK'
      BY <1>a, <1>3, RefundTypeOK
    <2>2. OutboxKept
      BY <1>a, <1>3, RefundShape DEF OutboxKept, RefundCommits, CardIInv, CardStaleIsProcessing
    <2>3. ClaimFirst'
      <3> SUFFICES ASSUME claim' \in {"PENDING", "EXPIRED"}, NEW i \in Issues
                   PROVE  event'[<<i, "grant">>].status = "absent"
        BY DEF ClaimFirst
      <3>1. /\ <<i, "grant">> \in Events /\ <<i, "grant">>[2] = "grant"
            /\ event[<<i, "grant">>].status = "absent"
        BY <1>a, <1>3, RefundShape, EventShape DEF CardIInv, ClaimFirst
      <3> QED
        BY <1>a, <1>3, <3>1, RefundShape
    <2> QED
      BY <2>1, <2>2, <2>3, OutboxKeepsIInv
  <1>4. CASE ReclaimStale
    <2> DEFINE put(e) == [event[e] EXCEPT !.status = "pending", !.token = NoToken]
    <2>1. \A e \in Events : put(e) \in Row /\ put(e).status = "pending"
      BY <1>a DEF TypeOK, Row
    <2>2. /\ event' = [e \in Events |-> IF stale[e] THEN put(e) ELSE event[e]]
          /\ stale' = [e \in Events |-> FALSE]
          /\ UNCHANGED <<rowVars, issued, sender, refundTx, walletVars, crashes>>
          /\ \A e \in Events : stale[e] => ~Locked(e)
      BY <1>4 DEF ReclaimStale
    <2> HIDE DEF put
    <2>3. TypeOK'
      BY <1>a, <2>1, <2>2 DEF TypeOK, rowVars, walletVars
    <2>4. OutboxKept
      BY <2>1, <2>2 DEF OutboxKept
    <2>5. ClaimFirst'
      <3> SUFFICES ASSUME claim \in {"PENDING", "EXPIRED"}, NEW i \in Issues
                   PROVE  event'[<<i, "grant">>].status = "absent"
        BY <2>2 DEF ClaimFirst, rowVars
      <3>1. /\ <<i, "grant">> \in Events /\ event[<<i, "grant">>].status = "absent"
            /\ ~stale[<<i, "grant">>]
        BY EventShape DEF CardIInv, ClaimFirst, CardStaleIsProcessing
      <3> QED
        BY <2>2, <3>1
    <2> QED
      BY <2>3, <2>4, <2>5, OutboxKeepsIInv
  <1>5. ASSUME NEW e \in Events, LeaseTimesOut(e) PROVE CardIInv'
    <2>1. /\ event[e].status = "processing" /\ stale' = [stale EXCEPT ![e] = TRUE]
          /\ UNCHANGED <<rowVars, event, issued, sender, refundTx, walletVars, crashes>>
      BY <1>5 DEF LeaseTimesOut
    <2>2. TypeOK'
      BY <1>a, <2>1 DEF TypeOK, rowVars, walletVars
    <2>3. OutboxKept /\ ClaimFirst'
      BY <1>a, <2>1 DEF OutboxKept, ClaimFirst, CardIInv, CardStaleIsProcessing, TypeOK, rowVars
    <2> QED
      BY <2>2, <2>3, OutboxKeepsIInv
  <1> QED
    BY <1>1, <1>2, <1>3, <1>4, <1>5

\* The steps of a sender after the claim.
LEMMA StepMoves ==
    ASSUME CardIInv, NEW w \in Senders, Step(w) \/ Crash(w), ~Claim(w)
    PROVE  TypeOK' /\ Moves(w)
BY HoldMoves, CheckMoves, BlockMoves, MarkMoves, SendMoves, RecordMoves, CountMoves,
   SucceedMoves, FailedMoves, CrashMoves DEF Step

LEMMA CardNextIInv == CardIInv /\ [Next]_vars => CardIInv'
  <1> SUFFICES ASSUME CardIInv, [Next]_vars PROVE CardIInv'
    OBVIOUS
  <1>1. ASSUME NEW w \in Senders, Step(w) \/ Crash(w) PROVE CardIInv'
    BY <1>1, StepMoves, MovesKeepsIInv, CardClaimKeepsIInv
  <1>2. CASE UNCHANGED vars
    BY <1>2 DEF vars, rowVars, eventVars, walletVars, CardIInv, TypeOK, ClaimFirst, RowExists,
                CardStaleIsProcessing, SeenIsClaimable, TokenIssued, TokensDistinct,
                LockedIsOwned, GuardedIsGrant, Holding, Owns
  <1> QED
    BY <1>1, <1>2, PickKeepsIInv, OthersKeepIInv DEF Next

\* Who works on which outbox row, in every state.
THEOREM CardsInvariant == Spec => []CardIInv
BY CardInitIInv, CardNextIInv, PTL DEF Spec

\* The variables have their types in every state of CollectibleDelivery.
THEOREM CardTypeCorrect == Spec => []TypeOK
  <1>1. CardIInv => TypeOK
    BY DEF CardIInv
  <1> QED
    BY <1>1, CardsInvariant, PTL

-----------------------------------------------------------------------------
(* Refinement of JobLease *)

LEMMA LeaseInit == Init => Lease!Init
  <1> SUFFICES ASSUME Init PROVE Lease!Init
    OBVIOUS
  <1>1. \A e \in Events : LeaseStatus(event[e]) = "waiting" /\ LeaseHolder(event[e]) = NoToken
    BY DEF Init, Absent, LeaseStatus, LeaseHolder
  <1> QED
    BY <1>1 DEF Init, Lease!Init

\* Rows that look the same keep their leases.
LEMMA SameLeases ==
    ASSUME TypeOK, TypeOK', issued' = issued,
           \A e \in Events :
              /\ LeaseStatus(event'[e]) = LeaseStatus(event[e])
              /\ LeaseHolder(event'[e]) = LeaseHolder(event[e])
              /\ stale'[e] = stale[e]
    PROVE  UNCHANGED Lease!vars
  <1>1. stale' = stale
    BY DEF TypeOK
  <1> QED
    BY <1>1 DEF Lease!vars

\* A row that nobody is working on and that nobody has finished is waiting.
LEMMA WaitingRow ==
    \A r : r.status \in {"absent", "pending", "blocked"} =>
            LeaseStatus(r) = "waiting" /\ LeaseHolder(r) = NoToken
BY DEF LeaseStatus, LeaseHolder

LEMMA MovesImplementsLease ==
    ASSUME CardIInv, TypeOK', NEW w \in Senders, Moves(w)
    PROVE  [Lease!Next]_(Lease!vars)
  <1> DEFINE e == sender[w].event
             outcome == LeaseStatus(event'[e])
  <1>1. \A x \in Events : RevokeAdded(x) =>
          /\ LeaseStatus(event'[x]) = LeaseStatus(event[x])
          /\ LeaseHolder(event'[x]) = LeaseHolder(event[x])
          /\ stale'[x] = stale[x]
    BY WaitingRow DEF RevokeAdded
  <1>2. CASE OwnRowWritten(w)
    <2>1. e \in Events /\ event[e].status = "processing" /\ event'[e] \in Row
      BY <1>2, CardSenderShape DEF CardIInv, OwnRowWritten, Owns, Holding, TypeOK
    <2>2. \A x \in Events \ {e} :
            /\ LeaseStatus(event'[x]) = LeaseStatus(event[x])
            /\ LeaseHolder(event'[x]) = LeaseHolder(event[x])
            /\ stale'[x] = stale[x]
      BY <1>1 DEF Moves
    <2>3. outcome \in Lease!Outcomes /\ LeaseHolder(event'[e]) = NoToken
      BY <1>2, <2>1 DEF OwnRowWritten, LeaseStatus, LeaseHolder, Lease!Outcomes, Row
    <2>4. LeaseStatus(event[e]) = "held"
      BY <2>1 DEF LeaseStatus
    <2>5. [x \in Events |-> LeaseStatus(event'[x])]
            = [[x \in Events |-> LeaseStatus(event[x])] EXCEPT ![e] = outcome]
      BY <2>1, <2>2
    <2>6. [x \in Events |-> LeaseHolder(event'[x])]
            = [[x \in Events |-> LeaseHolder(event[x])] EXCEPT ![e] = NoToken]
      BY <2>1, <2>2, <2>3
    <2>7. stale' = [stale EXCEPT ![e] = FALSE]
      BY <1>2, <2>1, <2>2 DEF OwnRowWritten, CardIInv, TypeOK
    <2>8. Lease!Settle(e, outcome)
      BY <2>1, <2>3, <2>4, <2>5, <2>6, <2>7 DEF Lease!Settle, Moves
    <2> QED
      BY <2>1, <2>3, <2>8 DEF Lease!Next
  <1>3. CASE ~OwnRowWritten(w)
    <2>1. \A x \in Events :
            /\ LeaseStatus(event'[x]) = LeaseStatus(event[x])
            /\ LeaseHolder(event'[x]) = LeaseHolder(event[x])
            /\ stale'[x] = stale[x]
      BY <1>1, <1>3 DEF Moves
    <2>2. TypeOK /\ issued' = issued
      BY DEF CardIInv, Moves
    <2> QED
      BY <2>1, <2>2, SameLeases
  <1> QED
    BY <1>2, <1>3

LEMMA ClaimImplementsLease ==
    ASSUME CardIInv, TypeOK', NEW w \in Senders, Claim(w)
    PROVE  [Lease!Next]_(Lease!vars)
  <1> DEFINE e == sender[w].event
             t == Fresh(e)
  <1>1. TypeOK /\ sender[w].pc = "claim" /\ e \in Events
    BY CardSenderShape DEF Claim, CardIInv
  <1>2. CASE Finish(w)
    BY <1>1, <1>2, ClaimLost DEF eventVars, Lease!vars
  <1>3. CASE ~Finish(w)
    <2>1. /\ Unclaimed(w, e) /\ t \in Tokens \ issued[e]
          /\ event'[e].status = "processing" /\ event'[e].token = t
          /\ issued' = [issued EXCEPT ![e] = @ \cup {t}]
          /\ stale' = [stale EXCEPT ![e] = FALSE]
          /\ \A x \in Events \ {e} : event'[x] = event[x]
      BY <1>1, <1>3, CardClaimShape
    <2>2. event[e].status \in {"pending", "blocked", "dead"}
      BY <1>1, <2>1 DEF Unclaimed, CardIInv, SeenIsClaimable
    <2>3. LeaseStatus(event[e]) \in {"waiting", "failed"}
      BY <2>2 DEF LeaseStatus
    <2>4. LeaseStatus(event'[e]) = "held" /\ LeaseHolder(event'[e]) = t
      BY <2>1 DEF LeaseStatus, LeaseHolder
    <2> HIDE DEF t
    <2>5. [x \in Events |-> LeaseStatus(event'[x])]
            = [[x \in Events |-> LeaseStatus(event[x])] EXCEPT ![e] = "held"]
      BY <1>1, <2>1, <2>4
    <2>6. [x \in Events |-> LeaseHolder(event'[x])]
            = [[x \in Events |-> LeaseHolder(event[x])] EXCEPT ![e] = t]
      BY <1>1, <2>1, <2>4
    <2>7. Lease!Take(e, t)
      BY <1>1, <2>1, <2>3, <2>5, <2>6 DEF Lease!Take
    <2> QED
      BY <1>1, <2>1, <2>7 DEF Lease!Next
  <1> QED
    BY <1>2, <1>3

\* Stale rows are put back.
LEMMA ReclaimImplementsLease ==
    ASSUME CardIInv, ReclaimStale
    PROVE  Lease!Next
  <1> DEFINE put(e) == [event[e] EXCEPT !.status = "pending", !.token = NoToken]
  <1>1. \A e \in Events : LeaseStatus(put(e)) = "waiting" /\ LeaseHolder(put(e)) = NoToken
    <2>1. \A e \in Events : put(e).status = "pending"
      BY DEF CardIInv, TypeOK, Row
    <2> HIDE DEF put
    <2>2. \A e \in Events : put(e).status \in {"absent", "pending", "blocked"}
      BY <2>1
    <2> QED
      BY <2>2, WaitingRow
  <1>2. /\ event' = [e \in Events |-> IF stale[e] THEN put(e) ELSE event[e]]
        /\ stale' = [e \in Events |-> FALSE] /\ issued' = issued
    BY DEF ReclaimStale
  <1> HIDE DEF put
  <1>3. \A e \in Events : stale[e] => LeaseStatus(event[e]) = "held"
    BY DEF CardIInv, CardStaleIsProcessing, LeaseStatus
  <1>4. Lease!ReleaseExpired
    BY <1>1, <1>2, <1>3 DEF Lease!ReleaseExpired
  <1> QED
    BY <1>4 DEF Lease!Next

LEMMA NextImplementsLease == CardIInv /\ [Next]_vars => [Lease!Next]_(Lease!vars)
  <1> SUFFICES ASSUME CardIInv, [Next]_vars PROVE [Lease!Next]_(Lease!vars)
    OBVIOUS
  <1>1. TypeOK /\ TypeOK'
    BY CardNextIInv DEF CardIInv
  <1>2. ASSUME NEW w \in Senders, Step(w) \/ Crash(w) PROVE [Lease!Next]_(Lease!vars)
    BY <1>1, <1>2, StepMoves, MovesImplementsLease, ClaimImplementsLease
  <1>3. ASSUME NEW e \in Events, LeaseTimesOut(e) PROVE Lease!Next
    <2>1. /\ LeaseStatus(event[e]) = "held" /\ stale' = [stale EXCEPT ![e] = TRUE]
          /\ UNCHANGED <<event, issued>>
      BY <1>3 DEF LeaseTimesOut, LeaseStatus
    <2>2. Lease!Expire(e)
      BY <2>1 DEF Lease!Expire
    <2> QED
      BY <2>2 DEF Lease!Next
  <1>4. CASE Confirm
    <2>1. CASE ConfirmClaim
      <3>1. \A e \in Events : \/ event'[e] = event[e]
                              \/ event[e].status = "absent" /\ event'[e].status = "pending"
        <4>1. \A e \in Events : [event[e] EXCEPT !.status = "pending"].status = "pending"
          BY <1>1, RowWrites DEF TypeOK, CardStatuses
        <4>2. \A e \in Events : e[2] = "grant" => event[e].status = "absent"
          BY <1>4, EventShape DEF CardIInv, ClaimFirst, Confirm
        <4> QED
          BY <2>1, <4>1, <4>2 DEF ConfirmClaim
      <3>2. UNCHANGED <<issued, stale>>
        BY <1>4 DEF Confirm
      <3> QED
        BY <1>1, <3>1, <3>2, WaitingRow, SameLeases
    <2>2. CASE RejectClaim
      BY <1>4, <2>2 DEF Confirm, RejectClaim, Lease!vars
    <2> QED
      BY <1>4, <2>1, <2>2 DEF Confirm
  <1>5. CASE RefundCommits
    <2>1. \A e \in Events :
            \/ event'[e] = event[e]
            \/ /\ event[e].status \in {"absent", "pending", "blocked"}
               /\ event'[e].status \in {"absent", "pending", "blocked"}
      BY <1>1, <1>5, RefundShape
    <2>2. UNCHANGED <<issued, stale>>
      BY <1>5 DEF RefundCommits
    <2> QED
      BY <1>1, <2>1, <2>2, WaitingRow, SameLeases
  <1>6. CASE \/ Expire \/ Reissue \/ RefundReads \/ \E i \in Issues : Mint(i)
             \/ \E w \in Senders, e \in Events : Pick(w, e)
             \/ UNCHANGED vars
    <2>1. UNCHANGED eventVars
      BY <1>6 DEF Expire, Reissue, RefundReads, Mint, Pick, vars
    <2> QED
      BY <2>1 DEF eventVars, Lease!vars
  <1> QED
    BY <1>2, <1>3, <1>4, <1>5, <1>6, ReclaimImplementsLease DEF Next

\* The outbox rows implement the abstract leases: a row is granted to one fresh
\* token at a time, only an expired lease is called in, and what has succeeded
\* stays so, whatever senders, refunds and the administrator's retries do.
THEOREM ImplementsLease == Spec => LeaseSpec
BY LeaseInit, NextImplementsLease, CardsInvariant, PTL DEF Spec, LeaseSpec, Lease!Spec

-----------------------------------------------------------------------------
(* What counts as delivered *)

\* What every step has in common: what the wallet has taken it keeps, a sender goes
\* on to record only what it has taken, and a delivery, or a revoke, is written
\* only for a grant it has taken.
Truthful ==
    /\ received \subseteq received'
    /\ \A w \in Senders :
         sender'[w].pc \in {"record", "count", "commit"} => sender'[w].event \in received'
    /\ \A i \in Issues :
         /\ delivery'[i].status = "DELIVERED" =>
              delivery[i].status = "DELIVERED" \/ <<i, "grant">> \in received
         /\ event'[<<i, "revoke">>].status # "absent" =>
              event[<<i, "revoke">>].status # "absent" \/ <<i, "grant">> \in received
    /\ refundTx' \in {refundTx, NoRefund} \/ refundTx'.delivery = delivery

LEMMA TruthfulKeepsReceivedInv ==
    ASSUME ReceivedInv, CardIInv', Truthful
    PROVE  ReceivedInv'
  <1>1. RecordedWasReceived'
    BY DEF Truthful, RecordedWasReceived
  <1>2. ReadWasReceived'
    BY DEF Truthful, ReceivedInv, ReadWasReceived, DeliveredWasReceived
  <1>3. DeliveredWasReceived'
    BY DEF Truthful, ReceivedInv, DeliveredWasReceived
  <1> QED
    BY <1>1, <1>2, <1>3 DEF ReceivedInv

\* A step of a sender that ends it, or takes it to a statement that records nothing.
LEMMA SenderIsTruthful ==
    ASSUME ReceivedInv, NEW w \in Senders, Moves(w), UNCHANGED <<received, refundTx>>,
           \/ sender'[w].pc \notin {"record", "count", "commit"}
           \/ sender[w].pc \in {"record", "count", "commit"},
           \A i \in Issues : delivery'[i].status = "DELIVERED" =>
              delivery[i].status = "DELIVERED" \/ <<i, "grant">> \in received,
           \A i \in Issues : RevokeAdded(<<i, "revoke">>) => <<i, "grant">> \in received
    PROVE  Truthful
  <1>1. \A v \in Senders :
          sender'[v].pc \in {"record", "count", "commit"} => sender'[v].event \in received'
    BY DEF Moves, ReceivedInv, RecordedWasReceived
  <1>2. ASSUME NEW i \in Issues, event'[<<i, "revoke">>].status # "absent"
        PROVE  event[<<i, "revoke">>].status # "absent" \/ <<i, "grant">> \in received
    <2>1. <<i, "revoke">> \in Events
      BY EventShape
    <2> QED
      BY <1>2, <2>1 DEF Moves, OwnRowWritten, Owns
  <1> QED
    BY <1>1, <1>2 DEF Truthful

\* The steps of a sender after the claim.
LEMMA StepIsTruthful ==
    ASSUME ReceivedInv, NEW w \in Senders, Step(w) \/ Crash(w), ~Claim(w)
    PROVE  Truthful
  <1> DEFINE e == sender[w].event
  <1>1. CardIInv /\ TypeOK /\ Moves(w)
    BY StepMoves DEF ReceivedInv, CardIInv
  <1>a. sender[w].pc # "idle"
    <2>1. CASE Crash(w)
      <3>1. sender[w] \in Busy
        BY <1>1, <2>1 DEF Crash, TypeOK
      <3> QED
        BY <3>1, BusyPc
    <2>2. CASE Hold(w) \/ Check(w) \/ Block(w) \/ MarkProcessing(w) \/ Send(w)
      BY <2>2 DEF Hold, Check, Block, MarkProcessing, Send
    <2>3. CASE Record(w) \/ Count(w) \/ Succeed(w) \/ Failed(w)
      BY <2>3 DEF Record, Count, Succeed, Failed
    <2> QED
      BY <2>1, <2>2, <2>3 DEF Step
  <1>2. e \in Events /\ e[1] \in Issues /\ e[2] \in {"grant", "revoke"} /\ e = <<e[1], e[2]>>
    BY <1>1, <1>a, CardSenderShape, EventShape
  <1>3. CASE Check(w) \/ Crash(w) \/ Record(w) \/ Count(w)
    <2>1. UNCHANGED <<delivery, event, received, refundTx>>
      BY <1>3 DEF Check, Crash, Record, Count, rowVars, eventVars, walletVars
    <2>2. \/ sender'[w].pc \notin {"record", "count", "commit"}
          \/ sender[w].pc \in {"record", "count", "commit"}
      <3>1. CASE Check(w)
        <4>1. PICK p \in {"block", "mark", "send"} : Goto(w, p)
          BY <3>1 DEF Check
        <4> QED
          BY <1>1, <1>a, <4>1, GotoShape DEF CardPcs
      <3>2. CASE Crash(w)
        BY <1>1, <3>2, FinishShape DEF Crash
      <3>3. CASE Record(w) \/ Count(w)
        BY <3>3 DEF Record, Count
      <3> QED
        BY <1>3, <3>1, <3>2, <3>3
    <2> QED
      BY <1>1, <2>1, <2>2, SenderIsTruthful DEF RevokeAdded
  <1>4. CASE Hold(w)
    <2>1. sender'[w].pc = "idle" /\ UNCHANGED <<delivery, received, refundTx>>
      BY <1>1, <1>4, FinishShape DEF Hold, rowVars, walletVars
    <2>2. \A x \in Events : ~RevokeAdded(x)
      BY <1>1, <1>2, <1>4 DEF Hold, Owns, RevokeAdded, TypeOK
    <2> QED
      BY <1>1, <2>1, <2>2, EventShape, SenderIsTruthful
  <1>5. CASE MarkProcessing(w)
    <2>1. UNCHANGED <<event, received, refundTx>> /\ Goto(w, "send")
      BY <1>5 DEF MarkProcessing, eventVars, walletVars
    <2>2. \A i \in Issues : delivery'[i].status \in {delivery[i].status, "PROCESSING"}
      BY <1>1, <1>2, <1>5, SetDeliveryShape DEF MarkProcessing
    <2>3. sender'[w].pc = "send"
      BY <1>1, <1>a, <2>1, GotoShape DEF CardPcs
    <2> QED
      BY <1>1, <2>1, <2>2, <2>3, SenderIsTruthful DEF RevokeAdded
  <1>6. CASE Send(w)
    <2>1. UNCHANGED <<delivery, event, refundTx>> /\ received \subseteq received'
      BY <1>6 DEF Send, Taken, rowVars, eventVars, walletVars
    <2>2. PICK p \in {"record", "failed"} : Goto(w, p) /\ (p = "record" => e \in received')
      BY <1>6 DEF Send, Taken
    <2>3. /\ sender'[w].pc = p /\ sender'[w].event = e
          /\ \A v \in Senders \ {w} : sender'[v] = sender[v]
      BY <1>1, <1>a, <2>2, GotoShape DEF CardPcs
    <2>4. \A v \in Senders :
            sender'[v].pc \in {"record", "count", "commit"} => sender'[v].event \in received'
      BY <2>1, <2>2, <2>3 DEF ReceivedInv, RecordedWasReceived
    <2> QED
      BY <2>1, <2>4 DEF Truthful
  <1>7. CASE Block(w) \/ Failed(w)
    <2>1. sender'[w].pc = "idle" /\ UNCHANGED <<received, refundTx>>
      BY <1>1, <1>7, FinishShape DEF Block, Failed, walletVars
    <2>2. \A i \in Issues : delivery'[i].status \in {delivery[i].status, "REVOKED", "FAILED", "DEAD"}
      <3>1. CASE UNCHANGED delivery
        BY <3>1
      <3>2. CASE SetDelivery(e[1], "DEAD") \/ SetDelivery(e[1], "FAILED") \/ SetDelivery(e[1], "REVOKED")
        BY <1>1, <1>2, <3>2, SetDeliveryShape
      <3> QED
        BY <1>7, <3>1, <3>2 DEF Block, Failed
    <2>3. \A x \in Events : ~RevokeAdded(x)
      BY <1>1, <1>2, <1>7 DEF Block, Failed, Settle, Owns, RevokeAdded, TypeOK
    <2> QED
      BY <1>1, <2>1, <2>2, <2>3, EventShape, SenderIsTruthful
  <1>8. CASE Succeed(w)
    <2>1. sender'[w].pc = "idle" /\ UNCHANGED <<received, refundTx>>
      BY <1>1, <1>8, FinishShape DEF Succeed, walletVars
    <2>2. e \in received
      BY <1>8 DEF ReceivedInv, RecordedWasReceived, Succeed
    <2>3. \A i \in Issues : delivery'[i].status = "DELIVERED" =>
            delivery[i].status = "DELIVERED" \/ <<i, "grant">> \in received
      BY <1>1, <1>2, <1>8, <2>2, SucceedShape DEF Goal
    <2>4. ASSUME NEW i \in Issues, RevokeAdded(<<i, "revoke">>)
          PROVE  <<i, "grant">> \in received
      <3>1. <<i, "revoke">> # e /\ <<i, "revoke">> \in Events
        <4>1. event[e].status # "absent"
          BY <1>1, <1>a DEF CardIInv, RowExists
        <4>2. <<i, "revoke">> # e
          BY <2>4, <4>1 DEF RevokeAdded
        <4> QED
          BY <4>2, EventShape
      <3>2. <<i, "revoke">> = <<e[1], "revoke">> /\ sender[w].guarded
        BY <1>1, <1>8, <2>4, <3>1, SucceedShape DEF RevokeAdded
      <3>3. e[2] = "grant"
        BY <1>1, <1>8, <3>2 DEF CardIInv, GuardedIsGrant, Succeed
      <3> QED
        BY <1>2, <2>2, <3>2, <3>3
    <2> QED
      BY <1>1, <2>1, <2>3, <2>4, SenderIsTruthful
  <1> QED
    BY <1>3, <1>4, <1>5, <1>6, <1>7, <1>8 DEF Step

LEMMA ClaimIsTruthful ==
    ASSUME ReceivedInv, NEW w \in Senders, Claim(w)
    PROVE  Truthful
  <1> DEFINE e == sender[w].event
  <1>1. TypeOK /\ sender[w].pc = "claim" /\ e \in Events
    BY CardSenderShape DEF Claim, ReceivedInv, CardIInv
  <1>2. UNCHANGED <<rowVars, refundTx, walletVars>>
    BY DEF Claim
  <1>3. \A v \in Senders :
          sender'[v] = sender[v] \/ sender'[v].pc \in {"idle", "check"}
    BY <1>1, CardClaimShape, FinishShape
  <1>4. \A x \in Events : event'[x] = event[x] \/ event[x].status # "absent"
    <2>1. CASE Finish(w)
      BY <1>1, <2>1, ClaimLost DEF eventVars
    <2>2. CASE ~Finish(w)
      <3>1. event[e].status # "absent"
        BY <1>1 DEF ReceivedInv, CardIInv, RowExists
      <3> QED
        BY <1>1, <2>2, <3>1, CardClaimShape
    <2> QED
      BY <2>1, <2>2
  <1>5. \A v \in Senders :
          sender'[v].pc \in {"record", "count", "commit"} => sender'[v].event \in received'
    BY <1>2, <1>3 DEF ReceivedInv, RecordedWasReceived, walletVars
  <1> QED
    BY <1>2, <1>4, <1>5, EventShape DEF Truthful, rowVars, walletVars

\* The claim, the refund, the mint, the lease, and a dispatcher that reads a row.
LEMMA OtherIsTruthful ==
    ASSUME ReceivedInv,
           \/ Confirm \/ Expire \/ Reissue \/ RefundReads \/ RefundCommits \/ ReclaimStale
           \/ \E i \in Issues : Mint(i)
           \/ \E w \in Senders, e \in Events : Pick(w, e)
           \/ \E e \in Events : LeaseTimesOut(e)
    PROVE  Truthful
  <1> DEFINE Quiet ==
        \A v \in Senders : sender'[v] = sender[v] \/ sender'[v].pc = "claim"
  <1>a. CardIInv /\ TypeOK
    BY DEF ReceivedInv, CardIInv
  <1>1. Quiet /\ received' = received
    <2>1. CASE \E w \in Senders, e \in Events : Pick(w, e)
      BY <1>a, <2>1 DEF Pick, TypeOK, walletVars
    <2>2. CASE ~\E w \in Senders, e \in Events : Pick(w, e)
      BY <2>2 DEF Confirm, Expire, Reissue, RefundReads, RefundCommits, ReclaimStale, Mint,
                  LeaseTimesOut, walletVars
    <2> QED
      BY <2>1, <2>2
  <1>2. \A v \in Senders :
          sender'[v].pc \in {"record", "count", "commit"} => sender'[v].event \in received'
    BY <1>1 DEF ReceivedInv, RecordedWasReceived
  <1>3. CASE Confirm
    <2>1. UNCHANGED refundTx
      BY <1>3 DEF Confirm
    <2>2. \A i \in Issues : delivery'[i].status \in {delivery[i].status, "PENDING"}
      BY <1>3 DEF Confirm, ConfirmClaim, RejectClaim
    <2>3. \A i \in Issues : event'[<<i, "revoke">>] = event[<<i, "revoke">>]
      BY <1>3, EventShape DEF Confirm, ConfirmClaim, RejectClaim
    <2> QED
      BY <1>1, <1>2, <2>1, <2>2, <2>3 DEF Truthful
  <1>4. CASE RefundCommits
    <2>1. refundTx # NoRefund /\ refundTx' = NoRefund
      BY <1>4 DEF RefundCommits
    <2>2. \A i \in Issues : delivery'[i].status \in {delivery[i].status, "REVOKED"}
      <3>1. \A i \in Issues : delivery[i] \in Delivery
        BY <1>a DEF TypeOK
      <3>2. \A d \in Delivery : /\ [d EXCEPT !.event = "revoke"].status = d.status
                               /\ [d EXCEPT !.status = "REVOKED"].status = "REVOKED"
        BY DEF Delivery
      <3> QED
        BY <1>4, <3>1, <3>2 DEF RefundCommits
    <2>3. ASSUME NEW i \in Issues, event'[<<i, "revoke">>].status # "absent",
                 event[<<i, "revoke">>].status = "absent"
          PROVE  <<i, "grant">> \in received
      <3>1. <<i, "revoke">> \in Events /\ <<i, "revoke">>[1] = i
        BY EventShape
      <3>2. i \in Revocable
        BY <1>a, <1>4, <2>3, <3>1, RefundShape
      <3> QED
        BY <2>1, <3>2 DEF Revocable, ReceivedInv, ReadWasReceived
    <2> QED
      BY <1>1, <1>2, <2>1, <2>2, <2>3 DEF Truthful
  <1>5. CASE ReclaimStale
    <2>1. UNCHANGED <<delivery, refundTx>>
      BY <1>5 DEF ReclaimStale, rowVars
    <2>2. \A x \in Events : event[x].status = "absent" => event'[x] = event[x]
      BY <1>a, <1>5 DEF ReclaimStale, CardIInv, CardStaleIsProcessing
    <2> QED
      BY <1>1, <1>2, <2>1, <2>2, EventShape DEF Truthful
  <1>6. CASE \/ Expire \/ Reissue \/ RefundReads
             \/ \E i \in Issues : Mint(i)
             \/ \E w \in Senders, e \in Events : Pick(w, e)
             \/ \E e \in Events : LeaseTimesOut(e)
    <2>1. UNCHANGED <<delivery, event>>
      BY <1>6 DEF Expire, Reissue, RefundReads, Mint, Pick, LeaseTimesOut, rowVars, eventVars
    <2>2. refundTx' = refundTx \/ refundTx'.delivery = delivery
      BY <1>6 DEF Expire, Reissue, RefundReads, Mint, Pick, LeaseTimesOut
    <2> QED
      BY <1>1, <1>2, <2>1, <2>2 DEF Truthful
  <1> QED
    BY <1>3, <1>4, <1>5, <1>6

\* A card counts as DELIVERED only when the wallet has taken its grant, and a reversal
\* exists only for a card the wallet was given.
THEOREM DeliveredWasReceivedHolds == Spec => []DeliveredWasReceived
  <1>1. Init => ReceivedInv
    <2> SUFFICES ASSUME Init PROVE ReceivedInv
      OBVIOUS
    <2>1. \A w \in Senders : sender[w].pc = "idle"
      BY IdlePc DEF Init
    <2>2. DeliveredWasReceived
      BY EventShape DEF Init, DeliveredWasReceived, NoDelivery, Absent
    <2> QED
      BY <2>1, <2>2, CardInitIInv DEF Init, ReceivedInv, RecordedWasReceived, ReadWasReceived
  <1>2. ReceivedInv /\ [Next]_vars => ReceivedInv'
    <2> SUFFICES ASSUME ReceivedInv, [Next]_vars PROVE ReceivedInv'
      OBVIOUS
    <2>1. CardIInv'
      BY CardNextIInv DEF ReceivedInv
    <2>2. CASE Next
      <3>1. Truthful
        BY <2>2, StepIsTruthful, ClaimIsTruthful, OtherIsTruthful DEF Next
      <3> QED
        BY <2>1, <3>1, TruthfulKeepsReceivedInv
    <2>3. CASE UNCHANGED vars
      BY <2>1, <2>3 DEF vars, rowVars, eventVars, walletVars, ReceivedInv,
         RecordedWasReceived, ReadWasReceived, DeliveredWasReceived
    <2> QED
      BY <2>2, <2>3
  <1>3. ReceivedInv => DeliveredWasReceived
    BY DEF ReceivedInv
  <1> QED
    BY <1>1, <1>2, <1>3, PTL DEF Spec

-----------------------------------------------------------------------------
(* No grant after the refund *)

\* A sender that claimed its grant after the refund had committed.
Late(w) == Holding(w) /\ sender[w].after /\ sender[w].event[2] = "grant"

\* The refund commits once.
RefundedOnce ==
    /\ refundTx # NoRefund => order = "paid"
    /\ \A w \in Senders : Holding(w) /\ sender[w].after => order = "refunded"

\* A card with a grant has a delivery, which points to the grant or to its revoke.
GrantHasDelivery ==
    \A i \in Issues :
       event[<<i, "grant">>].status # "absent" =>
         delivery[i].status # "none" /\ delivery[i].event \in {"grant", "revoke"}

\* A delivery is DELIVERED, or points to a revoke, only when its grant has succeeded.
DeliveredHasSucceeded ==
    \A i \in Issues :
       delivery[i].status = "DELIVERED" \/ delivery[i].event = "revoke" =>
         event[<<i, "grant">>].status = "succeeded"

ReadHasSucceeded ==
    refundTx # NoRefund =>
      \A i \in Issues :
         refundTx.delivery[i].status = "DELIVERED" =>
           event[<<i, "grant">>].status = "succeeded"

\* A late sender gets no further than the guard, and whoever owns its row is late too.
LateIsGuarded ==
    \A w \in Senders : Late(w) =>
       /\ sender[w].pc \in {"check", "block"}
       /\ event[sender[w].event].status # "succeeded"
       /\ \A v \in Senders :
            Holding(v) /\ sender[v].event = sender[w].event /\ Owns(v) => sender[v].after

RefundInv ==
    /\ CardIInv /\ RefundedOnce /\ GrantHasDelivery /\ DeliveredHasSucceeded
    /\ ReadHasSucceeded /\ LateIsGuarded

\* What the steps that claim nothing have in common.  The order is refunded by the
\* transaction that was reading; a sender that goes on keeps what it knows.
SenderKept ==
    \A w \in Senders : Holding(w)' =>
       /\ Holding(w) /\ sender'[w].event = sender[w].event
       /\ sender'[w].token = sender[w].token /\ sender'[w].after = sender[w].after
       /\ Late(w) => sender'[w].pc \in {"check", "block"}
OrderKept ==
    \/ order' = order /\ refundTx' \in {refundTx, NoRefund}
    \/ order' = order /\ order = "paid" /\ refundTx'.delivery = delivery
    \/ order' = "refunded" /\ refundTx # NoRefund /\ refundTx' = NoRefund
GrantKept(i) ==
    LET g == <<i, "grant">>
    IN  /\ event[g].status = "succeeded" => event'[g].status = "succeeded"
        /\ event'[g].status = "succeeded" =>
             \/ event[g].status = "succeeded"
             \/ \E v \in Senders : sender[v].pc = "commit" /\ sender[v].event = g
        /\ event'[g].status = "processing" => event'[g] = event[g]
        /\ \/ delivery'[i] = [status |-> "PENDING", event |-> "grant"]
           \/ /\ event'[g].status # "absent" => event[g].status # "absent"
              /\ delivery[i].status # "none" => delivery'[i].status # "none"
              /\ delivery'[i].event = "revoke" \/ delivery'[i].event = delivery[i].event
        /\ delivery'[i].status = "DELIVERED" =>
             delivery[i].status = "DELIVERED" \/ event'[g].status = "succeeded"
        /\ delivery'[i].event = "revoke" =>
             delivery[i].event = "revoke" \/ event'[g].status = "succeeded"

Orderly == SenderKept /\ OrderKept /\ \A i \in Issues : GrantKept(i)

LEMMA OrderlyKeepsRefundInv ==
    ASSUME RefundInv, CardIInv', Orderly
    PROVE  RefundInv'
  <1>1. RefundedOnce'
    <2>1. refundTx' # NoRefund => order' = "paid"
      BY DEF Orderly, OrderKept, RefundInv, RefundedOnce
    <2>2. order = "refunded" => order' = "refunded"
      BY DEF Orderly, OrderKept
    <2> QED
      BY <2>1, <2>2 DEF Orderly, SenderKept, RefundInv, RefundedOnce
  <1>2. GrantHasDelivery'
    BY DEF Orderly, GrantKept, RefundInv, GrantHasDelivery
  <1>3. DeliveredHasSucceeded'
    BY DEF Orderly, GrantKept, RefundInv, DeliveredHasSucceeded
  <1>4. ReadHasSucceeded'
    BY DEF Orderly, OrderKept, GrantKept, RefundInv, ReadHasSucceeded, DeliveredHasSucceeded
  <1>5. LateIsGuarded'
    <2> SUFFICES ASSUME NEW w \in Senders, Late(w)'
                 PROVE  /\ sender'[w].pc \in {"check", "block"}
                        /\ event'[sender'[w].event].status # "succeeded"
                        /\ \A v \in Senders :
                             /\ Holding(v)' /\ sender'[v].event = sender'[w].event /\ Owns(v)'
                             => sender'[v].after
      BY DEF LateIsGuarded
    <2> DEFINE e == sender[w].event
    <2>1. /\ Late(w) /\ Holding(w) /\ sender'[w].event = e
          /\ sender'[w].pc \in {"check", "block"}
      BY DEF Orderly, SenderKept, Late
    <2>2. e \in Events /\ e = <<e[1], "grant">> /\ e[1] \in Issues
      BY <2>1, CardSenderShape, EventShape DEF RefundInv, CardIInv, Late, Holding
    <2>3. /\ event[e].status # "succeeded"
          /\ \A v \in Senders :
               Holding(v) /\ sender[v].event = e /\ Owns(v) => sender[v].after
      BY <2>1 DEF RefundInv, LateIsGuarded
    <2>4. GrantKept(e[1])
      BY <2>2 DEF Orderly
    <2>5. event'[e].status # "succeeded"
      <3> SUFFICES ASSUME event'[e].status = "succeeded" PROVE FALSE
        OBVIOUS
      <3>1. PICK v \in Senders : sender[v].pc = "commit" /\ sender[v].event = e
        BY <2>2, <2>3, <2>4 DEF GrantKept
      <3>2. Holding(v) /\ Owns(v)
        BY <3>1 DEF Holding, RefundInv, CardIInv, LockedIsOwned
      <3>3. Late(v)
        BY <2>1, <2>3, <3>1, <3>2 DEF Late
      <3> QED
        BY <3>1, <3>3 DEF RefundInv, LateIsGuarded
    <2>6. ASSUME NEW v \in Senders, Holding(v)', sender'[v].event = e, Owns(v)'
          PROVE  sender'[v].after
      <3>1. /\ Holding(v) /\ sender[v].event = e /\ sender'[v].token = sender[v].token
            /\ sender'[v].after = sender[v].after
        BY <2>6 DEF Orderly, SenderKept
      <3>2. event'[e] = event[e]
        BY <2>2, <2>4, <2>6 DEF GrantKept, Owns
      <3> QED
        BY <2>3, <2>6, <3>1, <3>2 DEF Owns
    <2> QED
      BY <2>1, <2>5, <2>6
  <1> QED
    BY <1>1, <1>2, <1>3, <1>4, <1>5 DEF RefundInv

\* A step that touches neither deliveries nor rows.
LEMMA QuietKeepsGrants ==
    ASSUME UNCHANGED <<delivery, event>>
    PROVE  \A i \in Issues : GrantKept(i)
BY DEF GrantKept

\* A card whose delivery changes to a status that is not DELIVERED, and keeps
\* pointing where it did, and whose grant is settled otherwise than as succeeded.
LEMMA UndeliveredKeepsGrants ==
    ASSUME RefundInv, NEW w \in Senders, Moves(w), sender[w].pc # "idle",
           \A i \in Issues :
              /\ delivery'[i].status \in {delivery[i].status, "PROCESSING", "REVOKED", "FAILED", "DEAD"}
              /\ delivery'[i].event = delivery[i].event,
           event'[sender[w].event].status # "succeeded" \/ event' = event
    PROVE  \A i \in Issues : GrantKept(i)
  <1> SUFFICES ASSUME NEW i \in Issues PROVE GrantKept(i)
    OBVIOUS
  <1> DEFINE g == <<i, "grant">>
  <1>1. g \in Events /\ g[2] = "grant"
    BY EventShape
  <1>2. CASE event'[g] = event[g]
    BY <1>2 DEF GrantKept
  <1>3. CASE event'[g] # event[g]
    <2>1. g = sender[w].event /\ OwnRowWritten(w)
      BY <1>1, <1>3 DEF Moves, RevokeAdded
    <2>2. /\ event[g].status = "processing"
          /\ event'[g].status \notin {"absent", "processing", "succeeded"}
      BY <1>3, <2>1 DEF OwnRowWritten, Owns
    <2> QED
      BY <2>2 DEF GrantKept
  <1> QED
    BY <1>2, <1>3

LEMMA MovesKeepsSenders ==
    ASSUME RefundInv, NEW w \in Senders, Moves(w),
           Late(w) => sender'[w].pc \in {"check", "block", "idle"}
    PROVE  SenderKept
  <1> SUFFICES ASSUME NEW v \in Senders, Holding(v)'
               PROVE  /\ Holding(v) /\ sender'[v].event = sender[v].event
                      /\ sender'[v].token = sender[v].token
                      /\ sender'[v].after = sender[v].after
                      /\ Late(v) => sender'[v].pc \in {"check", "block"}
    BY DEF SenderKept
  <1>1. CASE v = w
    BY <1>1 DEF Moves, Holding
  <1>2. CASE v # w
    <2>1. sender'[v] = sender[v]
      BY <1>2 DEF Moves
    <2> QED
      BY <2>1 DEF Holding, RefundInv, LateIsGuarded
  <1> QED
    BY <1>1, <1>2

\* The steps of a sender after the claim.
LEMMA StepIsOrderly ==
    ASSUME RefundInv, NEW w \in Senders, Step(w) \/ Crash(w), ~Claim(w)
    PROVE  Orderly
  <1> DEFINE e == sender[w].event
  <1>1. CardIInv /\ TypeOK /\ Moves(w)
    BY StepMoves DEF RefundInv, CardIInv
  <1>2. Late(w) => sender[w].pc \in {"check", "block"}
    BY DEF RefundInv, LateIsGuarded
  <1>3. OrderKept
    BY DEF Step, Hold, Check, Block, MarkProcessing, Send, Record, Count, Succeed, Failed, Crash,
           OrderKept, rowVars
  <1>4. CASE Check(w)
    <2>1. /\ sender[w].pc # "idle" /\ Holding(w) /\ UNCHANGED <<delivery, event>>
      BY <1>4 DEF Check, Holding, rowVars, eventVars
    <2>2. PICK p \in {"block", "mark", "send"} :
            /\ Goto(w, p)
            /\ e[2] = "grant" /\ PointsTo(e[1], e) /\ Guard => p = "block"
      BY <1>4 DEF Check
    <2>3. sender'[w].pc = p
      BY <1>1, <2>1, <2>2, GotoShape DEF CardPcs
    <2>4. Late(w) => p = "block"
      <3> SUFFICES ASSUME Late(w) PROVE p = "block"
        OBVIOUS
      <3>1. e[2] = "grant" /\ e = <<e[1], "grant">> /\ e[1] \in Issues
        BY <1>1, <2>1, CardSenderShape, EventShape DEF Late
      <3>2. event[e].status \notin {"absent", "succeeded"}
        BY <1>1, <2>1 DEF CardIInv, RowExists, RefundInv, LateIsGuarded
      <3>3. delivery[e[1]].status # "none" /\ delivery[e[1]].event = "grant"
        BY <3>1, <3>2 DEF RefundInv, GrantHasDelivery, DeliveredHasSucceeded
      <3>4. order = "refunded"
        BY DEF Late, RefundInv, RefundedOnce
      <3> QED
        BY <2>2, <3>1, <3>3, <3>4 DEF PointsTo, Guard
    <2> QED
      BY <1>1, <1>3, <2>1, <2>3, <2>4, QuietKeepsGrants, MovesKeepsSenders DEF Orderly
  <1>5. CASE Hold(w)
    <2>1. sender'[w].pc = "idle" /\ UNCHANGED delivery /\ sender[w].pc # "idle"
      BY <1>1, <1>5, FinishShape DEF Hold, rowVars
    <2>2. event'[e].status # "succeeded" \/ event' = event
      BY <1>1, <1>5, <2>1, CardSenderShape DEF Hold, TypeOK, Row
    <2> QED
      BY <1>1, <1>3, <2>1, <2>2, UndeliveredKeepsGrants, MovesKeepsSenders DEF Orderly
  <1>6. CASE Block(w) \/ Failed(w)
    <2>1. sender'[w].pc = "idle" /\ sender[w].pc # "idle"
      BY <1>1, <1>6, FinishShape DEF Block, Failed
    <2>2. e \in Events /\ e[1] \in Issues
      BY <1>1, <2>1, CardSenderShape, EventShape
    <2>3. \A i \in Issues :
            /\ delivery'[i].status \in {delivery[i].status, "REVOKED", "FAILED", "DEAD"}
            /\ delivery'[i].event = delivery[i].event
      <3>1. CASE UNCHANGED delivery
        BY <3>1
      <3>2. CASE SetDelivery(e[1], "DEAD") \/ SetDelivery(e[1], "FAILED") \/ SetDelivery(e[1], "REVOKED")
        BY <1>1, <2>2, <3>2, SetDeliveryShape
      <3> QED
        BY <1>6, <3>1, <3>2 DEF Block, Failed
    <2>4. event'[e].status # "succeeded" \/ event' = event
      BY <1>1, <1>6, <2>2 DEF Block, Failed, NextStatus, Settle, TypeOK
    <2> QED
      BY <1>1, <1>3, <2>1, <2>3, <2>4, UndeliveredKeepsGrants, MovesKeepsSenders DEF Orderly
  <1>7. CASE MarkProcessing(w)
    <2>1. ~Late(w) /\ event' = event /\ sender[w].pc # "idle"
      BY <1>2, <1>7 DEF MarkProcessing, eventVars
    <2>2. e[1] \in Issues
      BY <1>1, <2>1, CardSenderShape, EventShape
    <2>3. \A i \in Issues :
            /\ delivery'[i].status \in {delivery[i].status, "PROCESSING"}
            /\ delivery'[i].event = delivery[i].event
      BY <1>1, <1>7, <2>2, SetDeliveryShape DEF MarkProcessing
    <2> QED
      BY <1>1, <1>3, <2>1, <2>3, UndeliveredKeepsGrants, MovesKeepsSenders DEF Orderly
  <1>8. CASE Send(w) \/ Record(w) \/ Count(w)
    <2>1. ~Late(w) /\ UNCHANGED <<delivery, event>>
      BY <1>2, <1>8 DEF Send, Record, Count, rowVars, eventVars
    <2> QED
      BY <1>1, <1>3, <2>1, QuietKeepsGrants, MovesKeepsSenders DEF Orderly
  <1>9. CASE Crash(w)
    <2>1. sender'[w].pc = "idle" /\ UNCHANGED <<delivery, event>>
      BY <1>1, <1>9, FinishShape DEF Crash, rowVars, eventVars
    <2> QED
      BY <1>1, <1>3, <2>1, QuietKeepsGrants, MovesKeepsSenders DEF Orderly
  <1>10. CASE Succeed(w)
    <2>1. /\ sender'[w].pc = "idle" /\ sender[w].pc = "commit" /\ e \in Events
          /\ Owns(w)
      BY <1>1, <1>10, FinishShape, CardSenderShape DEF Succeed, CardIInv, LockedIsOwned
    <2>2. ASSUME NEW i \in Issues PROVE GrantKept(i)
      <3> DEFINE g == <<i, "grant">>
      <3>1. g \in Events /\ g[2] = "grant" /\ e = <<e[1], e[2]>> /\ e[2] \in {"grant", "revoke"}
        BY <2>1, EventShape
      <3>2. CASE g = e
        <4>1. event'[g].status = "succeeded" /\ event[g].status = "processing"
          BY <1>1, <1>10, <2>1, <3>2, SucceedShape DEF Owns
        <4>2. /\ delivery'[i].event \in {delivery[i].event, "revoke"}
              /\ delivery'[i].status \in {delivery[i].status, "DELIVERED", "REVOKED"}
          BY <1>1, <1>10, SucceedShape DEF Goal
        <4> QED
          BY <2>1, <3>2, <4>1, <4>2 DEF GrantKept
      <3>3. CASE g # e
        <4>1. event'[g] = event[g]
          BY <1>1, <1>10, <3>1, <3>3, SucceedShape
        <4>2. e[1] # i \/ e[2] # "grant"
          BY <3>1, <3>3
        <4>3. /\ delivery'[i].event = delivery[i].event
              /\ delivery'[i].status \in {delivery[i].status, "REVOKED"}
          BY <1>1, <1>10, <3>1, <4>2, SucceedShape DEF Goal
        <4> QED
          BY <4>1, <4>3 DEF GrantKept
      <3> QED
        BY <3>2, <3>3
    <2> QED
      BY <1>1, <1>3, <2>1, <2>2, MovesKeepsSenders DEF Orderly
  <1> QED
    BY <1>4, <1>5, <1>6, <1>7, <1>8, <1>9, <1>10 DEF Step

\* Who claims a row after the refund is late, and nobody else owns the row then.
LEMMA ClaimKeepsRefundInv ==
    ASSUME RefundInv, NEW w \in Senders, Claim(w)
    PROVE  RefundInv'
  <1> DEFINE e == sender[w].event
             t == Fresh(e)
  <1>1. /\ CardIInv /\ TypeOK /\ sender[w].pc = "claim" /\ e \in Events /\ ~Late(w)
    BY CardSenderShape DEF Claim, RefundInv, CardIInv, Late, Holding
  <1>2. CardIInv' /\ UNCHANGED <<rowVars, refundTx>>
    BY <1>1, CardClaimKeepsIInv DEF Claim
  <1>3. CASE Finish(w)
    <2>1. UNCHANGED eventVars
      BY <1>1, <1>3, ClaimLost
    <2>2. Moves(w)
      BY <1>1, <1>2, <1>3, <2>1, FinishShape DEF Moves, rowVars, eventVars
    <2>3. Orderly
      BY <1>1, <1>2, <2>1, <2>2, MovesKeepsSenders, QuietKeepsGrants
      DEF Orderly, OrderKept, rowVars, eventVars
    <2> QED
      BY <1>2, <2>3, OrderlyKeepsRefundInv
  <1>4. CASE ~Finish(w)
    <2>1. /\ Unclaimed(w, e) /\ t \in Tokens \ issued[e]
          /\ event'[e].status = "processing" /\ event'[e].token = t
          /\ \A x \in Events \ {e} : event'[x] = event[x]
          /\ sender'[w].pc = "check" /\ sender'[w].event = e
          /\ sender'[w].token = t /\ sender'[w].after = (order = "refunded")
          /\ \A v \in Senders \ {w} : sender'[v] = sender[v]
      BY <1>1, <1>4, CardClaimShape
    <2> HIDE DEF t
    <2>2. event[e].status \in {"pending", "blocked", "dead"}
      BY <1>1, <2>1 DEF Unclaimed, CardIInv, SeenIsClaimable
    <2>3. \A x \in Events :
            /\ event'[x].status = "succeeded" <=> event[x].status = "succeeded"
            /\ event'[x].status = "absent" <=> event[x].status = "absent"
      BY <2>1, <2>2
    <2>4. RefundedOnce'
      BY <1>2, <2>1 DEF RefundInv, RefundedOnce, Holding, rowVars
    <2>5. GrantHasDelivery' /\ DeliveredHasSucceeded' /\ ReadHasSucceeded'
      BY <1>2, <2>3, EventShape
      DEF RefundInv, GrantHasDelivery, DeliveredHasSucceeded, ReadHasSucceeded, rowVars
    <2>6. \A v \in Senders \ {w} : Holding(v)' =>
             /\ Holding(v) /\ sender[v].event \in Events
             /\ sender[v].event = e => sender[v].token # t
      BY <1>1, <2>1, CardSenderShape DEF CardIInv, TokenIssued, Holding
    <2>7. ASSUME NEW u \in Senders, Late(u)'
          PROVE  /\ sender'[u].pc \in {"check", "block"}
                 /\ event'[sender'[u].event].status # "succeeded"
                 /\ \A v \in Senders :
                      /\ Holding(v)' /\ sender'[v].event = sender'[u].event /\ Owns(v)'
                      => sender'[v].after
      <3>1. order = "refunded"
        BY <1>2, <2>4, <2>7 DEF RefundedOnce, Late, rowVars
      <3>2. ASSUME NEW v \in Senders \ {w}, Holding(v)', sender'[v].event = e, Owns(v)'
            PROVE  FALSE
        BY <2>1, <2>6, <3>2 DEF Owns
      <3>3. CASE u = w
        BY <2>1, <2>7, <3>2, <3>3 DEF Late
      <3>4. CASE u # w
        <4>1. Late(u) /\ sender'[u] = sender[u] /\ sender[u].event \in Events
          BY <2>1, <2>6, <2>7, <3>4 DEF Late, Holding
        <4>2. event'[sender[u].event].status # "succeeded"
          BY <2>3, <4>1 DEF RefundInv, LateIsGuarded
        <4>3. ASSUME NEW v \in Senders, Holding(v)', sender'[v].event = sender'[u].event, Owns(v)'
              PROVE  sender'[v].after
          <5>1. CASE v = w
            BY <2>1, <3>1, <5>1
          <5>2. CASE v # w /\ sender[u].event # e
            <6>1. Holding(v) /\ sender'[v] = sender[v] /\ Owns(v)
              BY <2>1, <2>6, <4>1, <4>3, <5>2 DEF Owns
            <6> QED
              BY <4>1, <4>3, <6>1 DEF RefundInv, LateIsGuarded
          <5>3. CASE v # w /\ sender[u].event = e
            BY <3>2, <4>1, <4>3, <5>3
          <5> QED
            BY <5>1, <5>2, <5>3
        <4> QED
          BY <4>1, <4>2, <4>3 DEF RefundInv, LateIsGuarded
      <3> QED
        BY <3>3, <3>4
    <2>8. LateIsGuarded'
      BY <2>7 DEF LateIsGuarded
    <2> QED
      BY <1>2, <2>4, <2>5, <2>8 DEF RefundInv
  <1> QED
    BY <1>3, <1>4

\* The claim, the refund, the mint, the lease, and a dispatcher that reads a row.
LEMMA OtherIsOrderly ==
    ASSUME RefundInv,
           \/ Confirm \/ Expire \/ Reissue \/ RefundReads \/ RefundCommits \/ ReclaimStale
           \/ \E i \in Issues : Mint(i)
           \/ \E w \in Senders, e \in Events : Pick(w, e)
           \/ \E e \in Events : LeaseTimesOut(e)
    PROVE  Orderly
  <1>1. CardIInv /\ TypeOK
    BY DEF RefundInv, CardIInv
  <1>2. SenderKept
    <2>1. \A v \in Senders : sender'[v] = sender[v] \/ sender'[v].pc = "claim"
      <3>1. CASE \E w \in Senders, e \in Events : Pick(w, e)
        BY <1>1, <3>1 DEF Pick, TypeOK
      <3>2. CASE ~\E w \in Senders, e \in Events : Pick(w, e)
        BY <3>2 DEF Confirm, Expire, Reissue, RefundReads, RefundCommits, ReclaimStale, Mint,
                    LeaseTimesOut
      <3> QED
        BY <3>1, <3>2
    <2> QED
      BY <2>1 DEF SenderKept, Holding, RefundInv, LateIsGuarded
  <1>3. CASE Confirm
    <2>1. OrderKept
      BY <1>3 DEF Confirm, OrderKept
    <2>2. CASE ConfirmClaim
      <3>1. ASSUME NEW i \in Issues PROVE GrantKept(i)
        <4> DEFINE g == <<i, "grant">>
        <4>1. g \in Events /\ g[2] = "grant" /\ event[g] \in Row
          BY <1>1, EventShape DEF TypeOK
        <4>2. event[g].status = "absent" /\ event'[g].status = "pending"
          <5>1. event[g].status = "absent"
            BY <1>1, <1>3 DEF CardIInv, ClaimFirst, Confirm
          <5>2. event'[g] = [event[g] EXCEPT !.status = "pending"]
            BY <2>2, <4>1 DEF ConfirmClaim
          <5> QED
            BY <4>1, <5>1, <5>2, RowWrites DEF CardStatuses
        <4>3. delivery'[i] = [status |-> "PENDING", event |-> "grant"]
          BY <2>2 DEF ConfirmClaim
        <4> QED
          BY <4>2, <4>3 DEF GrantKept
      <3> QED
        BY <1>2, <2>1, <3>1 DEF Orderly
    <2>3. CASE RejectClaim
      BY <1>2, <2>1, <2>3, QuietKeepsGrants DEF RejectClaim, Orderly
    <2> QED
      BY <1>3, <2>2, <2>3 DEF Confirm
  <1>4. CASE RefundCommits
    <2>1. OrderKept
      BY <1>4 DEF RefundCommits, OrderKept
    <2>2. ASSUME NEW i \in Issues PROVE GrantKept(i)
      <3> DEFINE g == <<i, "grant">>
      <3>1. g \in Events /\ g[2] = "grant" /\ delivery[i] \in Delivery
        BY <1>1, EventShape DEF TypeOK
      <3>2. \/ event'[g] = event[g]
            \/ event[g].status \in {"pending", "blocked"} /\ event'[g].status = "blocked"
        BY <1>1, <1>4, <3>1, RefundShape
      <3>3. CASE i \in Revocable
        <4>1. event[g].status = "succeeded"
          BY <1>4, <3>3 DEF RefundCommits, Revocable, RefundInv, ReadHasSucceeded
        <4>2. delivery'[i] = [delivery[i] EXCEPT !.event = "revoke"]
          BY <1>4, <3>3 DEF RefundCommits
        <4>3. delivery'[i].status = delivery[i].status /\ delivery'[i].event = "revoke"
          BY <3>1, <4>2 DEF Delivery
        <4> QED
          BY <3>2, <4>1, <4>3 DEF GrantKept
      <3>4. CASE i \notin Revocable
        <4>1. delivery'[i] = delivery[i] \/ delivery'[i] = [delivery[i] EXCEPT !.status = "REVOKED"]
          BY <1>4, <3>4 DEF RefundCommits
        <4>2. /\ delivery'[i].status \in {delivery[i].status, "REVOKED"}
              /\ delivery'[i].event = delivery[i].event
          BY <3>1, <4>1 DEF Delivery
        <4> QED
          BY <3>2, <4>2 DEF GrantKept
      <3> QED
        BY <3>3, <3>4
    <2> QED
      BY <1>2, <2>1, <2>2 DEF Orderly
  <1>5. CASE ReclaimStale
    <2>1. OrderKept /\ delivery' = delivery
      BY <1>5 DEF ReclaimStale, OrderKept, rowVars
    <2>2. ASSUME NEW i \in Issues PROVE GrantKept(i)
      <3> DEFINE g == <<i, "grant">>
      <3>1. g \in Events /\ event[g] \in Row /\ (stale[g] => event[g].status = "processing")
        BY <1>1, EventShape DEF TypeOK, CardIInv, CardStaleIsProcessing
      <3>2. \/ event'[g] = event[g]
            \/ /\ event[g].status = "processing"
               /\ event'[g] = [event[g] EXCEPT !.status = "pending", !.token = NoToken]
        BY <1>5, <3>1 DEF ReclaimStale
      <3>3. \/ event'[g] = event[g]
            \/ event[g].status = "processing" /\ event'[g].status = "pending"
        BY <3>1, <3>2 DEF Row
      <3> QED
        BY <2>1, <3>3 DEF GrantKept
    <2> QED
      BY <1>2, <2>1, <2>2 DEF Orderly
  <1>6. CASE \/ Expire \/ Reissue \/ RefundReads
             \/ \E i \in Issues : Mint(i)
             \/ \E w \in Senders, e \in Events : Pick(w, e)
             \/ \E e \in Events : LeaseTimesOut(e)
    <2>1. UNCHANGED <<delivery, event>>
      BY <1>6 DEF Expire, Reissue, RefundReads, Mint, Pick, LeaseTimesOut, rowVars, eventVars
    <2>2. OrderKept
      BY <1>6 DEF Expire, Reissue, RefundReads, Mint, Pick, LeaseTimesOut, OrderKept, rowVars
    <2> QED
      BY <1>2, <2>1, <2>2, QuietKeepsGrants DEF Orderly
  <1> QED
    BY <1>3, <1>4, <1>5, <1>6

LEMMA InitRefundInv == Init => RefundInv
  <1> SUFFICES ASSUME Init PROVE RefundInv
    OBVIOUS
  <1>1. \A w \in Senders : ~Holding(w)
    BY IdlePc DEF Init, Holding
  <1>2. GrantHasDelivery /\ DeliveredHasSucceeded
    BY EventShape DEF Init, GrantHasDelivery, DeliveredHasSucceeded, NoDelivery, Absent
  <1> QED
    BY <1>1, <1>2, CardInitIInv DEF Init, RefundInv, RefundedOnce, ReadHasSucceeded, LateIsGuarded, Late

LEMMA NextRefundInv == RefundInv /\ [Next]_vars => RefundInv'
  <1> SUFFICES ASSUME RefundInv, [Next]_vars PROVE RefundInv'
    OBVIOUS
  <1>1. CardIInv'
    BY CardNextIInv DEF RefundInv
  <1>2. ASSUME NEW w \in Senders, Step(w) \/ Crash(w) PROVE RefundInv'
    BY <1>1, <1>2, StepIsOrderly, OrderlyKeepsRefundInv, ClaimKeepsRefundInv
  <1>3. CASE UNCHANGED vars
    BY <1>1, <1>3 DEF vars, rowVars, eventVars, walletVars, RefundInv, RefundedOnce,
       GrantHasDelivery, DeliveredHasSucceeded, ReadHasSucceeded, LateIsGuarded, Late, Holding,
       Owns
  <1> QED
    BY <1>1, <1>2, <1>3, OtherIsOrderly, OrderlyKeepsRefundInv DEF Next

LEMMA RefundInvariant == Spec => []RefundInv
BY InitRefundInv, NextRefundInv, PTL DEF Spec

\* A sender that claimed a grant after the refund had committed never sends it, whoever
\* else works on the row, and whatever leases run out.
THEOREM NoGrantAfterRefundHolds == Spec => []NoGrantAfterRefund
  <1>1. RefundInv => NoGrantAfterRefund
    BY DEF RefundInv, LateIsGuarded, Late, Holding, NoGrantAfterRefund
  <1> QED
    BY <1>1, RefundInvariant, PTL

-----------------------------------------------------------------------------
(* The claim follows its cards *)

\* Before its confirmation a claim has no deliveries; until a refund nothing is
\* taken back, and the claim is delivered when its cards are; what the refund has
\* read as delivered still is.
BeforeConfirm ==
    claim \in {"PENDING", "EXPIRED"} => \A i \in Issues : delivery[i].status = "none"
AfterConfirm ==
    claim \in {"DELIVERY_PENDING", "DELIVERED"} => \A i \in Issues : delivery[i].status # "none"
CardUnreversed(i) ==
    /\ event[<<i, "revoke">>].status = "absent"
    /\ delivery[i].event # "revoke" /\ delivery[i].status # "REVOKED"
WhilePaid ==
    order = "paid" =>
      /\ claim \in {"PENDING", "EXPIRED", "DELIVERY_PENDING", "DELIVERED"}
      /\ \A i \in Issues : CardUnreversed(i)
      /\ claim = "DELIVERED" <=> AllDelivered
ReadIsDelivered ==
    refundTx # NoRefund =>
      \A i \in Issues :
         refundTx.delivery[i].status = "DELIVERED" => delivery[i].status = "DELIVERED"
ToTakeBack(i) ==
    delivery[i].status # "REVOKED" \/ event[<<i, "grant">>].status # "succeeded"
RevocationWaits == claim = "REVOCATION_PENDING" => \E i \in Issues : ToTakeBack(i)

RowsAgree == BeforeConfirm /\ AfterConfirm /\ WhilePaid /\ ReadIsDelivered /\ RevocationWaits

\* Another card is not where event e takes its own.
Short(e) ==
    \E i \in Issues \ {e[1]} :
       delivery[i].status # "none" /\ delivery[i].status # Goal(e[2])

\* What a sender knows of the refund and of the other cards; and a card it is sending
\* is revoked behind its back only together with the claim.
CardSenderKnows(w) ==
    LET e == sender[w].event
    IN  /\ sender[w].pc \in {"block", "mark"} => e[2] = "grant"
        /\ sender[w].pc = "block" => order = "refunded"
        /\ sender[w].pc \in {"count", "commit"} /\ sender[w].guarded => order = "refunded"
        /\ sender[w].pc = "commit" => (sender[w].left <=> Short(e))
        /\ /\ sender[w].pc \in {"mark", "send", "record", "count", "commit"}
           /\ PointsTo(e[1], e) /\ e[2] = "grant" /\ delivery[e[1]].status = "REVOKED"
           => claim = "REVOKED"

CardsAgree == RowsAgree /\ \A w \in Senders : CardSenderKnows(w)

LEMMA InitCardsAgree == Init => CardsAgree
  <1> SUFFICES ASSUME Init PROVE CardsAgree
    OBVIOUS
  <1>1. \A w \in Senders : sender[w].pc = "idle"
    BY IdlePc DEF Init
  <1>2. \A i \in Issues : /\ delivery[i].status = "none" /\ delivery[i].event = "none"
                          /\ event[<<i, "revoke">>].status = "absent"
    BY EventShape DEF Init, NoDelivery, Absent
  <1>3. RowsAgree
    BY <1>2, IssueAssumption DEF Init, RowsAgree, BeforeConfirm, AfterConfirm, WhilePaid, CardUnreversed,
       AllDelivered, ReadIsDelivered, RevocationWaits
  <1> QED
    BY <1>1, <1>3 DEF CardsAgree, CardSenderKnows

\* A step that leaves the order, the claim and the deliveries alone; no grant
\* succeeds in it, and no revoke is added.
LEMMA QuietKeepsRows ==
    ASSUME RowsAgree, UNCHANGED <<order, claim, delivery>>,
           refundTx' \in {refundTx, [claim |-> claim, delivery |-> delivery]},
           \A i \in Issues :
              /\ event[<<i, "revoke">>].status = "absent" => event'[<<i, "revoke">>].status = "absent"
              /\ event'[<<i, "grant">>].status = "succeeded" => event[<<i, "grant">>].status = "succeeded"
    PROVE  RowsAgree'
  <1>1. BeforeConfirm' /\ AfterConfirm'
    BY DEF RowsAgree, BeforeConfirm, AfterConfirm
  <1>2. WhilePaid'
    BY DEF RowsAgree, WhilePaid, CardUnreversed, AllDelivered
  <1>3. ReadIsDelivered'
    BY DEF RowsAgree, ReadIsDelivered
  <1>4. RevocationWaits'
    BY DEF RowsAgree, RevocationWaits, ToTakeBack
  <1> QED
    BY <1>1, <1>2, <1>3, <1>4 DEF RowsAgree

\* What a sender knows depends on the order, the claim, the deliveries and itself.
LEMMA QuietKeepsKnowledge ==
    ASSUME UNCHANGED <<order, claim, delivery>>, NEW w \in Senders, CardSenderKnows(w),
           sender'[w] = sender[w]
    PROVE  CardSenderKnows(w)'
BY DEF CardSenderKnows, Short, Goal, PointsTo

\* Until a refund a sender works on a grant of a claim that was confirmed.
LEMMA WorkedIsConfirmed ==
    ASSUME RefundInv, CardsAgree, NEW w \in Senders, sender[w].pc # "idle"
    PROVE  LET e == sender[w].event
           IN  /\ e \in Events /\ e[1] \in Issues /\ e = <<e[1], e[2]>> /\ e[2] \in {"grant", "revoke"}
               /\ event[e].status # "absent"
               /\ e[2] = "grant" => claim \notin {"PENDING", "EXPIRED"}
               /\ order = "paid" => e[2] = "grant" /\ claim \in {"DELIVERY_PENDING", "DELIVERED"}
  <1> DEFINE e == sender[w].event
  <1>1. /\ e \in Events /\ e[1] \in Issues /\ e = <<e[1], e[2]>> /\ e[2] \in {"grant", "revoke"}
    BY CardSenderShape, EventShape DEF RefundInv, CardIInv
  <1>2. event[e].status # "absent"
    BY DEF RefundInv, CardIInv, RowExists
  <1>3. e[2] = "grant" => claim \notin {"PENDING", "EXPIRED"}
    BY <1>1, <1>2 DEF RefundInv, CardIInv, ClaimFirst
  <1>4. order = "paid" => e[2] = "grant"
    BY <1>1, <1>2 DEF CardsAgree, RowsAgree, WhilePaid, CardUnreversed
  <1> QED
    BY <1>1, <1>2, <1>3, <1>4 DEF CardsAgree, RowsAgree, WhilePaid

-----------------------------------------------------------------------------
(* The steps of the claim, the refund, the mint and the lease *)

LEMMA ConfirmKeepsCards ==
    ASSUME RefundInv, CardsAgree, Confirm
    PROVE  CardsAgree'
  <1>1. claim = "PENDING" /\ UNCHANGED <<order, sender, refundTx>>
    BY DEF Confirm
  <1>2. \A i \in Issues : delivery[i].status = "none"
    BY <1>1 DEF CardsAgree, RowsAgree, BeforeConfirm
  <1>3. CASE ConfirmClaim
    <2>1. order = "paid" /\ claim' = "DELIVERY_PENDING"
      BY <1>3 DEF ConfirmClaim
    <2>2. \A w \in Senders : sender[w].pc = "idle"
      BY <1>1, <2>1, WorkedIsConfirmed
    <2>3. \A i \in Issues : delivery'[i].status = "PENDING" /\ delivery'[i].event = "grant"
      BY <1>3 DEF ConfirmClaim
    <2>4. \A i \in Issues : event'[<<i, "revoke">>] = event[<<i, "revoke">>]
      BY <1>3, EventShape DEF ConfirmClaim
    <2>5. ~AllDelivered'
      BY <2>3, IssueAssumption DEF AllDelivered
    <2>6. RowsAgree'
      BY <1>1, <1>2, <2>1, <2>3, <2>4, <2>5 DEF CardsAgree, RowsAgree, BeforeConfirm, AfterConfirm,
         WhilePaid, CardUnreversed, ReadIsDelivered, RevocationWaits
    <2> QED
      BY <1>1, <2>2, <2>6 DEF CardsAgree, CardSenderKnows
  <1>4. CASE RejectClaim
    <2>1. order = "refunded" /\ claim' = "REVOKED" /\ UNCHANGED <<delivery, event>>
      BY <1>4 DEF RejectClaim
    <2>2. RowsAgree'
      BY <1>1, <2>1 DEF CardsAgree, RowsAgree, BeforeConfirm, AfterConfirm,
         WhilePaid, ReadIsDelivered, RevocationWaits
    <2>3. \A w \in Senders : CardSenderKnows(w)'
      BY <1>1, <2>1 DEF CardsAgree, CardSenderKnows, Short, Goal
    <2> QED
      BY <2>2, <2>3 DEF CardsAgree
  <1> QED
    BY <1>3, <1>4 DEF Confirm

\* A link that runs out or is made again.
LEMMA LinkKeepsCards ==
    ASSUME RefundInv, CardsAgree, Expire \/ Reissue
    PROVE  CardsAgree'
  <1>1. /\ claim \in {"PENDING", "EXPIRED"} /\ claim' \in {"PENDING", "EXPIRED"}
        /\ UNCHANGED <<order, delivery, event, sender, refundTx>>
    BY DEF Expire, Reissue, Reissuable, eventVars
  <1>2. ~AllDelivered /\ ~AllDelivered'
    BY <1>1, IssueAssumption DEF CardsAgree, RowsAgree, BeforeConfirm, AllDelivered
  <1>3. RowsAgree'
    BY <1>1, <1>2 DEF CardsAgree, RowsAgree, BeforeConfirm, AfterConfirm,
       WhilePaid, CardUnreversed, ReadIsDelivered, RevocationWaits
  <1>4. \A w \in Senders : CardSenderKnows(w)'
    BY <1>1 DEF CardsAgree, CardSenderKnows, Short, Goal, PointsTo
  <1> QED
    BY <1>3, <1>4 DEF CardsAgree

LEMMA RefundKeepsCards ==
    ASSUME RefundInv, CardsAgree, RefundCommits
    PROVE  CardsAgree'
  <1> USE DEF RefundInv
  <1>1. /\ order = "paid" /\ order' = "refunded" /\ refundTx # NoRefund /\ refundTx' = NoRefund
        /\ sender' = sender /\ \A w \in Senders : sender[w].pc # "commit"
    BY DEF RefundCommits, RefundedOnce
  <1>2. claim \in {"PENDING", "EXPIRED", "DELIVERY_PENDING", "DELIVERED"}
    BY <1>1 DEF CardsAgree, RowsAgree, WhilePaid
  <1>3. \A i \in Issues :
           \/ delivery'[i] = delivery[i]
           \/ i \in Revocable /\ delivery'[i] = [delivery[i] EXCEPT !.event = "revoke"]
           \/ /\ refundTx.claim = "DELIVERY_PENDING"
              /\ refundTx.delivery[i].status # "none"
              /\ delivery'[i] = [delivery[i] EXCEPT !.status = "REVOKED"]
    BY DEF RefundCommits, Stopped
  <1>4. \A i \in Issues :
           /\ delivery'[i].event \in {delivery[i].event, "revoke"}
           /\ \/ delivery'[i].status = delivery[i].status
              \/ /\ refundTx.claim = "DELIVERY_PENDING"
                 /\ delivery'[i].status = "REVOKED"
    <2> SUFFICES ASSUME NEW i \in Issues
                 PROVE  /\ delivery'[i].event \in {delivery[i].event, "revoke"}
                        /\ \/ delivery'[i].status = delivery[i].status
                           \/ /\ refundTx.claim = "DELIVERY_PENDING"
                              /\ delivery'[i].status = "REVOKED"
      OBVIOUS
    <2>1. delivery[i] \in Delivery
      BY DEF CardIInv, TypeOK
    <2>2. /\ [delivery[i] EXCEPT !.event = "revoke"].event = "revoke"
          /\ [delivery[i] EXCEPT !.event = "revoke"].status = delivery[i].status
          /\ [delivery[i] EXCEPT !.status = "REVOKED"].event = delivery[i].event
          /\ [delivery[i] EXCEPT !.status = "REVOKED"].status = "REVOKED"
      BY <2>1 DEF Delivery
    <2> QED
      BY <1>3, <2>2
  <1>5. /\ refundTx.claim = "DELIVERY_PENDING" => claim' = "REVOKED"
        /\ claim' \in {"PENDING", "EXPIRED"} => claim' = claim
        /\ claim' \in {"DELIVERY_PENDING", "DELIVERED"} => claim' = claim
    BY DEF RefundCommits, ClaimAfterRefund
  <1>6. claim' = "REVOCATION_PENDING" => refundTx.claim = "DELIVERED" /\ Revocable # {}
    BY <1>2 DEF RefundCommits, ClaimAfterRefund
  <1>7. \A i \in Revocable : refundTx.delivery[i].status = "DELIVERED"
    BY DEF Revocable
  <1>8. \A i \in Revocable : i \in Issues /\ delivery[i].status = "DELIVERED"
    BY <1>1, <1>7 DEF CardsAgree, RowsAgree, ReadIsDelivered, Revocable
  <1>9. RowsAgree'
    BY <1>1, <1>4, <1>5, <1>6, <1>8 DEF CardsAgree, RowsAgree, BeforeConfirm, AfterConfirm,
       WhilePaid, ReadIsDelivered, RevocationWaits, ToTakeBack
  <1>10. ASSUME NEW w \in Senders PROVE CardSenderKnows(w)'
    <2> DEFINE e == sender[w].event
    <2>1. sender[w].pc \in {"mark", "send", "record", "count"} => e[1] \in Issues
      BY WorkedIsConfirmed
    <2>2. ASSUME sender[w].pc \in {"mark", "send", "record", "count"},
                 delivery'[e[1]].status = "REVOKED"
          PROVE  claim' = "REVOKED"
      <3>1. delivery[e[1]].status # "REVOKED"
        BY <1>1, <2>1, <2>2 DEF CardsAgree, RowsAgree, WhilePaid, CardUnreversed
      <3> QED
        BY <1>4, <1>5, <2>1, <2>2, <3>1
    <2> QED
      BY <1>1, <2>2 DEF CardsAgree, CardSenderKnows
  <1> QED
    BY <1>9, <1>10 DEF CardsAgree

\* The refund's reads, a mint, a lease, and the rows that are put back.
LEMMA OtherKeepsCards ==
    ASSUME RefundInv, CardsAgree,
           \/ RefundReads \/ ReclaimStale
           \/ \E i \in Issues : Mint(i)
           \/ \E e \in Events : LeaseTimesOut(e)
    PROVE  CardsAgree'
  <1>1. UNCHANGED <<order, claim, delivery, sender>>
    BY DEF RefundReads, ReclaimStale, Mint, LeaseTimesOut, rowVars
  <1>2. refundTx' \in {refundTx, [claim |-> claim, delivery |-> delivery]}
    BY DEF RefundReads, ReclaimStale, Mint, LeaseTimesOut
  <1>3. \A e \in Events :
           \/ event'[e] = event[e]
           \/ event[e].status = "processing" /\ event'[e].status = "pending"
    <2>1. CASE ReclaimStale
      <3>1. \A e \in Events : event[e] \in Row /\ (stale[e] => event[e].status = "processing")
        BY DEF RefundInv, CardIInv, TypeOK, CardStaleIsProcessing
      <3>2. \A e \in Events :
              \/ event'[e] = event[e]
              \/ /\ stale[e]
                 /\ event'[e] = [event[e] EXCEPT !.status = "pending", !.token = NoToken]
        BY <2>1 DEF ReclaimStale
      <3> QED
        BY <3>1, <3>2 DEF Row
    <2>2. CASE ~ReclaimStale
      BY <2>2 DEF RefundReads, Mint, LeaseTimesOut, eventVars
    <2> QED
      BY <2>1, <2>2
  <1>4. RowsAgree'
    BY <1>1, <1>2, <1>3, EventShape, QuietKeepsRows DEF CardsAgree
  <1> QED
    BY <1>1, <1>4, QuietKeepsKnowledge DEF CardsAgree

-----------------------------------------------------------------------------
(* The steps of the only sender *)

LEMMA PickKeepsCards ==
    ASSUME RefundInv, CardsAgree, NEW w \in Senders, NEW e \in Events, Pick(w, e)
    PROVE  CardsAgree'
  <1>1. UNCHANGED <<order, claim, delivery, event, refundTx>>
    BY DEF Pick, rowVars, eventVars
  <1>2. /\ \A v \in Senders \ {w} : sender'[v] = sender[v]
        /\ sender'[w].pc = "claim"
    BY DEF Pick, RefundInv, CardIInv, TypeOK
  <1>3. CardSenderKnows(w)'
    BY <1>2 DEF CardSenderKnows
  <1> QED
    BY <1>1, <1>2, <1>3, QuietKeepsRows, QuietKeepsKnowledge DEF CardsAgree

\* Steps that change nothing the claim depends on.
LEMMA QuietStepKeepsRows ==
    ASSUME RefundInv, CardsAgree, NEW w \in Senders,
           \/ Claim(w) \/ Hold(w) \/ Check(w) \/ Send(w) \/ Record(w) \/ Count(w) \/ Crash(w)
    PROVE  RowsAgree' /\ UNCHANGED <<order, claim, delivery>>
  <1>1. UNCHANGED <<order, claim, delivery, refundTx>>
    BY DEF Claim, Hold, Check, Send, Record, Count, Crash, rowVars
  <1>2. TypeOK /\ CardIInv
    BY DEF RefundInv, CardIInv
  <1>3. \A e \in Events :
           \/ event'[e] = event[e]
           \/ /\ event[e].status # "absent"
              /\ event'[e].status # "succeeded"
    <2>1. CASE Claim(w)
      <3>1. CASE Finish(w)
        BY <1>2, <2>1, <3>1, ClaimLost DEF eventVars
      <3>2. CASE ~Finish(w)
        <4>1. /\ event'[sender[w].event].status = "processing"
              /\ \A x \in Events \ {sender[w].event} : event'[x] = event[x]
          BY <1>2, <2>1, <3>2, CardClaimShape
        <4>2. event[sender[w].event].status # "absent"
          BY <1>2, <2>1 DEF CardIInv, RowExists, Claim
        <4> QED
          BY <4>1, <4>2
      <3> QED
        BY <3>1, <3>2
    <2>2. CASE Hold(w)
      <3>1. /\ event[sender[w].event].status # "absent" /\ event[sender[w].event] \in Row
        BY <1>2, <2>2, CardSenderShape DEF CardIInv, RowExists, Hold
      <3>2. [event[sender[w].event] EXCEPT !.status = "blocked"].status = "blocked"
        BY <3>1, RowWrites DEF CardStatuses
      <3> QED
        BY <1>2, <2>2, <3>1, <3>2 DEF Hold, TypeOK
    <2>3. CASE Check(w) \/ Send(w) \/ Record(w) \/ Count(w) \/ Crash(w)
      BY <2>3 DEF Check, Send, Record, Count, Crash, eventVars
    <2> QED
      BY <2>1, <2>2, <2>3
  <1> QED
    BY <1>1, <1>3, EventShape, QuietKeepsRows DEF CardsAgree

LEMMA QuietStepKeepsKnowledge ==
    ASSUME RefundInv, CardsAgree, NEW w \in Senders,
           \/ Claim(w) \/ Hold(w) \/ Check(w) \/ Send(w) \/ Record(w) \/ Count(w) \/ Crash(w)
    PROVE  CardSenderKnows(w)'
  <1>0. PICK e : e = sender[w].event
    OBVIOUS
  <1>1. UNCHANGED <<order, claim, delivery>>
    BY QuietStepKeepsRows
  <1>2. TypeOK /\ CardIInv /\ CardSenderKnows(w)
    BY DEF RefundInv, CardIInv, CardsAgree
  <1>3. CASE Claim(w)
    <2>1. sender'[w].pc \in {"idle", "check"}
      BY <1>2, <1>3, FinishShape, CardClaimShape
    <2> QED
      BY <2>1 DEF CardSenderKnows
  <1>4. CASE Hold(w) \/ Crash(w)
    <2>1. sender'[w].pc = "idle"
      BY <1>2, <1>4, FinishShape DEF Hold, Crash
    <2> QED
      BY <2>1 DEF CardSenderKnows
  <1>5. CASE Check(w)
    <2>1. PICK p \in {"block", "mark", "send"} :
            /\ Goto(w, p)
            /\ p \in {"block", "mark"} => e[2] = "grant"
            /\ p = "block" => Guard
            /\ p = "mark" => ~Guard
            /\ p = "send" => ~(e[2] = "grant" /\ PointsTo(e[1], e))
      BY <1>0, <1>5 DEF Check
    <2>2. sender'[w].pc = p /\ sender'[w].event = e /\ e[1] \in Issues
      BY <1>0, <1>2, <1>5, <2>1, GotoShape, WorkedIsConfirmed DEF Check, CardPcs
    <2>3. p = "block" => order = "refunded"
      BY <1>2, <2>1 DEF Guard, CardsAgree, RowsAgree, WhilePaid, TypeOK
    <2>4. p = "mark" => delivery[e[1]].status # "REVOKED"
      BY <1>2, <2>1, <2>2 DEF Guard, CardsAgree, RowsAgree, WhilePaid, CardUnreversed, TypeOK
    <2>5. PointsTo(e[1], e)' <=> PointsTo(e[1], e)
      BY <1>1 DEF PointsTo
    <2> QED
      BY <1>1, <2>1, <2>2, <2>3, <2>4, <2>5 DEF CardSenderKnows
  <1>6. CASE Send(w)
    <2>1. sender[w].pc = "send"
      BY <1>6 DEF Send
    <2>2. PICK p \in {"record", "failed"} : Goto(w, p)
      BY <1>6 DEF Send
    <2>3. sender'[w].pc = p /\ sender'[w].event = e
      BY <1>0, <1>2, <2>1, <2>2, GotoShape DEF CardPcs
    <2>4. PointsTo(e[1], e)' <=> PointsTo(e[1], e)
      BY <1>1 DEF PointsTo
    <2> QED
      BY <1>0, <1>1, <1>2, <2>1, <2>3, <2>4 DEF CardSenderKnows
  <1>7. CASE Record(w)
    <2>1. sender[w].pc = "record" /\ sender[w] \in Busy
      BY <1>2, <1>7, CardSenderShape DEF Record
    <2>2. CASE Finish(w)
      BY <1>2, <2>2, FinishShape DEF CardSenderKnows
    <2>3. ASSUME NEW g \in BOOLEAN, g => Guard,
                 sender' = [sender EXCEPT ![w].pc = "count", ![w].guarded = g]
          PROVE  CardSenderKnows(w)'
      <3> DEFINE next == [sender[w] EXCEPT !.pc = "count", !.guarded = g]
      <3>1. next.pc = "count" /\ next.event = e /\ next.guarded = g
        BY <1>0, <2>1 DEF Busy
      <3>2. sender'[w] = next
        BY <1>2, <2>3 DEF TypeOK
      <3> HIDE DEF next
      <3>3. g => order = "refunded"
        BY <1>2, <2>3 DEF Guard, CardsAgree, RowsAgree, WhilePaid, TypeOK
      <3>4. PointsTo(e[1], e)' <=> PointsTo(e[1], e)
        BY <1>1 DEF PointsTo
      <3> QED
        BY <1>0, <1>1, <1>2, <2>1, <3>1, <3>2, <3>3, <3>4 DEF CardSenderKnows
    <2>4. (e[2] = "grant" /\ Guard) \in BOOLEAN
      OBVIOUS
    <2> QED
      BY <1>0, <1>7, <2>2, <2>3, <2>4 DEF Record
  <1>8. CASE Count(w)
    <2>1. sender[w].pc = "count" /\ sender[w] \in Busy
      BY <1>2, <1>8, CardSenderShape DEF Count
    <2>2. PICK left \in BOOLEAN :
            /\ left <=> Short(e)
            /\ sender' = [sender EXCEPT ![w].pc = "commit", ![w].left = left]
      BY <1>0, <1>8 DEF Count, Short
    <2> DEFINE next == [sender[w] EXCEPT !.pc = "commit", !.left = left]
    <2>3. /\ next.pc = "commit" /\ next.event = e /\ next.left = left
          /\ next.guarded = sender[w].guarded
      BY <1>0, <2>1 DEF Busy
    <2>4. sender'[w] = next
      BY <1>2, <2>2 DEF TypeOK
    <2> HIDE DEF next
    <2>5. (PointsTo(e[1], e)' <=> PointsTo(e[1], e)) /\ (Short(e)' <=> Short(e))
      BY <1>1 DEF PointsTo, Short
    <2> QED
      BY <1>0, <1>1, <1>2, <2>1, <2>2, <2>3, <2>4, <2>5 DEF CardSenderKnows
  <1> QED
    BY <1>3, <1>4, <1>5, <1>6, <1>7, <1>8

LEMMA MarkKeepsCards ==
    ASSUME RefundInv, CardsAgree, NEW w \in Senders, MarkProcessing(w)
    PROVE  RowsAgree' /\ CardSenderKnows(w)'
  <1>0. PICK e : e = sender[w].event
    OBVIOUS
  <1>1. /\ sender[w].pc = "mark" /\ Goto(w, "send")
        /\ UNCHANGED <<order, claim, event, refundTx>>
    BY DEF MarkProcessing, eventVars
  <1>2. TypeOK /\ CardIInv /\ CardSenderKnows(w) /\ RowsAgree
    BY DEF RefundInv, CardIInv, CardsAgree
  <1>3. e[1] \in Issues /\ e[2] = "grant"
    BY <1>0, <1>1, <1>2, WorkedIsConfirmed DEF CardSenderKnows
  <1>4. CASE UNCHANGED delivery
    <2>1. RowsAgree'
      BY <1>1, <1>2, <1>4, QuietKeepsRows
    <2>2. sender'[w].pc = "send" /\ sender'[w].event = e
      BY <1>0, <1>1, <1>2, GotoShape DEF CardPcs
    <2>3. PointsTo(e[1], e)' <=> PointsTo(e[1], e)
      BY <1>4 DEF PointsTo
    <2> QED
      BY <1>0, <1>1, <1>2, <1>4, <2>1, <2>2, <2>3 DEF CardSenderKnows
  <1>5. CASE delivery[e[1]].status = "PENDING" /\ SetDelivery(e[1], "PROCESSING")
    <2>1. /\ delivery'[e[1]].status = "PROCESSING"
          /\ delivery'[e[1]].event = delivery[e[1]].event
          /\ \A j \in Issues \ {e[1]} : delivery'[j] = delivery[j]
      BY <1>2, <1>3, <1>5, SetDeliveryShape
    <2>2. BeforeConfirm' /\ AfterConfirm'
      BY <1>1, <1>2, <1>3, <1>5, <2>1 DEF RowsAgree, BeforeConfirm, AfterConfirm
    <2>3. WhilePaid'
      <3>1. ~AllDelivered /\ ~AllDelivered'
        BY <1>3, <1>5, <2>1 DEF AllDelivered
      <3> QED
        BY <1>1, <1>2, <1>3, <2>1, <3>1 DEF RowsAgree, WhilePaid, CardUnreversed
    <2>4. ReadIsDelivered'
      BY <1>1, <1>2, <1>5, <2>1 DEF RowsAgree, ReadIsDelivered
    <2>5. RevocationWaits'
      BY <1>3, <2>1 DEF RevocationWaits, ToTakeBack
    <2>6. sender'[w].pc = "send" /\ sender'[w].event = e
      BY <1>0, <1>1, <1>2, GotoShape DEF CardPcs
    <2> QED
      BY <2>1, <2>2, <2>3, <2>4, <2>5, <2>6 DEF RowsAgree, CardSenderKnows
  <1> QED
    BY <1>0, <1>4, <1>5 DEF MarkProcessing

\* The guard stops a card: only after the refund.
LEMMA BlockKeepsCards ==
    ASSUME RefundInv, CardsAgree, NEW w \in Senders, Block(w)
    PROVE  RowsAgree' /\ CardSenderKnows(w)'
  <1>0. PICK e : e = sender[w].event
    OBVIOUS
  <1>1. sender[w].pc = "block" /\ Finish(w) /\ UNCHANGED <<order, claim, refundTx>>
    BY DEF Block
  <1>2. TypeOK /\ CardIInv /\ CardSenderKnows(w) /\ RowsAgree
    BY DEF RefundInv, CardIInv, CardsAgree
  <1>3. /\ e \in Events /\ e[1] \in Issues /\ e = <<e[1], "grant">>
        /\ order = "refunded" /\ claim \notin {"PENDING", "EXPIRED"}
    BY <1>0, <1>1, <1>2, WorkedIsConfirmed DEF CardSenderKnows
  <1>4. CardSenderKnows(w)'
    <2>1. sender'[w].pc = "idle"
      BY <1>1, <1>2, FinishShape
    <2> QED
      BY <2>1 DEF CardSenderKnows
  <1>5. CASE UNCHANGED <<event, delivery>>
    BY <1>1, <1>2, <1>4, <1>5, QuietKeepsRows
  <1>6. CASE Settle(w, "blocked", event[e].attempt) /\ SetDelivery(e[1], "REVOKED")
    <2>1. /\ delivery'[e[1]].status = "REVOKED"
          /\ \A j \in Issues \ {e[1]} : delivery'[j] = delivery[j]
      BY <1>2, <1>3, <1>6, SetDeliveryShape
    <2>2. event'[<<e[1], "grant">>].status = "blocked"
      BY <1>0, <1>2, <1>3, <1>6 DEF Settle, TypeOK
    <2>3. refundTx = NoRefund
      BY <1>3 DEF RefundInv, RefundedOnce
    <2>4. BeforeConfirm' /\ AfterConfirm' /\ WhilePaid' /\ ReadIsDelivered'
      BY <1>1, <1>2, <1>3, <2>1, <2>3
      DEF RowsAgree, BeforeConfirm, AfterConfirm, WhilePaid, ReadIsDelivered
    <2>5. RevocationWaits'
      BY <1>3, <2>2 DEF RevocationWaits, ToTakeBack
    <2> QED
      BY <1>4, <2>4, <2>5 DEF RowsAgree
  <1> QED
    BY <1>0, <1>5, <1>6 DEF Block

\* The call failed: the row waits for the next attempt, or is given up.
LEMMA FailedKeepsCards ==
    ASSUME RefundInv, CardsAgree, NEW w \in Senders, Failed(w)
    PROVE  RowsAgree' /\ CardSenderKnows(w)'
  <1>0. PICK e : e = sender[w].event
    OBVIOUS
  <1>1. sender[w].pc = "failed" /\ Finish(w) /\ UNCHANGED <<order, claim, refundTx>>
    BY DEF Failed
  <1>2. TypeOK /\ CardIInv /\ RowsAgree
    BY DEF RefundInv, CardIInv, CardsAgree
  <1>3. /\ e \in Events /\ e[1] \in Issues /\ e = <<e[1], e[2]>> /\ e[2] \in {"grant", "revoke"}
        /\ order = "paid" => e[2] = "grant"
    BY <1>0, <1>1, WorkedIsConfirmed
  <1>4. CardSenderKnows(w)'
    <2>1. sender'[w].pc = "idle"
      BY <1>1, <1>2, FinishShape
    <2> QED
      BY <2>1 DEF CardSenderKnows
  <1>5. CASE UNCHANGED <<event, delivery>>
    BY <1>1, <1>2, <1>4, <1>5, QuietKeepsRows
  <1>6. ASSUME Owns(w), NEW s \in {"pending", "dead"}, NEW n, Settle(w, s, n),
               \/ UNCHANGED delivery
               \/ /\ PointsTo(e[1], e)
                  /\ SetDelivery(e[1], "DEAD") \/ SetDelivery(e[1], "FAILED")
        PROVE  RowsAgree'
    <2>1. /\ event[e].status = "processing" /\ event'[e].status = s
          /\ \A x \in Events \ {e} : event'[x] = event[x]
      BY <1>0, <1>2, <1>3, <1>6 DEF Settle, TypeOK, Owns
    <2>2. \A i \in Issues :
             /\ <<i, "revoke">> \in Events /\ <<i, "grant">> \in Events
             /\ event[<<i, "revoke">>].status = "absent" => event'[<<i, "revoke">>].status = "absent"
             /\ event'[<<i, "grant">>].status = "succeeded" => event[<<i, "grant">>].status = "succeeded"
      BY <2>1, EventShape
    <2>3. CASE UNCHANGED delivery
      BY <1>1, <1>2, <2>2, <2>3, QuietKeepsRows
    <2>4. CASE PointsTo(e[1], e) /\ (SetDelivery(e[1], "DEAD") \/ SetDelivery(e[1], "FAILED"))
      <3>1. /\ delivery'[e[1]].status \in {"DEAD", "FAILED"}
            /\ delivery'[e[1]].event = delivery[e[1]].event
            /\ \A j \in Issues \ {e[1]} : delivery'[j] = delivery[j]
            /\ delivery[e[1]].status # "none"
        BY <1>2, <1>3, <2>4, SetDeliveryShape DEF PointsTo
      <3>2. BeforeConfirm' /\ AfterConfirm'
        BY <1>1, <1>2, <1>3, <3>1 DEF RowsAgree, BeforeConfirm, AfterConfirm
      <3>3. order = "paid" => delivery[e[1]].status # "DELIVERED"
        BY <1>3, <2>1 DEF RefundInv, DeliveredHasSucceeded
      <3>4. WhilePaid'
        <4> SUFFICES ASSUME order = "paid" PROVE WhilePaid'
          BY <1>1 DEF WhilePaid
        <4>1. ~AllDelivered /\ ~AllDelivered'
          BY <1>3, <3>1, <3>3 DEF AllDelivered
        <4>2. ASSUME NEW i \in Issues PROVE CardUnreversed(i)'
          <5>1. CardUnreversed(i)
            BY <1>2 DEF RowsAgree, WhilePaid
          <5>2. delivery'[i].event = delivery[i].event
                /\ delivery'[i].status \in {delivery[i].status, "DEAD", "FAILED"}
            BY <3>1
          <5> QED
            BY <2>2, <5>1, <5>2 DEF CardUnreversed
        <4> QED
          BY <1>1, <1>2, <4>1, <4>2 DEF RowsAgree, WhilePaid
      <3>5. ReadIsDelivered'
        BY <1>1, <1>2, <3>1, <3>3 DEF RowsAgree, ReadIsDelivered, RefundInv, RefundedOnce
      <3>6. RevocationWaits'
        BY <1>3, <3>1 DEF RevocationWaits, ToTakeBack
      <3> QED
        BY <3>2, <3>4, <3>5, <3>6 DEF RowsAgree
    <2> QED
      BY <1>6, <2>3, <2>4
  <1>7. \A n : NextStatus(n) \in {"pending", "dead"}
    BY DEF NextStatus
  <1> QED
    BY <1>0, <1>4, <1>5, <1>6, <1>7 DEF Failed

\* A sender that is about to commit a grant has not succeeded yet, and the card's
\* delivery points to the grant.
LEMMA CommittedShape ==
    ASSUME RefundInv, CardsAgree, NEW w \in Senders, sender[w].pc = "commit"
    PROVE  LET e == sender[w].event
           IN  /\ event[e].status = "processing"
               /\ e[2] = "grant" => /\ PointsTo(e[1], e) /\ delivery[e[1]].status # "DELIVERED"
                                    /\ delivery[e[1]].event = "grant"
  <1> DEFINE e == sender[w].event
  <1>1. /\ e \in Events /\ e[1] \in Issues /\ e = <<e[1], e[2]>> /\ event[e].status # "absent"
    BY WorkedIsConfirmed
  <1>2. event[e].status = "processing"
    BY DEF RefundInv, CardIInv, LockedIsOwned, Owns
  <1>3. ASSUME e[2] = "grant"
        PROVE  /\ delivery[e[1]].status # "none" /\ delivery[e[1]].status # "DELIVERED"
               /\ delivery[e[1]].event = "grant"
    BY <1>1, <1>2, <1>3 DEF RefundInv, GrantHasDelivery, DeliveredHasSucceeded
  <1> QED
    BY <1>1, <1>2, <1>3 DEF PointsTo

\* The last grant of a claim delivers it, and the last revoke ends its revocation.
LEMMA SyncKeepsRows ==
    ASSUME RefundInv, CardsAgree, NEW w \in Senders, sender[w].pc = "commit",
           NEW e, e = sender[w].event, PointsTo(e[1], e), SyncSucceeded(w),
           UNCHANGED <<order, refundTx>>,
           \A x \in Events \ {e} : event'[x] = event[x]
    PROVE  RowsAgree'
  <1>1. TypeOK /\ CardSenderKnows(w) /\ RowsAgree
    BY DEF RefundInv, CardIInv, CardsAgree
  <1>2. /\ e \in Events /\ e[1] \in Issues /\ e = <<e[1], e[2]>> /\ e[2] \in {"grant", "revoke"}
        /\ order = "paid" => e[2] = "grant" /\ claim \in {"DELIVERY_PENDING", "DELIVERED"}
    BY WorkedIsConfirmed
  <1>3. delivery[e[1]].status # "none"
    BY DEF PointsTo
  <1>4. /\ delivery'[e[1]].status = Goal(e[2])
        /\ delivery'[e[1]].event = delivery[e[1]].event
        /\ \A i \in Issues \ {e[1]} : delivery'[i] = delivery[i]
    BY <1>1, <1>2, SetDeliveryShape DEF SyncSucceeded, Goal
  <1>5. claim' = IF /\ ~Short(e)
                    /\ claim = IF e[2] = "grant" THEN "DELIVERY_PENDING"
                                                 ELSE "REVOCATION_PENDING"
                 THEN Goal(e[2]) ELSE claim
    BY <1>1 DEF SyncSucceeded, CardSenderKnows
  <1>6. Goal(e[2]) # "none"
    BY DEF Goal
  <1>7. BeforeConfirm'
    BY <1>1, <1>2, <1>3, <1>5 DEF RowsAgree, BeforeConfirm, Goal
  <1>8. CASE e[2] = "grant"
    <2>1. Goal(e[2]) = "DELIVERED"
      BY <1>8 DEF Goal
    <2>2. AfterConfirm'
      BY <1>1, <1>2, <1>4, <1>5, <1>8, <2>1 DEF RowsAgree, AfterConfirm
    <2>3. WhilePaid'
      <3> SUFFICES ASSUME order = "paid" PROVE WhilePaid'
        BY DEF WhilePaid
      <3>1. delivery[e[1]].status # "DELIVERED" /\ ~AllDelivered
        BY <1>2, <1>8, CommittedShape DEF AllDelivered
      <3>2. claim = "DELIVERY_PENDING"
        BY <1>1, <1>2, <3>1 DEF RowsAgree, WhilePaid
      <3>3. \A i \in Issues : delivery[i].status # "none"
        BY <1>1, <3>2 DEF RowsAgree, AfterConfirm
      <3>4. Short(e) <=> \E i \in Issues \ {e[1]} : delivery[i].status # "DELIVERED"
        BY <2>1, <3>3 DEF Short
      <3>5. AllDelivered' <=> ~Short(e)
        BY <1>2, <1>4, <2>1, <3>4 DEF AllDelivered
      <3>6. claim' = "DELIVERED" <=> ~Short(e)
        BY <1>5, <1>8, <2>1, <3>2
      <3>7. claim' \in {"DELIVERY_PENDING", "DELIVERED"}
        BY <1>5, <2>1, <3>2
      <3>8. \A i \in Issues : CardUnreversed(i)'
        <4>1. \A i \in Issues : <<i, "revoke">> \in Events \ {e}
          BY <1>2, <1>8, EventShape
        <4>2. \A i \in Issues : /\ delivery'[i].event = delivery[i].event
                                /\ delivery'[i].status \in {delivery[i].status, "DELIVERED"}
          BY <1>4, <2>1
        <4> QED
          BY <1>1, <4>1, <4>2 DEF RowsAgree, WhilePaid, CardUnreversed
      <3> QED
        BY <3>5, <3>6, <3>7, <3>8 DEF WhilePaid
    <2>4. ReadIsDelivered'
      BY <1>1, <1>4, <2>1 DEF RowsAgree, ReadIsDelivered
    <2>5. RevocationWaits'
      BY <1>2, <1>4, <2>1 DEF RevocationWaits, ToTakeBack
    <2> QED
      BY <1>7, <2>2, <2>3, <2>4, <2>5 DEF RowsAgree
  <1>9. CASE e[2] = "revoke"
    <2>1. Goal(e[2]) = "REVOKED" /\ e[2] # "grant"
      BY <1>9 DEF Goal
    <2>2. order = "refunded" /\ refundTx = NoRefund
      BY <1>1, <1>2, <2>1 DEF RefundInv, RefundedOnce, TypeOK
    <2>3. AfterConfirm'
      BY <1>1, <1>2, <1>4, <1>5, <2>1 DEF RowsAgree, AfterConfirm
    <2>4. WhilePaid' /\ ReadIsDelivered'
      BY <2>2 DEF WhilePaid, ReadIsDelivered
    <2>5. RevocationWaits'
      <3> SUFFICES ASSUME claim' = "REVOCATION_PENDING" PROVE \E i \in Issues : ToTakeBack(i)'
        BY DEF RevocationWaits
      <3>1. Short(e)
        BY <1>5, <2>1
      <3>2. PICK i \in Issues \ {e[1]} : delivery[i].status # "REVOKED"
        BY <2>1, <3>1 DEF Short
      <3> QED
        BY <1>4, <3>2 DEF ToTakeBack
    <2> QED
      BY <1>7, <2>3, <2>4, <2>5 DEF RowsAgree
  <1> QED
    BY <1>2, <1>8, <1>9

\* A grant that the wallet took while its order was being refunded is reversed.
LEMMA CompensateKeepsRows ==
    ASSUME RefundInv, CardsAgree, NEW w \in Senders, sender[w].pc = "commit",
           sender[w].guarded, Compensate(sender[w].event), UNCHANGED <<order, refundTx>>
    PROVE  RowsAgree'
  <1>0. PICK e : e = sender[w].event
    OBVIOUS
  <1>1. TypeOK /\ CardSenderKnows(w) /\ RowsAgree
    BY DEF RefundInv, CardIInv, CardsAgree
  <1>2. e[1] \in Issues /\ e[2] = "grant" /\ PointsTo(e[1], e)
    BY <1>0, WorkedIsConfirmed, CommittedShape DEF RefundInv, CardIInv, GuardedIsGrant
  <1>3. order = "refunded" /\ refundTx = NoRefund
    BY <1>1 DEF CardSenderKnows, RefundInv, RefundedOnce
  <1>4. WhilePaid' /\ ReadIsDelivered'
    BY <1>3 DEF WhilePaid, ReadIsDelivered
  <1>5. CASE Reversed(e)
    <2>1. claim' \in {"REVOKED", "MANUAL_REVIEW_REQUIRED", "REVOCATION_PENDING"}
      BY <1>0, <1>5 DEF Compensate, Compensated
    <2>2. delivery'[e[1]].status = delivery[e[1]].status
      <3>1. delivery[e[1]] \in Delivery
        BY <1>1, <1>2 DEF TypeOK
      <3>2. [delivery[e[1]] EXCEPT !.event = "revoke"].status = delivery[e[1]].status
        BY <3>1 DEF Delivery
      <3>3. delivery' = [delivery EXCEPT ![e[1]].event = "revoke"]
        BY <1>0, <1>5 DEF Compensate
      <3> QED
        BY <1>1, <1>2, <3>2, <3>3 DEF TypeOK
    <2>3. BeforeConfirm' /\ AfterConfirm'
      BY <2>1 DEF BeforeConfirm, AfterConfirm
    <2>4. RevocationWaits'
      BY <1>2, <1>5, <2>2 DEF Reversed, RevocationWaits, ToTakeBack
    <2> QED
      BY <1>4, <2>3, <2>4 DEF RowsAgree
  <1>6. CASE ~Reversed(e)
    <2>1. UNCHANGED <<delivery, claim>>
      BY <1>0, <1>6 DEF Compensate
    <2>2. claim = "REVOKED"
      BY <1>0, <1>1, <1>2, <1>6 DEF Reversed, CardSenderKnows
    <2>3. BeforeConfirm' /\ AfterConfirm' /\ RevocationWaits'
      BY <2>1, <2>2 DEF BeforeConfirm, AfterConfirm, RevocationWaits
    <2> QED
      BY <1>4, <2>3 DEF RowsAgree
  <1> QED
    BY <1>5, <1>6

LEMMA SucceedKeepsCards ==
    ASSUME RefundInv, CardsAgree, NEW w \in Senders, Succeed(w)
    PROVE  RowsAgree' /\ CardSenderKnows(w)'
  <1>0. PICK e : e = sender[w].event
    OBVIOUS
  <1>1. sender[w].pc = "commit" /\ Finish(w) /\ UNCHANGED <<order, refundTx>>
    BY DEF Succeed
  <1>2. TypeOK /\ CardIInv /\ RowsAgree
    BY DEF RefundInv, CardIInv, CardsAgree
  <1>3. e \in Events /\ e = <<e[1], e[2]>> /\ e[2] \in {"grant", "revoke"}
    BY <1>0, <1>1, WorkedIsConfirmed
  <1>4. CardSenderKnows(w)'
    <2>1. sender'[w].pc = "idle"
      BY <1>1, <1>2, FinishShape
    <2> QED
      BY <2>1 DEF CardSenderKnows
  <1>5. CASE sender[w].guarded
    BY <1>1, <1>4, <1>5, CompensateKeepsRows DEF Succeed
  <1>6. CASE ~sender[w].guarded
    <2>1. \A x \in Events \ {e} : event'[x] = event[x]
      BY <1>0, <1>2, <1>3, <1>6 DEF Succeed, TypeOK
    <2>2. CASE PointsTo(e[1], e) /\ SyncSucceeded(w)
      BY <1>0, <1>1, <1>4, <2>1, <2>2, SyncKeepsRows
    <2>3. CASE ~PointsTo(e[1], e) /\ UNCHANGED <<delivery, claim>>
      <3>1. e[2] = "revoke" /\ event[e].status = "processing"
        BY <1>0, <1>1, <1>3, <2>3, CommittedShape
      <3>2. \A i \in Issues :
               /\ event[<<i, "revoke">>].status = "absent"
                    => event'[<<i, "revoke">>].status = "absent"
               /\ event'[<<i, "grant">>] = event[<<i, "grant">>]
        BY <1>3, <2>1, <3>1, EventShape
      <3> QED
        BY <1>1, <1>2, <1>4, <2>3, <3>2, QuietKeepsRows
    <2> QED
      BY <1>0, <1>6, <2>2, <2>3 DEF Succeed
  <1> QED
    BY <1>5, <1>6

-----------------------------------------------------------------------------
(* One sender at a time *)

LEMMA StepKeepsCards ==
    ASSUME RefundInv, CardsAgree, OneSender, NEW w \in Senders, Step(w) \/ Crash(w)
    PROVE  CardsAgree'
  <1>1. RowsAgree' /\ CardSenderKnows(w)'
    BY QuietStepKeepsRows, QuietStepKeepsKnowledge, MarkKeepsCards, BlockKeepsCards,
       SucceedKeepsCards, FailedKeepsCards DEF Step
  <1>2. \A v \in Senders : v = w
    BY DEF OneSender
  <1> QED
    BY <1>1, <1>2 DEF CardsAgree

LEMMA NextCardsAgree ==
    ASSUME OneSender, RefundInv, CardsAgree, [Next]_vars
    PROVE  CardsAgree'
  <1>1. CASE UNCHANGED vars
    <2>1. UNCHANGED <<order, claim, delivery, event, sender, refundTx>>
      BY <1>1 DEF vars, rowVars, eventVars
    <2> QED
      BY <2>1, QuietKeepsRows, QuietKeepsKnowledge DEF CardsAgree
  <1> QED
    BY <1>1, StepKeepsCards, PickKeepsCards, OtherKeepsCards, ConfirmKeepsCards, LinkKeepsCards,
       RefundKeepsCards DEF Next

\* While one dispatch works at a time the claim follows its cards: it is DELIVERED
\* exactly when all of them are (until a refund), and waits for a revocation only while
\* a card is still to be taken back or was never handed over, whatever fails, is lost or
\* is killed.
THEOREM ClaimFollowsCardsHolds == Spec => []ClaimFollowsCards
  <1>1. ASSUME OneSender PROVE CardsAgree => ClaimFollowsCards
    BY DEF CardsAgree, RowsAgree, WhilePaid, RevocationWaits, ToTakeBack, ClaimFollowsCards
  <1>2. ~OneSender => ClaimFollowsCards
    BY DEF ClaimFollowsCards
  <1>3. Init => (OneSender => CardsAgree)
    BY InitCardsAgree
  <1>4. RefundInv /\ (OneSender => CardsAgree) /\ [Next]_vars => (OneSender => CardsAgree)'
    BY NextCardsAgree DEF OneSender
  <1>5. (OneSender => CardsAgree) => ClaimFollowsCards
    BY <1>1, <1>2
  <1> QED
    BY <1>3, <1>4, <1>5, RefundInvariant, PTL DEF Spec

-----------------------------------------------------------------------------
(***************************************************************************)
(* The rewards.  RewardIInv says what a sender has done to the wallet when *)
(* it is about to record it, and that every recorded transaction is that   *)
(* of an event that succeeded; for a rule there is one grant.              *)
(***************************************************************************)

\* The events of the order: none before the payment, at most one grant per rule, and
\* no more than MaxEvents.
Answered == {h \in Refunds : refund[h] = "done"}
EventsCounted ==
    /\ purchase = "pending" => Len(outbox) = 0
    /\ Len(outbox) <= Cardinality(Rules) * (1 + Cardinality(Answered))

OneGrant ==
    \A e, f \in DOMAIN outbox :
       outbox[e].rule = outbox[f].rule /\ outbox[e].type = "grant" /\ outbox[f].type = "grant" => e = f

RewardStaleIsProcessing ==
    \A e \in DOMAIN outbox : outbox[e].stale => outbox[e].status = "processing"

\* The wallet credits the grants of its own rules, each with its amount.
CreditedGrants ==
    \A e \in DOMAIN credit : credit[e] # 0 =>
       /\ e \in DOMAIN outbox /\ outbox[e].type = "grant" /\ outbox[e].rule \in OveRules
       /\ credit[e] = outbox[e].amount

Recorded(g, r) == \E row \in rows : row.original = 0 /\ row.event = g /\ row.rule = r

\* What a sender is about to do to the wallet, and what it has done.
RewardSenderKnows(w) ==
    LET e == pusher[w].event
    IN  pusher[w].pc # "idle" =>
          /\ e \in DOMAIN outbox
          /\ pusher[w].pc \in {"reconcile", "find"} => pusher[w].grant = 0
          /\ pusher[w].pc = "find" => Rewards!IsReversal(e)
          /\ pusher[w].pc \in {"call", "record"} =>
               IF Rewards!IsReversal(e) THEN pusher[w].grant # 0 /\ Recorded(pusher[w].grant, outbox[e].rule)
                                        ELSE pusher[w].grant = 0
          /\ pusher[w].pc = "record" /\ ~pusher[w].dry /\ outbox[e].rule \in OveRules =>
               IF Rewards!IsReversal(e) THEN pusher[w].grant \in back
                                        ELSE credit[e] = outbox[e].amount

\* A recorded transaction is that of an event that has succeeded.
RowsAreTrue ==
    \A row \in rows :
       /\ row.event \in DOMAIN outbox /\ outbox[row.event].rule = row.rule
       /\ row.rule \in OveRules /\ Rewards!Succeeded(row.event)
       /\ row.original = 0 => /\ outbox[row.event].type = "grant"
                              /\ credit[row.event] = outbox[row.event].amount
       /\ row.original # 0 => /\ outbox[row.event].type = "revoke"
                              /\ row.original \in back
                              /\ Recorded(row.original, row.rule)

RewardIInv ==
    /\ Rewards!TypeOK /\ EventsCounted /\ OneGrant /\ RewardStaleIsProcessing /\ CreditedGrants
    /\ RowsAreTrue /\ \A w \in Pushers : RewardSenderKnows(w)

\* While the stage is dry_run nothing has been called; a sender that was told so and
\* still owns its row, or has settled it, was told so like all others at that row.
AllDry(e) == \A v \in Pushers : pusher[v].pc # "idle" /\ pusher[v].event = e => pusher[v].dry
Uncredited(e) == e \in DOMAIN credit => credit[e] = 0
DryIsDry ==
    /\ dry => /\ \A e \in DOMAIN credit : credit[e] = 0
              /\ \A v \in Pushers : pusher[v].pc # "idle" => pusher[v].dry
    /\ \A w \in Pushers : pusher[w].pc # "idle" /\ Rewards!Owns(w) /\ pusher[w].dry =>
         Uncredited(pusher[w].event) /\ AllDry(pusher[w].event)
    /\ \A e \in DOMAIN outbox : Rewards!Succeeded(e) /\ outbox[e].rule \in OveRules /\ Rewards!RowOf(e) = {} =>
         Uncredited(e) /\ AllDry(e)

\* A refund is handled once, and adds one revocation per rule.
OneRevoke ==
    /\ Answered = {} => \A e \in DOMAIN outbox : outbox[e].type = "grant"
    /\ \A e, f \in DOMAIN outbox :
         outbox[e].rule = outbox[f].rule /\ outbox[e].type = "revoke" /\ outbox[f].type = "revoke" => e = f

\* The grant that a sender is about to reverse has not been reversed.
RewardUnreversed ==
    \A w \in Pushers :
       pusher[w].pc \in {"call", "record"} /\ Rewards!IsReversal(pusher[w].event)
         => ~Rewards!Reversed(pusher[w].grant)

-----------------------------------------------------------------------------
(* Shapes *)

RewardStatuses == {"pending", "processing", "blocked", "succeeded", "dead"}
RewardPcs == {"reconcile", "find", "call", "record", "failed"}

LEMMA RewardSenderShape ==
    ASSUME Rewards!TypeOK, NEW w \in Pushers
    PROVE  /\ pusher[w] # Rewards!Idle => pusher[w].pc # "idle"
           /\ pusher[w].pc # "idle" => pusher[w] \in Rewards!Busy
           /\ pusher[w].pc = "idle" => pusher[w] = Rewards!Idle
  <1>1. pusher[w] \in Rewards!Busy \cup {Rewards!Idle}
    BY DEF Rewards!TypeOK
  <1>2. Rewards!Idle.pc = "idle"
    BY DEF Rewards!Idle
  <1> QED
    BY <1>1, <1>2 DEF Rewards!Busy

\* A sender that ends; the others do not notice.
Left(w) ==
    /\ pusher' \in [Pushers -> Rewards!Busy \cup {Rewards!Idle}]
    /\ pusher'[w].pc = "idle"
    /\ \A v \in Pushers \ {w} : pusher'[v] = pusher[v]

\* A sender that goes on.
Went(w, p, grant) ==
    /\ pusher' \in [Pushers -> Rewards!Busy \cup {Rewards!Idle}]
    /\ pusher'[w].pc = p /\ pusher'[w].grant = grant
    /\ pusher'[w].event = pusher[w].event /\ pusher'[w].dry = pusher[w].dry
    /\ \A v \in Pushers \ {w} : pusher'[v] = pusher[v]

LEMMA FinishLeft ==
    ASSUME Rewards!TypeOK, NEW w \in Pushers, Rewards!Finish(w)
    PROVE  Left(w)
BY DEF Rewards!TypeOK, Rewards!Finish, Left, Rewards!Idle

LEMMA BusyFields ==
    ASSUME NEW b \in Rewards!Busy, NEW p \in RewardPcs, NEW g \in Nat
    PROVE  /\ [b EXCEPT !.pc = p] \in Rewards!Busy
           /\ [b EXCEPT !.pc = p].pc = p /\ [b EXCEPT !.pc = p].grant = b.grant
           /\ [b EXCEPT !.pc = p].event = b.event /\ [b EXCEPT !.pc = p].dry = b.dry
           /\ [b EXCEPT !.grant = g] \in Rewards!Busy
           /\ [b EXCEPT !.grant = g].grant = g
           /\ [b EXCEPT !.grant = g].event = b.event /\ [b EXCEPT !.grant = g].dry = b.dry
BY DEF Rewards!Busy, RewardPcs

LEMMA GotoWent ==
    ASSUME Rewards!TypeOK, NEW w \in Pushers, pusher[w].pc # "idle", NEW p \in RewardPcs, Rewards!Goto(w, p)
    PROVE  Went(w, p, pusher[w].grant)
  <1> DEFINE b == [pusher[w] EXCEPT !.pc = p]
  <1>1. pusher[w] \in Rewards!Busy
    BY RewardSenderShape
  <1>2. pusher[w].grant \in Nat
    BY <1>1 DEF Rewards!Busy
  <1>3. /\ b \in Rewards!Busy /\ b.pc = p /\ b.grant = pusher[w].grant
        /\ b.event = pusher[w].event /\ b.dry = pusher[w].dry
    BY <1>1, <1>2, BusyFields
  <1>4. pusher' = [pusher EXCEPT ![w] = b] /\ pusher \in [Pushers -> Rewards!Busy \cup {Rewards!Idle}]
    BY DEF Rewards!Goto, Rewards!TypeOK
  <1> HIDE DEF b
  <1> QED
    BY <1>3, <1>4 DEF Went

LEMMA GrantWent ==
    ASSUME Rewards!TypeOK, NEW w \in Pushers, pusher[w].pc # "idle", NEW p \in RewardPcs, NEW g \in Nat,
           pusher' = [pusher EXCEPT ![w].grant = g, ![w].pc = p]
    PROVE  Went(w, p, g)
  <1> DEFINE c == [pusher[w] EXCEPT !.grant = g]
             b == [c EXCEPT !.pc = p]
  <1>1. pusher[w] \in Rewards!Busy
    BY RewardSenderShape
  <1>2. c \in Rewards!Busy /\ c.grant = g /\ c.event = pusher[w].event /\ c.dry = pusher[w].dry
    BY <1>1 DEF Rewards!Busy
  <1>3. b \in Rewards!Busy /\ b.pc = p /\ b.grant = c.grant /\ b.event = c.event /\ b.dry = c.dry
    <2> HIDE DEF c
    <2> QED
      BY <1>2, BusyFields
  <1>4. pusher' = [pusher EXCEPT ![w] = b] /\ pusher \in [Pushers -> Rewards!Busy \cup {Rewards!Idle}]
    BY DEF Rewards!TypeOK
  <1> HIDE DEF b, c
  <1> QED
    BY <1>2, <1>3, <1>4 DEF Went

\* What of an event never changes.
SameEvent(r, s) == r.rule = s.rule /\ r.type = s.type /\ r.amount = s.amount

LEMMA StatusWrite ==
    ASSUME NEW r \in Rewards!EventRow, NEW s \in RewardStatuses
    PROVE  LET x == [r EXCEPT !.status = s]
           IN  /\ x \in Rewards!EventRow /\ SameEvent(x, r)
               /\ x.status = s /\ x.owner = r.owner /\ x.stale = r.stale
BY DEF Rewards!EventRow, RewardStatuses, SameEvent
LEMMA OwnerWrite ==
    ASSUME NEW r \in Rewards!EventRow, NEW o \in Pushers \cup {NULL}
    PROVE  LET x == [r EXCEPT !.owner = o]
           IN  /\ x \in Rewards!EventRow /\ SameEvent(x, r)
               /\ x.status = r.status /\ x.owner = o /\ x.stale = r.stale
BY DEF Rewards!EventRow, SameEvent
LEMMA StaleWrite ==
    ASSUME NEW r \in Rewards!EventRow, NEW b \in BOOLEAN
    PROVE  LET x == [r EXCEPT !.stale = b]
           IN  /\ x \in Rewards!EventRow /\ SameEvent(x, r)
               /\ x.status = r.status /\ x.owner = r.owner /\ x.stale = b
BY DEF Rewards!EventRow, SameEvent
LEMMA DueWrite ==
    ASSUME NEW r \in Rewards!EventRow, NEW b \in BOOLEAN
    PROVE  LET x == [r EXCEPT !.due = b]
           IN  /\ x \in Rewards!EventRow /\ SameEvent(x, r)
               /\ x.status = r.status /\ x.owner = r.owner /\ x.stale = r.stale
BY DEF Rewards!EventRow, SameEvent
LEMMA AttemptWrite ==
    ASSUME NEW r \in Rewards!EventRow, NEW n \in Nat
    PROVE  LET x == [r EXCEPT !.attempt = n]
           IN  /\ x \in Rewards!EventRow /\ SameEvent(x, r)
               /\ x.status = r.status /\ x.owner = r.owner /\ x.stale = r.stale
BY DEF Rewards!EventRow, SameEvent

\* A row whose sender begins, or is given up.
Owned(r, s, o) == [r EXCEPT !.status = s, !.owner = o, !.stale = FALSE]

LEMMA OwnedWrite ==
    ASSUME NEW r \in Rewards!EventRow, NEW s \in RewardStatuses, NEW o \in Pushers \cup {NULL}
    PROVE  /\ Owned(r, s, o) \in Rewards!EventRow /\ SameEvent(Owned(r, s, o), r)
           /\ Owned(r, s, o).status = s /\ Owned(r, s, o).owner = o
           /\ Owned(r, s, o).stale = FALSE
  <1> DEFINE a == [r EXCEPT !.status = s]
             b == [a EXCEPT !.owner = o]
             c == [b EXCEPT !.stale = FALSE]
  <1>1. a \in Rewards!EventRow /\ SameEvent(a, r) /\ a.status = s
    BY StatusWrite
  <1>2. b \in Rewards!EventRow /\ SameEvent(b, a) /\ b.status = a.status /\ b.owner = o
    <2> HIDE DEF a
    <2> QED
      BY <1>1, OwnerWrite
  <1>3. c \in Rewards!EventRow /\ SameEvent(c, b) /\ c.status = b.status /\ c.owner = b.owner /\ c.stale = FALSE
    <2> HIDE DEF b
    <2> QED
      BY <1>2, StaleWrite
  <1>4. Owned(r, s, o) = c
    BY DEF Owned
  <1> HIDE DEF a, b, c
  <1> QED
    BY <1>1, <1>2, <1>3, <1>4 DEF SameEvent

LEMMA HeldWrite ==
    ASSUME NEW r \in Rewards!EventRow
    PROVE  LET x == [r EXCEPT !.status = "blocked", !.stale = FALSE]
           IN  /\ x \in Rewards!EventRow /\ SameEvent(x, r) /\ x.status = "blocked" /\ x.stale = FALSE
  <1> DEFINE a == [r EXCEPT !.status = "blocked"]
             c == [a EXCEPT !.stale = FALSE]
  <1>1. a \in Rewards!EventRow /\ SameEvent(a, r) /\ a.status = "blocked"
    BY StatusWrite DEF RewardStatuses
  <1>2. c \in Rewards!EventRow /\ SameEvent(c, a) /\ c.status = a.status /\ c.stale = FALSE
    <2> HIDE DEF a
    <2> QED
      BY <1>1, StaleWrite
  <1>3. [r EXCEPT !.status = "blocked", !.stale = FALSE] = c
    OBVIOUS
  <1> HIDE DEF a, c
  <1> QED
    BY <1>1, <1>2, <1>3 DEF SameEvent

\* A row whose attempt has failed.
Postponed(r, s, n) ==
    [r EXCEPT !.status = s, !.attempt = n, !.due = FALSE, !.owner = NULL, !.stale = FALSE]

LEMMA PostponedWrite ==
    ASSUME NEW r \in Rewards!EventRow, NEW s \in RewardStatuses, NEW n \in Nat
    PROVE  /\ Postponed(r, s, n) \in Rewards!EventRow /\ SameEvent(Postponed(r, s, n), r)
           /\ Postponed(r, s, n).status = s /\ Postponed(r, s, n).stale = FALSE
  <1> DEFINE a == [r EXCEPT !.status = s]
             b == [a EXCEPT !.attempt = n]
             c == [b EXCEPT !.due = FALSE]
             d == [c EXCEPT !.owner = NULL]
             e == [d EXCEPT !.stale = FALSE]
  <1>1. a \in Rewards!EventRow /\ SameEvent(a, r) /\ a.status = s
    BY StatusWrite
  <1>2. b \in Rewards!EventRow /\ SameEvent(b, a) /\ b.status = a.status
    <2> HIDE DEF a
    <2> QED
      BY <1>1, AttemptWrite
  <1>3. c \in Rewards!EventRow /\ SameEvent(c, b) /\ c.status = b.status
    <2> HIDE DEF b
    <2> QED
      BY <1>2, DueWrite
  <1>4. d \in Rewards!EventRow /\ SameEvent(d, c) /\ d.status = c.status
    <2> HIDE DEF c
    <2> QED
      BY <1>3, OwnerWrite
  <1>5. e \in Rewards!EventRow /\ SameEvent(e, d) /\ e.status = d.status /\ e.stale = FALSE
    <2> HIDE DEF d
    <2> QED
      BY <1>4, StaleWrite
  <1>6. Postponed(r, s, n) = e
    BY DEF Postponed
  <1> HIDE DEF a, b, c, d, e
  <1> QED
    BY <1>1, <1>2, <1>3, <1>4, <1>5, <1>6 DEF SameEvent

-----------------------------------------------------------------------------
(* Enqueueing *)

LEMMA NewEventShape ==
    ASSUME Rewards!TypeOK, NEW r \in Rules, NEW type \in {"grant", "revoke"}
    PROVE  /\ Rewards!NewEvent(r, type) \in Rewards!EventRow
           /\ Rewards!NewEvent(r, type).rule = r /\ Rewards!NewEvent(r, type).type = type
           /\ Rewards!NewEvent(r, type).status = "pending" /\ Rewards!NewEvent(r, type).stale = FALSE
  <1>1. rule[r].unit \in Units \cup {1}
    BY DEF Rewards!TypeOK
  <1>2. Rewards!Amount(r) \in Rewards!Amounts
    BY <1>1 DEF Rewards!Amount, Rewards!Amounts
  <1> QED
    BY <1>2 DEF Rewards!NewEvent, Rewards!EventRow

\* The instance has operators on sets of its own, equal to those of FiniteSets.
LEMMA SameSets ==
    /\ Rewards!RewardAssumption => IsFiniteSet(Rules) /\ IsFiniteSet(Refunds)
    /\ Rewards!MaxEvents = Cardinality(Rules) * (1 + Cardinality(Refunds))
  <1>1. \A S : Rewards!IsFiniteSet(S) <=> IsFiniteSet(S)
    BY DEF Rewards!IsFiniteSet, IsFiniteSet
  <1>2. \A S : Rewards!Cardinality(S) = Cardinality(S)
    BY DEF Rewards!Cardinality, Cardinality
  <1> QED
    BY <1>1, <1>2 DEF Rewards!RewardAssumption, Rewards!MaxEvents

LEMMA SetToSeqShape ==
    ASSUME NEW S, IsFiniteSet(S)
    PROVE  /\ Cardinality(S) \in Nat
           /\ Rewards!SetToSeq(S) \in [1..Cardinality(S) -> S]
           /\ \A i, j \in 1..Cardinality(S) : Rewards!SetToSeq(S)[i] = Rewards!SetToSeq(S)[j] => i = j
  <1> DEFINE n == Cardinality(S)
  <1>1. n \in Nat /\ ExistsBijection(1..n, S)
    BY FS_CardinalityType
  <1>2. PICK f : f \in Bijection(1..n, S)
    BY <1>1 DEF ExistsBijection
  <1>3. f \in [1..n -> S] /\ IsInjective(f)
    BY <1>2 DEF Bijection, Injection, IsInjective
  <1>4. Rewards!SetToSeq(S) \in [1..n -> S] /\ IsInjective(Rewards!SetToSeq(S))
    <2>1. Rewards!Cardinality(S) = n /\ \A g : Rewards!IsInjective(g) <=> IsInjective(g)
      BY DEF Rewards!Cardinality, Cardinality, Rewards!IsInjective, IsInjective
    <2> HIDE DEF n
    <2> QED
      BY <1>3, <2>1 DEF Rewards!SetToSeq
  <1> QED
    BY <1>1, <1>4 DEF IsInjective

LEMMA ConcatShape ==
    ASSUME NEW T, NEW s \in Seq(T), NEW t \in Seq(T)
    PROVE  /\ s \o t \in Seq(T) /\ Len(s \o t) = Len(s) + Len(t)
           /\ Len(s) \in Nat /\ Len(t) \in Nat
           /\ \A e \in 1..Len(s) : (s \o t)[e] = s[e]
           /\ \A e \in (Len(s) + 1)..(Len(s) + Len(t)) : (s \o t)[e] = t[e - Len(s)]
OBVIOUS

LEMMA EnqueueShape ==
    ASSUME Rewards!RewardAssumption, Rewards!TypeOK, NEW type \in {"grant", "revoke"}, Rewards!Enqueue(type)
    PROVE  /\ outbox' \in Seq(Rewards!EventRow)
           /\ Len(outbox') <= Len(outbox) + Cardinality(Rules)
           /\ \A e \in DOMAIN outbox : e \in DOMAIN outbox' /\ outbox'[e] = outbox[e]
           /\ \A e \in DOMAIN outbox' \ DOMAIN outbox :
                outbox'[e].type = type /\ outbox'[e].status = "pending" /\ outbox'[e].stale = FALSE
           /\ \A e, f \in DOMAIN outbox' \ DOMAIN outbox : outbox'[e].rule = outbox'[f].rule => e = f
  <1> DEFINE S == Rewards!Routed(type)
             list == Rewards!SetToSeq(S)
             n == Cardinality(S)
             new == [i \in DOMAIN list |-> Rewards!NewEvent(list[i], type)]
  <1>1. S \in SUBSET Rules /\ IsFiniteSet(S) /\ n \in Nat /\ n <= Cardinality(Rules)
    <2>1. S \in SUBSET Rules
      BY DEF Rewards!Routed
    <2> HIDE DEF S
    <2> QED
      BY <2>1, FS_Subset, FS_CardinalityType, SameSets
  <1>2. list \in [1..n -> S] /\ \A i, j \in 1..n : list[i] = list[j] => i = j
    <2> HIDE DEF S
    <2> QED
      BY <1>1, SetToSeqShape
  <1>3. outbox' = outbox \o new
    BY DEF Rewards!Enqueue
  <1> HIDE DEF S, list, n
  <1>4. /\ new = [i \in 1..n |-> new[i]]
        /\ \A i \in 1..n : list[i] \in Rules /\ new[i] = Rewards!NewEvent(list[i], type)
    BY <1>1, <1>2
  <1> HIDE DEF new
  <1>5. \A i \in 1..n : /\ new[i] \in Rewards!EventRow /\ new[i].rule = list[i] /\ new[i].type = type
                        /\ new[i].status = "pending" /\ new[i].stale = FALSE
    <2> SUFFICES ASSUME NEW i \in 1..n
                 PROVE  /\ new[i] \in Rewards!EventRow /\ new[i].rule = list[i] /\ new[i].type = type
                        /\ new[i].status = "pending" /\ new[i].stale = FALSE
      OBVIOUS
    <2>1. PICK r \in Rules : r = list[i] /\ new[i] = Rewards!NewEvent(r, type)
      BY <1>4
    <2>2. /\ Rewards!NewEvent(r, type) \in Rewards!EventRow
          /\ Rewards!NewEvent(r, type).rule = r /\ Rewards!NewEvent(r, type).type = type
          /\ Rewards!NewEvent(r, type).status = "pending" /\ Rewards!NewEvent(r, type).stale = FALSE
      BY NewEventShape
    <2> QED
      BY <2>1, <2>2
  <1>6. new \in Seq(Rewards!EventRow) /\ Len(new) = n
    <2>1. new \in [1..n -> Rewards!EventRow]
      BY <1>4, <1>5
    <2> QED
      BY <1>1, <2>1
  <1>7. outbox \in Seq(Rewards!EventRow)
    BY DEF Rewards!TypeOK
  <1>8. /\ outbox' \in Seq(Rewards!EventRow) /\ Len(outbox') = Len(outbox) + n
        /\ Len(outbox) \in Nat
        /\ \A e \in 1..Len(outbox) : outbox'[e] = outbox[e]
        /\ \A e \in (Len(outbox) + 1)..(Len(outbox) + n) : outbox'[e] = new[e - Len(outbox)]
    BY <1>1, <1>3, <1>6, <1>7, ConcatShape
  <1>9. DOMAIN outbox = 1..Len(outbox) /\ DOMAIN outbox' = 1..(Len(outbox) + n)
    BY <1>7, <1>8
  <1>10. \A e \in DOMAIN outbox' \ DOMAIN outbox :
            e - Len(outbox) \in 1..n /\ outbox'[e] = new[e - Len(outbox)]
    BY <1>1, <1>8, <1>9
  <1>11. Len(outbox') <= Len(outbox) + Cardinality(Rules)
    <2>1. Cardinality(Rules) \in Nat
      BY FS_CardinalityType, SameSets
    <2> QED
      BY <1>1, <1>8, <2>1
  <1>12. ASSUME NEW e \in DOMAIN outbox' \ DOMAIN outbox, NEW f \in DOMAIN outbox' \ DOMAIN outbox,
                outbox'[e].rule = outbox'[f].rule
         PROVE  e = f
    <2>1. list[e - Len(outbox)] = list[f - Len(outbox)]
      BY <1>5, <1>10, <1>12
    <2>2. e - Len(outbox) = f - Len(outbox)
      BY <1>2, <1>10, <2>1
    <2> QED
      BY <1>8, <1>9, <2>2
  <1> QED
    BY <1>1, <1>5, <1>8, <1>9, <1>10, <1>11, <1>12

-----------------------------------------------------------------------------
(* The number of events *)

LEMMA MoreHandlers ==
    ASSUME NEW k \in Nat, NEW m \in Nat, NEW n \in Nat, m <= n
    PROVE  k * (1 + m) <= k * (1 + n) /\ k * (1 + m) + k = k * (1 + (m + 1)) /\ k <= k * (1 + n)
OBVIOUS

LEMMA AnsweredShape ==
    ASSUME Rewards!RewardAssumption
    PROVE  /\ IsFiniteSet(Answered) /\ Answered \subseteq Refunds
           /\ Cardinality(Answered) \in Nat /\ Cardinality(Refunds) \in Nat
           /\ Cardinality(Answered) <= Cardinality(Refunds)
           /\ Cardinality(Rules) \in Nat
  <1>1. Answered \in SUBSET Refunds
    BY DEF Answered
  <1> QED
    BY <1>1, FS_Subset, FS_CardinalityType, SameSets

LEMMA WithinMaxEvents ==
    ASSUME Rewards!RewardAssumption, Rewards!TypeOK, EventsCounted
    PROVE  Rewards!MaxEvents \in Nat /\ DOMAIN outbox \subseteq 1..Rewards!MaxEvents
  <1>1. Rewards!MaxEvents \in Nat
    BY AnsweredShape, SameSets
  <1>2. Cardinality(Rules) * (1 + Cardinality(Answered)) <= Rewards!MaxEvents
    BY AnsweredShape, MoreHandlers, SameSets
  <1>3. Len(outbox) \in Nat /\ DOMAIN outbox = 1..Len(outbox)
    BY DEF Rewards!TypeOK
  <1>4. Cardinality(Rules) * (1 + Cardinality(Answered)) \in Nat
    BY AnsweredShape
  <1> QED
    BY <1>1, <1>2, <1>3, <1>4 DEF EventsCounted

-----------------------------------------------------------------------------
(* What the steps leave of the invariant *)

\* No event is lost, changes its nature, or is taken back once it has succeeded.
Grown ==
    \A e \in DOMAIN outbox :
       /\ e \in DOMAIN outbox' /\ SameEvent(outbox'[e], outbox[e])
       /\ outbox[e].status = "succeeded" => outbox'[e].status = "succeeded"
Kept == outbox' \in Seq(Rewards!EventRow) /\ DOMAIN outbox' = DOMAIN outbox /\ Grown

\* The row of one event is written.
Wrote(e, status) ==
    /\ outbox' \in Seq(Rewards!EventRow) /\ DOMAIN outbox' = DOMAIN outbox
    /\ SameEvent(outbox'[e], outbox[e])
    /\ outbox'[e].status = status /\ outbox'[e].stale = FALSE
    /\ \A f \in DOMAIN outbox \ {e} : outbox'[f] = outbox[f]

LEMMA EventIsRow ==
    ASSUME Rewards!TypeOK, NEW e \in DOMAIN outbox
    PROVE  outbox[e] \in Rewards!EventRow
BY DEF Rewards!TypeOK

LEMMA RowPut ==
    ASSUME Rewards!TypeOK, NEW e \in DOMAIN outbox, NEW x \in Rewards!EventRow, outbox' = [outbox EXCEPT ![e] = x]
    PROVE  /\ outbox' \in Seq(Rewards!EventRow) /\ DOMAIN outbox' = DOMAIN outbox
           /\ outbox'[e] = x /\ \A f \in DOMAIN outbox \ {e} : outbox'[f] = outbox[f]
BY DEF Rewards!TypeOK

LEMMA SameIsKept ==
    ASSUME Rewards!TypeOK, UNCHANGED outbox
    PROVE  Kept
BY DEF Rewards!TypeOK, Kept, Grown, SameEvent

LEMMA WroteIsKept ==
    ASSUME Rewards!TypeOK, NEW e \in DOMAIN outbox, NEW s, Wrote(e, s),
           outbox[e].status # "succeeded" \/ s = "succeeded"
    PROVE  Kept
BY DEF Rewards!TypeOK, Wrote, Kept, Grown, SameEvent

LEMMA WroteKeepsLeases ==
    ASSUME RewardStaleIsProcessing, NEW e \in DOMAIN outbox, NEW s, Wrote(e, s)
    PROVE  RewardStaleIsProcessing'
BY DEF RewardStaleIsProcessing, Wrote

LEMMA KeptIsCounted ==
    ASSUME Rewards!TypeOK, Kept, EventsCounted, UNCHANGED <<purchase, refund>>
    PROVE  EventsCounted'
  <1>1. /\ Len(outbox) \in Nat /\ DOMAIN outbox = 1..Len(outbox)
        /\ Len(outbox') \in Nat /\ DOMAIN outbox' = 1..Len(outbox')
    BY DEF Rewards!TypeOK, Kept
  <1>2. Len(outbox') = Len(outbox)
    BY <1>1 DEF Kept
  <1>3. Answered' = Answered
    BY DEF Answered
  <1> QED
    BY <1>2, <1>3 DEF EventsCounted

LEMMA KeptKnowledge ==
    ASSUME NEW w \in Pushers, RewardSenderKnows(w), pusher'[w] = pusher[w], Grown,
           rows \subseteq rows', back \subseteq back',
           \A e \in DOMAIN outbox : credit[e] = outbox[e].amount => credit'[e] = outbox[e].amount
    PROVE  RewardSenderKnows(w)'
  <1>1. \A g, r : Recorded(g, r) => Recorded(g, r)'
    BY DEF Recorded
  <1>2. \A e \in DOMAIN outbox : Rewards!IsReversal(e)' <=> Rewards!IsReversal(e)
    BY DEF Grown, SameEvent, Rewards!IsReversal
  <1> QED
    BY <1>1, <1>2 DEF RewardSenderKnows, Grown, SameEvent

LEMMA KeptLedger ==
    ASSUME CreditedGrants, RowsAreTrue, Grown, UNCHANGED <<rows, credit>>, back \subseteq back'
    PROVE  CreditedGrants' /\ RowsAreTrue'
  <1>1. \A g, r : Recorded(g, r)' <=> Recorded(g, r)
    BY DEF Recorded
  <1>2. CreditedGrants'
    BY DEF CreditedGrants, Grown, SameEvent
  <1>3. RowsAreTrue'
    BY <1>1 DEF RowsAreTrue, Grown, SameEvent, Rewards!Succeeded
  <1> QED
    BY <1>2, <1>3

LEMMA StepKeepsIInv ==
    ASSUME RewardIInv, Rewards!TypeOK', Kept, EventsCounted', RewardStaleIsProcessing',
           rows \subseteq rows', back \subseteq back',
           \A e \in DOMAIN outbox : credit[e] = outbox[e].amount => credit'[e] = outbox[e].amount,
           CreditedGrants', RowsAreTrue',
           \A v \in Pushers : pusher'[v] = pusher[v] \/ RewardSenderKnows(v)'
    PROVE  RewardIInv'
  <1>1. OneGrant'
    BY DEF RewardIInv, OneGrant, Kept, Grown, SameEvent
  <1>2. \A v \in Pushers : RewardSenderKnows(v)'
    BY KeptKnowledge DEF RewardIInv, Kept
  <1> QED
    BY <1>1, <1>2 DEF RewardIInv

LEMMA QuietKeepsIInv ==
    ASSUME RewardIInv, Rewards!TypeOK', Kept, EventsCounted', RewardStaleIsProcessing',
           UNCHANGED <<rows, credit, back>>,
           \A v \in Pushers : pusher'[v] = pusher[v] \/ RewardSenderKnows(v)'
    PROVE  RewardIInv'
  <1>1. CreditedGrants' /\ RowsAreTrue'
    BY KeptLedger DEF RewardIInv, Kept
  <1> QED
    BY <1>1, StepKeepsIInv

\* A sender that ends knows nothing.
LEMMA LeftKnows ==
    ASSUME NEW w \in Pushers, Left(w)
    PROVE  RewardSenderKnows(w)'
BY DEF Left, RewardSenderKnows

-----------------------------------------------------------------------------
(* The steps of a sender *)

\* A sender starts on an event that waits, and knows the stage of that moment.
LEMMA RewardClaimShape ==
    ASSUME RewardIInv, NEW w \in Pushers, NEW e \in DOMAIN outbox, Rewards!Claim(w, e)
    PROVE  /\ Wrote(e, "processing") /\ outbox'[e].owner = w
           /\ outbox[e].status \in {"pending", "blocked", "dead"}
           /\ pusher' \in [Pushers -> Rewards!Busy \cup {Rewards!Idle}]
           /\ pusher'[w].pc = "reconcile" /\ pusher'[w].event = e
           /\ pusher'[w].dry = dry /\ pusher'[w].grant = 0
           /\ \A v \in Pushers \ {w} : pusher'[v] = pusher[v]
           /\ UNCHANGED <<purchase, resolved, rule, dry, rows, refund, Rewards!external, killed>>
  <1>1. Rewards!TypeOK
    BY DEF RewardIInv
  <1>2. outbox[e] \in Rewards!EventRow /\ e \in Nat /\ dry \in BOOLEAN
    BY <1>1, EventIsRow DEF Rewards!TypeOK
  <1>3. outbox[e].status \in {"pending", "blocked", "dead"}
    BY DEF Rewards!Claim, Rewards!Dispatchable, Rewards!Retryable
  <1>4. PICK x : x = Owned(outbox[e], "processing", w)
    OBVIOUS
  <1>5. /\ x \in Rewards!EventRow /\ SameEvent(x, outbox[e])
        /\ x.status = "processing" /\ x.owner = w /\ x.stale = FALSE
        /\ outbox' = [outbox EXCEPT ![e] = x]
    <2>1. "processing" \in RewardStatuses /\ w \in Pushers \cup {NULL}
      BY DEF RewardStatuses
    <2>2. outbox' = [outbox EXCEPT ![e] = x]
      BY <1>4 DEF Rewards!Claim, Owned
    <2>3. PICK r \in Rewards!EventRow : r = outbox[e]
      BY <1>2
    <2>4. /\ x \in Rewards!EventRow /\ SameEvent(x, r)
          /\ x.status = "processing" /\ x.owner = w /\ x.stale = FALSE
      BY <1>4, <2>1, <2>3, OwnedWrite
    <2> QED
      BY <2>2, <2>3, <2>4
  <1>6. Wrote(e, "processing") /\ outbox'[e].owner = w
    BY <1>1, <1>5, RowPut DEF Wrote
  <1> DEFINE b == [pc |-> "reconcile", event |-> e, attempt |-> outbox[e].attempt,
                   dry |-> dry, grant |-> 0]
  <1>7. b \in Rewards!Busy
    BY <1>2 DEF Rewards!EventRow, Rewards!Busy
  <1>8. pusher' = [pusher EXCEPT ![w] = b] /\ pusher \in [Pushers -> Rewards!Busy \cup {Rewards!Idle}]
    BY <1>1 DEF Rewards!Claim, Rewards!TypeOK
  <1>9. pusher' \in [Pushers -> Rewards!Busy \cup {Rewards!Idle}] /\ pusher'[w] = b
        /\ \A v \in Pushers \ {w} : pusher'[v] = pusher[v]
    <2> HIDE DEF b
    <2> QED
      BY <1>7, <1>8
  <1> QED
    BY <1>3, <1>6, <1>9 DEF Rewards!Claim

LEMMA RewardClaimKeepsIInv ==
    ASSUME RewardIInv, NEW w \in Pushers, NEW e \in DOMAIN outbox, Rewards!Claim(w, e)
    PROVE  RewardIInv'
  <1>1. Rewards!TypeOK /\ RewardStaleIsProcessing /\ EventsCounted
    BY DEF RewardIInv
  <1>2. Kept /\ RewardStaleIsProcessing'
    BY <1>1, RewardClaimShape, WroteIsKept, WroteKeepsLeases
  <1>3. UNCHANGED <<purchase, resolved, rule, dry, rows, refund, credit, back, arrived, killed>>
    BY RewardClaimShape DEF Rewards!external
  <1>4. Rewards!TypeOK'
    BY <1>1, <1>2, <1>3, RewardClaimShape DEF Rewards!TypeOK, Kept
  <1>5. EventsCounted'
    BY <1>1, <1>2, <1>3, KeptIsCounted
  <1>6. RewardSenderKnows(w)'
    <2>1. pusher'[w].pc = "reconcile" /\ pusher'[w].event = e /\ pusher'[w].grant = 0
      BY RewardClaimShape
    <2> QED
      BY <1>2, <2>1 DEF RewardSenderKnows, Kept
  <1> QED
    BY <1>2, <1>3, <1>4, <1>5, <1>6, RewardClaimShape, QuietKeepsIInv

\* A sender under way, and its event.
LEMMA BusyShape ==
    ASSUME RewardIInv, NEW w \in Pushers, pusher[w].pc # "idle"
    PROVE  /\ Rewards!TypeOK /\ pusher[w] \in Rewards!Busy /\ RewardSenderKnows(w)
           /\ pusher[w].event \in DOMAIN outbox /\ pusher[w].event \in Nat
           /\ outbox[pusher[w].event] \in Rewards!EventRow
           /\ pusher[w].grant \in Nat /\ pusher[w].attempt \in Nat
           /\ pusher[w].pc \in RewardPcs /\ pusher[w].dry \in BOOLEAN
  <1>1. Rewards!TypeOK /\ pusher[w] \in Rewards!Busy /\ RewardSenderKnows(w)
    BY RewardSenderShape DEF RewardIInv
  <1>2. pusher[w].event \in DOMAIN outbox
    BY <1>1 DEF RewardSenderKnows
  <1> QED
    BY <1>1, <1>2, EventIsRow DEF Rewards!Busy, RewardPcs

\* What the steps that neither call nor record have in common.
LEMMA QuietStepKeepsIInv ==
    ASSUME RewardIInv, NEW w \in Pushers, pusher[w].pc # "idle",
           UNCHANGED <<purchase, resolved, rule, dry, rows, refund, Rewards!external>>,
           killed' \in 0..PointCrashes,
           pusher' \in [Pushers -> Rewards!Busy \cup {Rewards!Idle}],
           \A v \in Pushers \ {w} : pusher'[v] = pusher[v],
           RewardSenderKnows(w)',
           \/ UNCHANGED outbox
           \/ /\ outbox[pusher[w].event].status = "processing"
              /\ \E s : Wrote(pusher[w].event, s)
    PROVE  RewardIInv'
  <1>1. Rewards!TypeOK /\ RewardStaleIsProcessing /\ EventsCounted /\ pusher[w].event \in DOMAIN outbox
    BY BusyShape DEF RewardIInv
  <1>2. Kept /\ RewardStaleIsProcessing'
    <2>1. CASE UNCHANGED outbox
      BY <1>1, <2>1, SameIsKept DEF RewardStaleIsProcessing
    <2>2. CASE /\ outbox[pusher[w].event].status = "processing"
               /\ \E s : Wrote(pusher[w].event, s)
      BY <1>1, <2>2, WroteIsKept, WroteKeepsLeases
    <2> QED
      BY <2>1, <2>2
  <1>3. UNCHANGED <<purchase, resolved, rule, dry, rows, refund, credit, back, arrived>>
    BY DEF Rewards!external
  <1>4. Rewards!TypeOK'
    BY <1>1, <1>2, <1>3 DEF Rewards!TypeOK, Kept
  <1>5. EventsCounted'
    BY <1>1, <1>2, <1>3, KeptIsCounted
  <1> QED
    BY <1>2, <1>3, <1>4, <1>5, QuietKeepsIInv

LEMMA CrashKeepsIInv ==
    ASSUME Rewards!RewardAssumption, RewardIInv, NEW w \in Pushers, Rewards!Crash(w)
    PROVE  RewardIInv'
  <1>1. Rewards!TypeOK /\ pusher[w].pc # "idle" /\ Left(w)
    BY RewardSenderShape, FinishLeft DEF RewardIInv, Rewards!Crash
  <1>2. killed' \in 0..PointCrashes
    BY <1>1 DEF Rewards!Crash, Rewards!TypeOK, Rewards!RewardAssumption
  <1> QED
    BY <1>1, <1>2, LeftKnows, QuietStepKeepsIInv DEF Left, Rewards!Crash

\* The row is held, or the sender goes on to look for the grant or to call.
LEMMA ReconcileShape ==
    ASSUME RewardIInv, NEW w \in Pushers, Rewards!Reconcile(w)
    PROVE  LET e == pusher[w].event
           IN  /\ pusher[w].pc = "reconcile"
               /\ UNCHANGED <<purchase, resolved, rule, dry, rows, refund, Rewards!external, killed>>
               /\ \/ Left(w) /\ UNCHANGED outbox
                  \/ Left(w) /\ outbox[e].status = "processing" /\ Wrote(e, "blocked")
                  \/ Rewards!IsReversal(e) /\ Went(w, "find", 0) /\ UNCHANGED outbox
                  \/ ~Rewards!IsReversal(e) /\ Went(w, "call", 0) /\ UNCHANGED outbox
  <1> DEFINE e == pusher[w].event
  <1>1. pusher[w].pc = "reconcile" /\ pusher[w].pc # "idle"
    BY DEF Rewards!Reconcile
  <1>2. /\ Rewards!TypeOK /\ RewardSenderKnows(w) /\ e \in DOMAIN outbox /\ outbox[e] \in Rewards!EventRow
    BY <1>1, BusyShape
  <1>3. pusher[w].grant = 0
    BY <1>1, <1>2 DEF RewardSenderKnows
  <1>4. CASE Rewards!Held(e)
    <2>1. Left(w)
      BY <1>2, <1>4, FinishLeft DEF Rewards!Reconcile
    <2>2. CASE Rewards!Owns(w)
      <3> DEFINE x == [outbox[e] EXCEPT !.status = "blocked", !.stale = FALSE]
      <3>1. x \in Rewards!EventRow /\ SameEvent(x, outbox[e]) /\ x.status = "blocked" /\ x.stale = FALSE
        BY <1>2, HeldWrite
      <3>2. outbox' = [outbox EXCEPT ![e] = x]
        BY <1>4, <2>2 DEF Rewards!Reconcile
      <3> HIDE DEF x
      <3>3. Wrote(e, "blocked")
        BY <1>2, <3>1, <3>2, RowPut DEF Wrote
      <3> QED
        BY <1>1, <2>1, <2>2, <3>3 DEF Rewards!Reconcile, Rewards!Owns
    <2>3. CASE ~Rewards!Owns(w)
      BY <1>1, <1>4, <2>1, <2>3 DEF Rewards!Reconcile
    <2> QED
      BY <2>2, <2>3
  <1>5. CASE ~Rewards!Held(e)
    <2>1. UNCHANGED outbox /\ Rewards!Goto(w, IF Rewards!IsReversal(e) THEN "find" ELSE "call")
      BY <1>5 DEF Rewards!Reconcile
    <2>2. \/ Rewards!IsReversal(e) /\ Went(w, "find", 0)
          \/ ~Rewards!IsReversal(e) /\ Went(w, "call", 0)
      BY <1>1, <1>2, <1>3, <2>1, GotoWent DEF RewardPcs
    <2> QED
      BY <1>1, <2>1, <2>2 DEF Rewards!Reconcile
  <1> QED
    BY <1>4, <1>5

LEMMA ReconcileKeepsIInv ==
    ASSUME RewardIInv, NEW w \in Pushers, Rewards!Reconcile(w)
    PROVE  RewardIInv'
  <1>0. PICK e : e = pusher[w].event
    OBVIOUS
  <1>1. pusher[w].pc # "idle" /\ killed' \in 0..PointCrashes
    BY ReconcileShape DEF RewardIInv, Rewards!TypeOK
  <1>2. e \in DOMAIN outbox
    BY <1>0, <1>1, BusyShape
  <1>3. CASE Left(w)
    BY <1>1, <1>3, ReconcileShape, LeftKnows, QuietStepKeepsIInv DEF Left
  <1>4. CASE UNCHANGED outbox /\ (\/ Rewards!IsReversal(e) /\ Went(w, "find", 0)
                                  \/ ~Rewards!IsReversal(e) /\ Went(w, "call", 0))
    <2>1. Rewards!IsReversal(e)' <=> Rewards!IsReversal(e)
      BY <1>4 DEF Rewards!IsReversal
    <2>2. RewardSenderKnows(w)'
      BY <1>0, <1>2, <1>4, <2>1 DEF RewardSenderKnows, Went
    <2> QED
      BY <1>1, <1>4, <2>2, ReconcileShape, QuietStepKeepsIInv DEF Went
  <1> QED
    BY <1>0, <1>3, <1>4, ReconcileShape

\* The grant to be reversed is recorded, for the same rule.
LEMMA FindShape ==
    ASSUME RewardIInv, NEW w \in Pushers, Rewards!Find(w)
    PROVE  LET e == pusher[w].event
           IN  /\ pusher[w].pc = "find" /\ Rewards!IsReversal(e)
               /\ UNCHANGED <<purchase, resolved, rule, dry, outbox, rows, refund, Rewards!external, killed>>
               /\ \E g \in Nat :
                    \/ Went(w, "failed", g)
                    \/ Went(w, "call", g) /\ g # 0 /\ Recorded(g, outbox[e].rule) /\ ~Rewards!Reversed(g)
  <1> DEFINE e == pusher[w].event
  <1>1. pusher[w].pc = "find" /\ pusher[w].pc # "idle"
    BY DEF Rewards!Find
  <1>2. /\ Rewards!TypeOK /\ RewardSenderKnows(w) /\ e \in DOMAIN outbox /\ pusher[w].grant \in Nat
    BY <1>1, BusyShape
  <1>3. Rewards!IsReversal(e)
    BY <1>1, <1>2 DEF RewardSenderKnows
  <1>4. CASE Rewards!Goto(w, "failed")
    BY <1>1, <1>2, <1>3, <1>4, GotoWent DEF RewardPcs, Rewards!Find
  <1>5. ASSUME NEW row \in Rewards!PriorGrants(e),
               pusher' = [pusher EXCEPT ![w].grant = row.event,
                                        ![w].pc = IF Rewards!Reversed(row.event) THEN "failed" ELSE "call"]
        PROVE  \E g \in Nat :
                  \/ Went(w, "failed", g)
                  \/ Went(w, "call", g) /\ g # 0 /\ Recorded(g, outbox[e].rule) /\ ~Rewards!Reversed(g)
    <2>1. /\ row \in rows /\ row.original = 0 /\ row.rule = outbox[e].rule
      BY DEF Rewards!PriorGrants
    <2>2. row.event \in DOMAIN outbox
      BY <2>1 DEF RewardIInv, RowsAreTrue
    <2>3. row.event \in Nat /\ row.event # 0
      BY <1>2, <2>2 DEF Rewards!TypeOK
    <2>4. Recorded(row.event, outbox[e].rule)
      BY <2>1 DEF Recorded
    <2>5. CASE Rewards!Reversed(row.event)
      BY <1>1, <1>2, <1>5, <2>3, <2>5, GrantWent DEF RewardPcs
    <2>6. CASE ~Rewards!Reversed(row.event)
      BY <1>1, <1>2, <1>5, <2>3, <2>4, <2>6, GrantWent DEF RewardPcs
    <2> QED
      BY <2>5, <2>6
  <1> QED
    BY <1>1, <1>3, <1>4, <1>5 DEF Rewards!Find

LEMMA FindKeepsIInv ==
    ASSUME RewardIInv, NEW w \in Pushers, Rewards!Find(w)
    PROVE  RewardIInv'
  <1>0. PICK e : e = pusher[w].event
    OBVIOUS
  <1>1. /\ pusher[w].pc # "idle" /\ killed' \in 0..PointCrashes /\ UNCHANGED <<outbox, rows>>
        /\ Rewards!IsReversal(e)
    BY <1>0, FindShape DEF RewardIInv, Rewards!TypeOK
  <1>2. e \in DOMAIN outbox
    BY <1>0, <1>1, BusyShape
  <1>3. PICK g \in Nat : \/ Went(w, "failed", g)
                         \/ Went(w, "call", g) /\ g # 0 /\ Recorded(g, outbox[e].rule)
    BY <1>0, FindShape
  <1>4. RewardSenderKnows(w)'
    <2>1. (Rewards!IsReversal(e)' <=> Rewards!IsReversal(e)) /\ (Recorded(g, outbox[e].rule) => Recorded(g, outbox[e].rule)')
      BY <1>1 DEF Rewards!IsReversal, Recorded
    <2> QED
      BY <1>0, <1>1, <1>2, <1>3, <2>1 DEF RewardSenderKnows, Went
  <1> QED
    BY <1>1, <1>3, <1>4, FindShape, QuietStepKeepsIInv DEF Went

\* A call may reach the wallet or another system; it reaches neither in dry_run.
LEMMA CallShape ==
    ASSUME Rewards!RewardAssumption, RewardIInv, NEW w \in Pushers, Rewards!Call(w)
    PROVE  LET e == pusher[w].event
           IN  /\ pusher[w].pc = "call"
               /\ UNCHANGED <<purchase, resolved, rule, dry, outbox, rows, refund, killed>>
               /\ arrived' \in Seq(Nat)
               /\ \E p \in {"record", "failed"} :
                    /\ Went(w, p, pusher[w].grant)
                    /\ \/ /\ UNCHANGED <<credit, back>>
                          /\ p = "record" => pusher[w].dry \/ outbox[e].rule \notin OveRules
                       \/ /\ ~pusher[w].dry /\ outbox[e].rule \in OveRules /\ outbox[e].type = "grant"
                          /\ credit' \in [1..Rewards!MaxEvents -> Rewards!Amounts \cup {0}]
                          /\ credit'[e] = outbox[e].amount
                          /\ \A f \in DOMAIN credit \ {e} : credit'[f] = credit[f]
                          /\ UNCHANGED back
                       \/ /\ ~pusher[w].dry /\ Rewards!IsReversal(e)
                          /\ back' = back \cup {pusher[w].grant}
                          /\ UNCHANGED credit
  <1>0. PICK e : e = pusher[w].event
    OBVIOUS
  <1>1. pusher[w].pc = "call" /\ pusher[w].pc # "idle"
        /\ UNCHANGED <<purchase, resolved, rule, dry, outbox, rows, refund, killed>>
    BY DEF Rewards!Call
  <1>2. /\ Rewards!TypeOK /\ RewardSenderKnows(w) /\ e \in DOMAIN outbox /\ e \in Nat /\ outbox[e] \in Rewards!EventRow
        /\ CreditedGrants /\ arrived \in Seq(Nat)
    BY <1>0, <1>1, BusyShape DEF RewardIInv, Rewards!TypeOK
  <1>3. \A p \in {"record", "failed"} : Rewards!Goto(w, p) => Went(w, p, pusher[w].grant)
    BY <1>1, <1>2, GotoWent DEF RewardPcs
  <1>4. ASSUME NEW p \in {"record", "failed"}, Rewards!Goto(w, p), UNCHANGED Rewards!external,
               p = "record" => pusher[w].dry
        PROVE  /\ Went(w, p, pusher[w].grant) /\ UNCHANGED <<credit, back>>
               /\ arrived' \in Seq(Nat)
    BY <1>2, <1>3, <1>4 DEF Rewards!external
  <1>5. CASE ~pusher[w].dry /\ Rewards!Taken(e, pusher[w].grant)
    <2>1. PICK p \in {"record", "failed"} : Rewards!Goto(w, p)
      BY <1>5 DEF Rewards!Call
    <2>2. CASE outbox[e].rule \notin OveRules
      <3>1. Rewards!SystemTakes(e)
        BY <1>5, <2>2 DEF Rewards!Taken
      <3>2. UNCHANGED <<credit, back>> /\ arrived' \in {arrived, Append(arrived, e)}
        BY <3>1 DEF Rewards!SystemTakes
      <3>3. arrived' \in Seq(Nat)
        BY <1>2, <3>2
      <3> QED
        BY <1>0, <1>1, <1>3, <2>1, <2>2, <3>2, <3>3
    <2>3. CASE outbox[e].rule \in OveRules /\ outbox[e].type = "grant"
      <3>1. /\ credit' = [credit EXCEPT ![e] = IF @ = 0 THEN outbox[e].amount ELSE @]
            /\ UNCHANGED <<back, arrived>>
        BY <1>5, <2>3 DEF Rewards!Taken, Rewards!WalletTakes, Rewards!PayloadAmount
      <3>2. e \in 1..Rewards!MaxEvents /\ credit \in [1..Rewards!MaxEvents -> Rewards!Amounts \cup {0}]
        BY <1>2, WithinMaxEvents DEF RewardIInv, Rewards!TypeOK
      <3>3. outbox[e].amount \in Rewards!Amounts
        BY <1>2 DEF Rewards!EventRow
      <3>4. credit[e] # 0 => credit[e] = outbox[e].amount
        BY <1>2, <3>2 DEF CreditedGrants
      <3>5. /\ credit' \in [1..Rewards!MaxEvents -> Rewards!Amounts \cup {0}]
            /\ credit'[e] = outbox[e].amount
            /\ \A f \in DOMAIN credit \ {e} : credit'[f] = credit[f]
        BY <3>1, <3>2, <3>3, <3>4
      <3> QED
        BY <1>0, <1>1, <1>2, <1>3, <1>5, <2>1, <2>3, <3>1, <3>5
    <2>4. CASE outbox[e].rule \in OveRules /\ outbox[e].type # "grant"
      <3>1. Rewards!IsReversal(e)
        BY <1>2, <2>4 DEF Rewards!EventRow, Rewards!IsReversal
      <3>2. back' = back \cup {pusher[w].grant} /\ UNCHANGED <<credit, arrived>>
        BY <1>5, <2>4 DEF Rewards!Taken, Rewards!WalletTakes
      <3> QED
        BY <1>0, <1>1, <1>2, <1>3, <1>5, <2>1, <3>1, <3>2
    <2> QED
      BY <2>2, <2>3, <2>4
  <1>6. CASE \E p \in {"record", "failed"} :
               /\ Rewards!Goto(w, p) /\ UNCHANGED Rewards!external
               /\ p = "record" => pusher[w].dry
    <2>1. PICK p \in {"record", "failed"} :
            /\ Rewards!Goto(w, p) /\ UNCHANGED Rewards!external
            /\ p = "record" => pusher[w].dry
      BY <1>6
    <2>2. Went(w, p, pusher[w].grant) /\ UNCHANGED <<credit, back>> /\ arrived' \in Seq(Nat)
      BY <1>4, <2>1
    <2> QED
      BY <1>1, <2>1, <2>2
  <1> QED
    BY <1>0, <1>5, <1>6 DEF Rewards!Call

LEMMA CallKeepsIInv ==
    ASSUME Rewards!RewardAssumption, RewardIInv, NEW w \in Pushers, Rewards!Call(w)
    PROVE  RewardIInv'
  <1>0. PICK e : e = pusher[w].event
    OBVIOUS
  <1>1. /\ pusher[w].pc = "call" /\ pusher[w].pc # "idle" /\ arrived' \in Seq(Nat)
        /\ UNCHANGED <<purchase, resolved, rule, dry, outbox, rows, refund, killed>>
    BY CallShape
  <1>2. /\ Rewards!TypeOK /\ RewardSenderKnows(w) /\ e \in DOMAIN outbox /\ outbox[e] \in Rewards!EventRow
        /\ pusher[w].grant \in Nat /\ CreditedGrants /\ EventsCounted /\ RewardStaleIsProcessing
        /\ DOMAIN credit = 1..Rewards!MaxEvents
    BY <1>0, <1>1, BusyShape DEF RewardIInv, Rewards!TypeOK
  <1>3. PICK p \in {"record", "failed"} :
           /\ Went(w, p, pusher[w].grant)
           /\ \/ /\ UNCHANGED <<credit, back>>
                 /\ p = "record" => pusher[w].dry \/ outbox[e].rule \notin OveRules
              \/ /\ ~pusher[w].dry /\ outbox[e].rule \in OveRules /\ outbox[e].type = "grant"
                 /\ credit' \in [1..Rewards!MaxEvents -> Rewards!Amounts \cup {0}]
                 /\ credit'[e] = outbox[e].amount
                 /\ \A f \in DOMAIN credit \ {e} : credit'[f] = credit[f]
                 /\ UNCHANGED back
              \/ /\ ~pusher[w].dry /\ Rewards!IsReversal(e)
                 /\ back' = back \cup {pusher[w].grant}
                 /\ UNCHANGED credit
    BY <1>0, CallShape
  <1>4. Rewards!TypeOK'
    BY <1>1, <1>2, <1>3 DEF Rewards!TypeOK, Went
  <1>5. Kept /\ RewardStaleIsProcessing' /\ EventsCounted'
    BY <1>1, <1>2, SameIsKept, KeptIsCounted DEF RewardStaleIsProcessing
  <1>6. back \subseteq back'
        /\ \A f \in DOMAIN outbox : credit[f] = outbox[f].amount => credit'[f] = outbox[f].amount
    <2>1. DOMAIN outbox \subseteq DOMAIN credit
      BY <1>2, WithinMaxEvents
    <2> QED
      BY <1>3, <2>1
  <1>7. CreditedGrants'
    <2>1. DOMAIN credit' = DOMAIN credit
      BY <1>2, <1>4 DEF Rewards!TypeOK
    <2> QED
      BY <1>1, <1>2, <1>3, <2>1 DEF CreditedGrants
  <1>8. RowsAreTrue'
    BY <1>1, <1>6 DEF RewardIInv, RowsAreTrue, Recorded, Rewards!Succeeded
  <1>9. RewardSenderKnows(w)'
    <2>0. PICK g : g = pusher[w].grant
      OBVIOUS
    <2>1. (Rewards!IsReversal(e)' <=> Rewards!IsReversal(e))
          /\ (Recorded(g, outbox[e].rule)' <=> Recorded(g, outbox[e].rule))
      BY <1>1 DEF Rewards!IsReversal, Recorded
    <2>2. /\ pusher'[w].pc = p /\ pusher'[w].event = e /\ pusher'[w].grant = g
          /\ pusher'[w].dry = pusher[w].dry
      BY <1>0, <1>3, <2>0 DEF Went
    <2>3. IF Rewards!IsReversal(e) THEN g # 0 /\ Recorded(g, outbox[e].rule) ELSE g = 0
      BY <1>0, <1>1, <1>2, <2>0 DEF RewardSenderKnows
    <2>4. p = "record" /\ ~pusher[w].dry /\ outbox[e].rule \in OveRules =>
            IF Rewards!IsReversal(e) THEN g \in back' ELSE credit'[e] = outbox[e].amount
      <3>1. ~(outbox[e].type = "grant" /\ Rewards!IsReversal(e))
        BY DEF Rewards!IsReversal
      <3> QED
        BY <1>3, <2>0, <3>1
    <2> QED
      BY <1>1, <1>2, <2>1, <2>2, <2>3, <2>4 DEF RewardSenderKnows
  <1> QED
    BY <1>1, <1>3, <1>4, <1>5, <1>6, <1>7, <1>8, <1>9, StepKeepsIInv DEF Went

\* The event is settled, and its transaction written down.
LEMMA RecordShape ==
    ASSUME RewardIInv, NEW w \in Pushers, Rewards!Record(w)
    PROVE  LET e == pusher[w].event
           IN  /\ pusher[w].pc = "record"
               /\ UNCHANGED <<purchase, resolved, rule, dry, refund, Rewards!external, killed>>
               /\ \/ /\ Left(w) /\ Rewards!Owns(w) /\ Wrote(e, "succeeded")
                     /\ rows' = IF Rewards!Traced(w) THEN rows \cup {Rewards!Row(w)} ELSE rows
                  \/ Left(w) /\ UNCHANGED <<outbox, rows>>
                  \/ Went(w, "failed", pusher[w].grant) /\ UNCHANGED <<outbox, rows>>
  <1> DEFINE e == pusher[w].event
             a == [outbox[e] EXCEPT !.status = "succeeded"]
             b == [a EXCEPT !.owner = NULL]
             c == [b EXCEPT !.stale = FALSE]
  <1>1. pusher[w].pc = "record" /\ pusher[w].pc # "idle"
    BY DEF Rewards!Record
  <1>2. /\ Rewards!TypeOK /\ e \in DOMAIN outbox /\ outbox[e] \in Rewards!EventRow
    BY <1>1, BusyShape
  <1>3. CASE Rewards!Owns(w) /\ Rewards!Finish(w)
             /\ outbox' = [outbox EXCEPT ![e] =
                            [@ EXCEPT !.status = "succeeded", !.owner = NULL, !.stale = FALSE]]
             /\ rows' = IF Rewards!Traced(w) THEN rows \cup {Rewards!Row(w)} ELSE rows
    <2>1. a \in Rewards!EventRow /\ SameEvent(a, outbox[e]) /\ a.status = "succeeded"
      BY <1>2, StatusWrite DEF RewardStatuses
    <2>2. b \in Rewards!EventRow /\ SameEvent(b, a) /\ b.status = a.status
      <3> HIDE DEF a
      <3> QED
        BY <2>1, OwnerWrite
    <2>3. c \in Rewards!EventRow /\ SameEvent(c, b) /\ c.status = b.status /\ c.stale = FALSE
      <3> HIDE DEF b
      <3> QED
        BY <2>2, StaleWrite
    <2>4. outbox' = [outbox EXCEPT ![e] = c]
      BY <1>3
    <2> HIDE DEF a, b, c
    <2>5. Wrote(e, "succeeded")
      BY <1>2, <2>1, <2>2, <2>3, <2>4, RowPut DEF Wrote, SameEvent
    <2>6. Left(w)
      BY <1>2, <1>3, FinishLeft
    <2> QED
      BY <1>1, <1>3, <2>5, <2>6 DEF Rewards!Record
  <1>4. CASE Rewards!Finish(w) /\ UNCHANGED <<outbox, rows>>
    BY <1>1, <1>2, <1>4, FinishLeft DEF Rewards!Record
  <1>5. CASE Rewards!Goto(w, "failed") /\ UNCHANGED <<outbox, rows>>
    BY <1>1, <1>2, <1>5, GotoWent DEF Rewards!Record, RewardPcs
  <1> QED
    BY <1>3, <1>4, <1>5 DEF Rewards!Record

\* What is written down is what the wallet has done.
LEMMA RowIsTrue ==
    ASSUME RewardIInv, NEW w \in Pushers, pusher[w].pc = "record", Rewards!Traced(w)
    PROVE  LET e == pusher[w].event
           IN  /\ Rewards!Row(w) \in [event: Nat, rule: Rules, original: Nat]
               /\ Rewards!Row(w).event = e /\ Rewards!Row(w).rule = outbox[e].rule
               /\ outbox[e].rule \in OveRules
               /\ Rewards!Row(w).original = 0 =>
                    outbox[e].type = "grant" /\ credit[e] = outbox[e].amount
               /\ Rewards!Row(w).original # 0 =>
                    /\ outbox[e].type = "revoke" /\ Rewards!Row(w).original \in back
                    /\ Recorded(Rewards!Row(w).original, outbox[e].rule)
  <1> DEFINE e == pusher[w].event
  <1>1. /\ Rewards!TypeOK /\ RewardSenderKnows(w) /\ e \in DOMAIN outbox /\ e \in Nat /\ outbox[e] \in Rewards!EventRow
        /\ pusher[w].grant \in Nat
    BY BusyShape
  <1>2. outbox[e].rule \in OveRules /\ ~pusher[w].dry
    BY DEF Rewards!Traced
  <1>3. outbox[e].rule \in Rules /\ outbox[e].type \in {"grant", "revoke"}
    BY <1>1 DEF Rewards!EventRow
  <1>4. Rewards!Row(w) = [event |-> e, rule |-> outbox[e].rule, original |-> pusher[w].grant]
    BY DEF Rewards!Row
  <1>5. CASE outbox[e].type = "grant"
    BY <1>1, <1>2, <1>3, <1>4, <1>5 DEF RewardSenderKnows, Rewards!IsReversal
  <1>6. CASE outbox[e].type = "revoke"
    BY <1>1, <1>2, <1>3, <1>4, <1>6 DEF RewardSenderKnows, Rewards!IsReversal
  <1> QED
    BY <1>3, <1>5, <1>6

LEMMA RecordKeepsIInv ==
    ASSUME RewardIInv, NEW w \in Pushers, Rewards!Record(w)
    PROVE  RewardIInv'
  <1>0. PICK e : e = pusher[w].event
    OBVIOUS
  <1>1. /\ pusher[w].pc = "record" /\ pusher[w].pc # "idle"
        /\ UNCHANGED <<purchase, resolved, rule, dry, refund, Rewards!external, killed>>
    BY RecordShape
  <1>2. /\ Rewards!TypeOK /\ e \in DOMAIN outbox /\ CreditedGrants /\ RowsAreTrue /\ EventsCounted
        /\ RewardStaleIsProcessing /\ UNCHANGED <<credit, back, arrived>>
    BY <1>0, <1>1, BusyShape DEF RewardIInv, Rewards!external
  <1>3. killed' \in 0..PointCrashes
    BY <1>1, <1>2 DEF Rewards!TypeOK
  <1>4. CASE Left(w) /\ UNCHANGED <<outbox, rows>>
    BY <1>1, <1>3, <1>4, LeftKnows, QuietStepKeepsIInv DEF Left
  <1>5. CASE Went(w, "failed", pusher[w].grant) /\ UNCHANGED <<outbox, rows>>
    <2>1. RewardSenderKnows(w)'
      BY <1>0, <1>2, <1>5 DEF RewardSenderKnows, Went
    <2> QED
      BY <1>1, <1>3, <1>5, <2>1, QuietStepKeepsIInv DEF Went
  <1>6. CASE /\ Left(w) /\ Rewards!Owns(w) /\ Wrote(e, "succeeded")
             /\ rows' = IF Rewards!Traced(w) THEN rows \cup {Rewards!Row(w)} ELSE rows
    <2>1. Kept /\ RewardStaleIsProcessing'
      BY <1>2, <1>6, WroteIsKept, WroteKeepsLeases
    <2>2. rows \subseteq rows' /\ rows' \subseteq [event: Nat, rule: Rules, original: Nat]
      BY <1>1, <1>2, <1>6, RowIsTrue DEF Rewards!TypeOK
    <2>3. Rewards!TypeOK'
      BY <1>1, <1>2, <1>6, <2>1, <2>2 DEF Rewards!TypeOK, Left, Kept
    <2>4. EventsCounted'
      BY <1>1, <1>2, <2>1, KeptIsCounted
    <2>5. CreditedGrants'
      BY <1>2, <2>1 DEF CreditedGrants, Kept, Grown, SameEvent
    <2>6. RowsAreTrue'
      <3>1. \A g, r : Recorded(g, r) => Recorded(g, r)'
        BY <2>2 DEF Recorded
      <3>2. ASSUME NEW row \in rows
            PROVE  /\ row.event \in DOMAIN outbox' /\ outbox'[row.event].rule = row.rule
                   /\ row.rule \in OveRules /\ Rewards!Succeeded(row.event)'
                   /\ row.original = 0 => /\ outbox'[row.event].type = "grant"
                                          /\ credit'[row.event] = outbox'[row.event].amount
                   /\ row.original # 0 => /\ outbox'[row.event].type = "revoke"
                                          /\ row.original \in back'
                                          /\ Recorded(row.original, row.rule)'
        BY <1>2, <2>1, <3>1 DEF RowsAreTrue, Kept, Grown, SameEvent, Rewards!Succeeded
      <3>3. ASSUME Rewards!Traced(w), NEW row, row = Rewards!Row(w)
            PROVE  /\ row.event \in DOMAIN outbox' /\ outbox'[row.event].rule = row.rule
                   /\ row.rule \in OveRules /\ Rewards!Succeeded(row.event)'
                   /\ row.original = 0 => /\ outbox'[row.event].type = "grant"
                                          /\ credit'[row.event] = outbox'[row.event].amount
                   /\ row.original # 0 => /\ outbox'[row.event].type = "revoke"
                                          /\ row.original \in back'
                                          /\ Recorded(row.original, row.rule)'
        <4>1. /\ row.event = e /\ row.rule = outbox[e].rule /\ outbox[e].rule \in OveRules
              /\ row.original = 0 => outbox[e].type = "grant" /\ credit[e] = outbox[e].amount
              /\ row.original # 0 => /\ outbox[e].type = "revoke" /\ row.original \in back
                                     /\ Recorded(row.original, outbox[e].rule)
          BY <1>0, <1>1, <3>3, RowIsTrue
        <4>2. outbox'[e].status = "succeeded" /\ SameEvent(outbox'[e], outbox[e])
          BY <1>6 DEF Wrote
        <4> QED
          BY <1>2, <2>1, <3>1, <4>1, <4>2 DEF Kept, SameEvent, Rewards!Succeeded
      <3> QED
        BY <1>6, <3>2, <3>3 DEF RowsAreTrue
    <2>7. \A v \in Pushers : pusher'[v] = pusher[v] \/ RewardSenderKnows(v)'
      BY <1>6, LeftKnows DEF Left
    <2> QED
      BY <1>2, <2>1, <2>2, <2>3, <2>4, <2>5, <2>6, <2>7, StepKeepsIInv
  <1> QED
    BY <1>0, <1>4, <1>5, <1>6, RecordShape

LEMMA FailedShape ==
    ASSUME RewardIInv, NEW w \in Pushers, Rewards!Failed(w)
    PROVE  LET e == pusher[w].event
           IN  /\ pusher[w].pc = "failed" /\ Left(w)
               /\ UNCHANGED <<purchase, resolved, rule, dry, rows, refund, Rewards!external, killed>>
               /\ \/ UNCHANGED outbox
                  \/ /\ outbox[e].status = "processing"
                     /\ \E s \in {"pending", "dead"} : Wrote(e, s)
  <1> DEFINE e == pusher[w].event
             n == pusher[w].attempt + 1
  <1>1. pusher[w].pc = "failed" /\ pusher[w].pc # "idle" /\ Rewards!Finish(w)
    BY DEF Rewards!Failed
  <1>2. /\ Rewards!TypeOK /\ e \in DOMAIN outbox /\ outbox[e] \in Rewards!EventRow /\ n \in Nat
    BY <1>1, BusyShape
  <1>3. Left(w)
    BY <1>1, <1>2, FinishLeft
  <1>4. CASE Rewards!Owns(w)
    <2>1. Rewards!NextStatus(n) \in {"pending", "dead"}
      BY DEF Rewards!NextStatus
    <2>2. PICK s \in {"pending", "dead"} : s = Rewards!NextStatus(n)
      BY <2>1
    <2>3. PICK x : x = Postponed(outbox[e], s, n)
      OBVIOUS
    <2>4. outbox' = [outbox EXCEPT ![e] = x]
      BY <1>4, <2>2, <2>3 DEF Rewards!Failed, Postponed
    <2>6. x \in Rewards!EventRow /\ SameEvent(x, outbox[e]) /\ x.status = s /\ x.stale = FALSE
      <3>1. s \in RewardStatuses
        BY DEF RewardStatuses
      <3> HIDE DEF n
      <3> QED
        BY <1>2, <2>3, <3>1, PostponedWrite
    <2>5. Wrote(e, s)
      BY <1>2, <2>4, <2>6, RowPut DEF Wrote
    <2> QED
      BY <1>1, <1>3, <1>4, <2>5 DEF Rewards!Failed, Rewards!Owns
  <1>5. CASE ~Rewards!Owns(w)
    BY <1>1, <1>3, <1>5 DEF Rewards!Failed
  <1> QED
    BY <1>4, <1>5

LEMMA FailedKeepsIInv ==
    ASSUME RewardIInv, NEW w \in Pushers, Rewards!Failed(w)
    PROVE  RewardIInv'
  <1>1. pusher[w].pc # "idle" /\ killed' \in 0..PointCrashes
    BY FailedShape DEF RewardIInv, Rewards!TypeOK
  <1> QED
    BY <1>1, FailedShape, LeftKnows, QuietStepKeepsIInv DEF Left

-----------------------------------------------------------------------------
(* The steps of the others *)

\* What the steps of the others have in common: they leave the senders, the
\* transactions and the wallet alone.
LEMMA OtherKeepsIInv ==
    ASSUME RewardIInv, Kept, RewardStaleIsProcessing', EventsCounted',
           UNCHANGED <<rows, pusher, credit, back, arrived, killed>>,
           purchase' \in {"pending", "paid", "refunded"}, resolved' \in BOOLEAN, dry' \in BOOLEAN,
           rule' \in [Rules -> [enabled: BOOLEAN, revoke: BOOLEAN, unit: Units \cup {1}]],
           refund' \in [Refunds -> {"new", "write", "done"}]
    PROVE  RewardIInv'
  <1>1. Rewards!TypeOK'
    BY DEF RewardIInv, Rewards!TypeOK, Kept
  <1> QED
    BY <1>1, QuietKeepsIInv

\* Events are added by a payment or a refund.
LEMMA EnqueueKeepsIInv ==
    ASSUME Rewards!RewardAssumption, RewardIInv, NEW type \in {"grant", "revoke"}, Rewards!Enqueue(type),
           \A e \in DOMAIN outbox : type # "grant",
           EventsCounted',
           purchase' \in {"paid", "refunded"}, refund' \in [Refunds -> {"new", "write", "done"}],
           UNCHANGED <<resolved, rule, dry, rows, pusher, Rewards!external, killed>>
    PROVE  RewardIInv' /\ Grown
  <1>1. Rewards!TypeOK /\ OneGrant /\ RewardStaleIsProcessing /\ CreditedGrants /\ RowsAreTrue
    BY DEF RewardIInv
  <1>2. /\ outbox' \in Seq(Rewards!EventRow)
        /\ \A e \in DOMAIN outbox : e \in DOMAIN outbox' /\ outbox'[e] = outbox[e]
        /\ \A e \in DOMAIN outbox' \ DOMAIN outbox :
             outbox'[e].type = type /\ outbox'[e].status = "pending" /\ outbox'[e].stale = FALSE
        /\ \A e, f \in DOMAIN outbox' \ DOMAIN outbox : outbox'[e].rule = outbox'[f].rule => e = f
    BY <1>1, EnqueueShape
  <1>3. Grown
    BY <1>2 DEF Grown, SameEvent
  <1>4. UNCHANGED <<rows, credit, back, arrived>>
    BY DEF Rewards!external
  <1>5. Rewards!TypeOK'
    BY <1>1, <1>2, <1>4 DEF Rewards!TypeOK
  <1>6. OneGrant'
    <2> SUFFICES ASSUME NEW e \in DOMAIN outbox', NEW f \in DOMAIN outbox',
                        outbox'[e].rule = outbox'[f].rule,
                        outbox'[e].type = "grant", outbox'[f].type = "grant"
                 PROVE  e = f
      BY DEF OneGrant
    <2>1. CASE type = "grant"
      BY <1>2, <2>1
    <2>2. CASE type # "grant"
      BY <1>1, <1>2, <2>2 DEF OneGrant
    <2> QED
      BY <2>1, <2>2
  <1>7. RewardStaleIsProcessing'
    BY <1>1, <1>2 DEF RewardStaleIsProcessing
  <1>8. CreditedGrants' /\ RowsAreTrue'
    BY <1>1, <1>3, <1>4, KeptLedger
  <1>9. \A v \in Pushers : RewardSenderKnows(v)'
    BY <1>3, <1>4, KeptKnowledge DEF RewardIInv
  <1> QED
    BY <1>3, <1>5, <1>6, <1>7, <1>8, <1>9 DEF RewardIInv

LEMMA PayKeepsIInv ==
    ASSUME Rewards!RewardAssumption, RewardIInv, Rewards!Pay
    PROVE  RewardIInv' /\ Grown
  <1>1. /\ purchase = "pending" /\ purchase' = "paid" /\ Rewards!Enqueue("grant")
        /\ UNCHANGED <<resolved, rule, dry, rows, refund, pusher, Rewards!external, killed>>
    BY DEF Rewards!Pay
  <1>2. Rewards!TypeOK /\ Len(outbox) = 0
    BY <1>1 DEF RewardIInv, EventsCounted
  <1>3. DOMAIN outbox = {}
    BY <1>2 DEF Rewards!TypeOK
  <1>4. Answered' = Answered
    BY <1>1 DEF Answered
  <1>5. EventsCounted'
    <2>1. Len(outbox') <= Cardinality(Rules) /\ Len(outbox') \in Nat
      BY <1>1, <1>2, EnqueueShape, AnsweredShape
    <2>2. /\ Cardinality(Rules) <= Cardinality(Rules) * (1 + Cardinality(Answered))
          /\ Cardinality(Rules) * (1 + Cardinality(Answered)) \in Nat
          /\ Cardinality(Rules) \in Nat
      BY AnsweredShape, MoreHandlers
    <2> QED
      BY <1>1, <1>4, <2>1, <2>2 DEF EventsCounted
  <1>6. refund' \in [Refunds -> {"new", "write", "done"}]
    BY <1>1, <1>2 DEF Rewards!TypeOK
  <1> QED
    BY <1>1, <1>3, <1>5, <1>6, EnqueueKeepsIInv

LEMMA RefundCommitsKeepsIInv ==
    ASSUME Rewards!RewardAssumption, RewardIInv, NEW h \in Refunds, Rewards!RefundCommits(h)
    PROVE  RewardIInv' /\ Grown
  <1>1. /\ refund[h] = "write" /\ refund' = [refund EXCEPT ![h] = "done"]
        /\ purchase' = "refunded" /\ Rewards!Enqueue("revoke")
        /\ UNCHANGED <<resolved, rule, dry, rows, pusher, Rewards!external, killed>>
    BY DEF Rewards!RefundCommits
  <1>2. Rewards!TypeOK /\ EventsCounted
    BY DEF RewardIInv
  <1>3. Answered' = Answered \cup {h} /\ h \notin Answered
    BY <1>1, <1>2 DEF Answered, Rewards!TypeOK
  <1>4. Cardinality(Answered') = Cardinality(Answered) + 1
    BY <1>3, AnsweredShape, FS_AddElement
  <1>5. EventsCounted'
    <2> DEFINE k == Cardinality(Rules)
               n == Cardinality(Answered)
    <2>1. Len(outbox') <= Len(outbox) + k /\ Len(outbox') \in Nat /\ Len(outbox) \in Nat
      <3>1. /\ Len(outbox') <= Len(outbox) + Cardinality(Rules)
            /\ outbox' \in Seq(Rewards!EventRow) /\ outbox \in Seq(Rewards!EventRow)
        BY <1>1, <1>2, EnqueueShape DEF Rewards!TypeOK
      <3> QED
        BY <3>1
    <2>2. k \in Nat /\ n \in Nat /\ k * (1 + n) \in Nat /\ Len(outbox) <= k * (1 + n)
      BY <1>2, AnsweredShape DEF EventsCounted
    <2>3. k * (1 + n) + k = k * (1 + (n + 1)) /\ k * (1 + (n + 1)) \in Nat
      BY <2>2, MoreHandlers
    <2> HIDE DEF k, n
    <2>4. Len(outbox') <= k * (1 + (n + 1))
      BY <2>1, <2>2, <2>3
    <2>5. Cardinality(Answered') = n + 1
      BY <1>4 DEF n
    <2> QED
      BY <1>1, <2>4, <2>5 DEF EventsCounted, k
  <1>6. refund' \in [Refunds -> {"new", "write", "done"}]
    BY <1>1, <1>2 DEF Rewards!TypeOK
  <1> QED
    BY <1>1, <1>5, <1>6, EnqueueKeepsIInv

LEMMA RefundReadsKeepsIInv ==
    ASSUME Rewards!RewardAssumption, RewardIInv, NEW h \in Refunds, Rewards!RefundReads(h)
    PROVE  RewardIInv'
  <1>1. /\ refund[h] = "new" /\ purchase # "pending"
        /\ refund' = [refund EXCEPT ![h] = IF purchase = "refunded" THEN "done" ELSE "write"]
        /\ UNCHANGED <<purchase, resolved, rule, dry, outbox, rows, pusher, Rewards!external, killed>>
    BY DEF Rewards!RefundReads
  <1>2. Rewards!TypeOK /\ EventsCounted
    BY DEF RewardIInv
  <1>3. refund' \in [Refunds -> {"new", "write", "done"}]
    BY <1>1, <1>2 DEF Rewards!TypeOK
  <1>4. Answered' = Answered \/ (Answered' = Answered \cup {h} /\ h \notin Answered)
    BY <1>1, <1>2 DEF Answered, Rewards!TypeOK
  <1>5. Cardinality(Answered) <= Cardinality(Answered') /\ Cardinality(Answered') \in Nat
    BY <1>4, AnsweredShape, FS_AddElement
  <1>6. EventsCounted'
    <2> DEFINE k == Cardinality(Rules)
               n == Cardinality(Answered)
    <2>1. PICK m \in Nat : m = Cardinality(Answered') /\ n <= m
      BY <1>5
    <2>2. k \in Nat /\ n \in Nat /\ k * (1 + n) \in Nat /\ Len(outbox) <= k * (1 + n)
          /\ Len(outbox) \in Nat
      BY <1>2, AnsweredShape DEF EventsCounted, Rewards!TypeOK
    <2>3. k * (1 + n) <= k * (1 + m) /\ k * (1 + m) \in Nat
      BY <2>1, <2>2, MoreHandlers
    <2> HIDE DEF k, n
    <2>4. Len(outbox) <= k * (1 + m)
      BY <2>2, <2>3
    <2> QED
      BY <1>1, <2>1, <2>4 DEF EventsCounted, k
  <1>7. Kept /\ RewardStaleIsProcessing'
    BY <1>1, <1>2, SameIsKept DEF RewardIInv, RewardStaleIsProcessing
  <1> QED
    BY <1>1, <1>2, <1>3, <1>6, <1>7, OtherKeepsIInv DEF Rewards!TypeOK, Rewards!external

\* An administrator edits a rule or the stage; the buyer's id is found.
LEMMA EditsKeepIInv ==
    ASSUME RewardIInv, \/ Rewards!ResolveId \/ Rewards!SetStage
                       \/ \E r \in Rules : Rewards!EditRule(r)
    PROVE  RewardIInv'
  <1>1. Rewards!TypeOK /\ EventsCounted
    BY DEF RewardIInv
  <1>2. UNCHANGED <<purchase, outbox, rows, refund, pusher, Rewards!external, killed>>
    BY DEF Rewards!ResolveId, Rewards!SetStage, Rewards!EditRule
  <1>3. resolved' \in BOOLEAN /\ dry' \in BOOLEAN
    BY <1>1 DEF Rewards!ResolveId, Rewards!SetStage, Rewards!EditRule, Rewards!TypeOK
  <1>4. rule' \in [Rules -> [enabled: BOOLEAN, revoke: BOOLEAN, unit: Units \cup {1}]]
    <2>1. CASE Rewards!ResolveId \/ Rewards!SetStage
      BY <1>1, <2>1 DEF Rewards!ResolveId, Rewards!SetStage, Rewards!TypeOK
    <2>2. ASSUME NEW r \in Rules, Rewards!EditRule(r)
          PROVE  rule' \in [Rules -> [enabled: BOOLEAN, revoke: BOOLEAN, unit: Units \cup {1}]]
      <3> DEFINE Fields == [enabled: BOOLEAN, revoke: BOOLEAN, unit: Units \cup {1}]
      <3>1. rule \in [Rules -> Fields] /\ rule[r] \in Fields
        BY <1>1 DEF Rewards!TypeOK
      <3>2. /\ [rule[r] EXCEPT !.enabled = ~@] \in Fields
            /\ [rule[r] EXCEPT !.revoke = ~@] \in Fields
            /\ \A u \in Units : [rule[r] EXCEPT !.unit = u] \in Fields
        BY <3>1
      <3>3. \/ rule' = [rule EXCEPT ![r] = [rule[r] EXCEPT !.enabled = ~@]]
            \/ rule' = [rule EXCEPT ![r] = [rule[r] EXCEPT !.revoke = ~@]]
            \/ \E u \in Units : rule' = [rule EXCEPT ![r] = [rule[r] EXCEPT !.unit = u]]
        BY <2>2 DEF Rewards!EditRule
      <3> HIDE DEF Fields
      <3>4. rule' \in [Rules -> Fields]
        BY <3>1, <3>2, <3>3
      <3> QED
        BY <3>4 DEF Fields
    <2> QED
      BY <2>1, <2>2
  <1>5. Kept /\ RewardStaleIsProcessing' /\ EventsCounted'
    BY <1>1, <1>2, SameIsKept, KeptIsCounted DEF RewardIInv, RewardStaleIsProcessing
  <1> QED
    BY <1>1, <1>2, <1>3, <1>4, <1>5, OtherKeepsIInv DEF Rewards!TypeOK, Rewards!external

\* A backoff or a lease runs out, or rows are put back.
LEMMA TimeShape ==
    ASSUME RewardIInv, \/ Rewards!Reclaim
                       \/ \E e \in DOMAIN outbox : Rewards!BackoffEnds(e) \/ Rewards!LeaseTimesOut(e)
    PROVE  /\ Kept /\ RewardStaleIsProcessing'
           /\ \A e \in DOMAIN outbox :
                outbox'[e].status = outbox[e].status \/ outbox'[e].status = "pending"
           /\ \A e \in DOMAIN outbox : outbox'[e].status = "processing" => outbox'[e].owner = outbox[e].owner
           /\ UNCHANGED <<purchase, resolved, rule, dry, rows, refund, pusher, Rewards!external, killed>>
  <1>1. Rewards!TypeOK /\ RewardStaleIsProcessing
    BY DEF RewardIInv
  <1>2. UNCHANGED <<purchase, resolved, rule, dry, rows, refund, pusher, Rewards!external, killed>>
    BY DEF Rewards!Reclaim, Rewards!BackoffEnds, Rewards!LeaseTimesOut
  <1>3. CASE Rewards!Reclaim
    <2> DEFINE Back(r) == Owned(r, "pending", NULL)
    <2>1. \A r \in Rewards!EventRow : /\ Back(r) \in Rewards!EventRow /\ SameEvent(Back(r), r)
                                      /\ Back(r).status = "pending" /\ Back(r).stale = FALSE
      <3>1. "pending" \in RewardStatuses /\ NULL \in Pushers \cup {NULL}
        BY DEF RewardStatuses
      <3> QED
        BY <3>1, OwnedWrite
    <2>2. outbox' = [e \in DOMAIN outbox |-> IF outbox[e].stale THEN Back(outbox[e]) ELSE outbox[e]]
      BY <1>3 DEF Rewards!Reclaim, Owned
    <2> HIDE DEF Back
    <2>3. \A e \in DOMAIN outbox : outbox[e] \in Rewards!EventRow
      BY <1>1, EventIsRow
    <2>4. outbox' \in Seq(Rewards!EventRow) /\ DOMAIN outbox' = DOMAIN outbox
      <3>1. Len(outbox) \in Nat /\ DOMAIN outbox = 1..Len(outbox)
        BY <1>1 DEF Rewards!TypeOK
      <3>2. outbox' \in [1..Len(outbox) -> Rewards!EventRow]
        BY <2>1, <2>2, <2>3, <3>1
      <3> QED
        BY <3>1, <3>2
    <2>5. \A e \in DOMAIN outbox : \/ outbox'[e] = outbox[e] /\ ~outbox[e].stale
                                   \/ outbox[e].stale /\ outbox'[e] = Back(outbox[e])
      BY <2>2
    <2>6. Kept
      BY <1>1, <2>1, <2>3, <2>4, <2>5 DEF Kept, Grown, SameEvent, RewardStaleIsProcessing
    <2>7. RewardStaleIsProcessing'
      BY <1>1, <2>1, <2>3, <2>4, <2>5 DEF RewardStaleIsProcessing
    <2> QED
      BY <1>2, <2>1, <2>3, <2>5, <2>6, <2>7
  <1>4. ASSUME NEW e \in DOMAIN outbox, Rewards!BackoffEnds(e) \/ Rewards!LeaseTimesOut(e)
        PROVE  /\ Kept /\ RewardStaleIsProcessing'
               /\ \A f \in DOMAIN outbox :
                    outbox'[f].status = outbox[f].status /\ outbox'[f].owner = outbox[f].owner
    <2> DEFINE d == [outbox[e] EXCEPT !.due = TRUE]
               l == [outbox[e] EXCEPT !.stale = TRUE]
    <2>1. outbox[e] \in Rewards!EventRow
      BY <1>1, EventIsRow
    <2>2. /\ d \in Rewards!EventRow /\ SameEvent(d, outbox[e])
          /\ d.status = outbox[e].status /\ d.owner = outbox[e].owner /\ d.stale = outbox[e].stale
      BY <2>1, DueWrite
    <2>3. /\ l \in Rewards!EventRow /\ SameEvent(l, outbox[e])
          /\ l.status = outbox[e].status /\ l.owner = outbox[e].owner
      BY <2>1, StaleWrite
    <2>4. \/ outbox' = [outbox EXCEPT ![e] = d]
          \/ outbox' = [outbox EXCEPT ![e] = l] /\ outbox[e].status = "processing"
      BY <1>4 DEF Rewards!BackoffEnds, Rewards!LeaseTimesOut
    <2> HIDE DEF d, l
    <2>5. /\ outbox' \in Seq(Rewards!EventRow) /\ DOMAIN outbox' = DOMAIN outbox
          /\ outbox'[e] = d \/ (outbox'[e] = l /\ outbox[e].status = "processing")
          /\ \A f \in DOMAIN outbox \ {e} : outbox'[f] = outbox[f]
      BY <1>1, <2>2, <2>3, <2>4, RowPut
    <2>6. Kept
      BY <2>2, <2>3, <2>5 DEF Kept, Grown, SameEvent
    <2>7. RewardStaleIsProcessing'
      BY <1>1, <2>2, <2>3, <2>5 DEF RewardStaleIsProcessing
    <2> QED
      BY <2>2, <2>3, <2>5, <2>6, <2>7
  <1> QED
    BY <1>2, <1>3, <1>4

LEMMA TimeKeepsIInv ==
    ASSUME RewardIInv, \/ Rewards!Reclaim
                       \/ \E e \in DOMAIN outbox : Rewards!BackoffEnds(e) \/ Rewards!LeaseTimesOut(e)
    PROVE  RewardIInv'
  <1>1. Rewards!TypeOK /\ EventsCounted
    BY DEF RewardIInv
  <1>2. EventsCounted'
    BY <1>1, TimeShape, KeptIsCounted
  <1> QED
    BY <1>1, <1>2, TimeShape, OtherKeepsIInv DEF Rewards!TypeOK, Rewards!external


-----------------------------------------------------------------------------
(* The invariant *)

LEMMA RewardInitIInv ==
    ASSUME Rewards!RewardAssumption, Rewards!Init
    PROVE  RewardIInv
  <1>1. outbox = <<>> /\ DOMAIN outbox = {} /\ Len(outbox) = 0 /\ rows = {}
    BY DEF Rewards!Init
  <1>2. pusher = [w \in Pushers |-> Rewards!Idle] /\ Rewards!Idle.pc = "idle"
    BY DEF Rewards!Init, Rewards!Idle
  <1>3. credit = [e \in 1..Rewards!MaxEvents |-> 0]
    BY DEF Rewards!Init
  <1>4. Rewards!TypeOK
    <2>1. rule \in [Rules -> [enabled: BOOLEAN, revoke: BOOLEAN, unit: Units \cup {1}]]
      BY DEF Rewards!Init
    <2>2. outbox \in Seq(Rewards!EventRow) /\ arrived \in Seq(Nat) /\ back \subseteq Nat
      BY DEF Rewards!Init
    <2>3. pusher \in [Pushers -> Rewards!Busy \cup {Rewards!Idle}]
      BY <1>2
    <2>4. killed \in 0..PointCrashes
      BY DEF Rewards!Init, Rewards!RewardAssumption
    <2> QED
      BY <1>1, <1>3, <2>1, <2>2, <2>3, <2>4 DEF Rewards!Init, Rewards!TypeOK
  <1>5. EventsCounted
    <2>1. /\ Cardinality(Rules) * (1 + Cardinality(Answered)) \in Nat
      BY AnsweredShape, MoreHandlers
    <2>2. 0 <= Cardinality(Rules) * (1 + Cardinality(Answered))
      BY <2>1
    <2> QED
      BY <1>1, <2>2 DEF EventsCounted
  <1>6. OneGrant /\ RewardStaleIsProcessing /\ CreditedGrants /\ RowsAreTrue
    BY <1>1, <1>3 DEF OneGrant, RewardStaleIsProcessing, CreditedGrants, RowsAreTrue
  <1>7. \A w \in Pushers : RewardSenderKnows(w)
    BY <1>2 DEF RewardSenderKnows
  <1> QED
    BY <1>4, <1>5, <1>6, <1>7 DEF RewardIInv

LEMMA RewardNextIInv ==
    ASSUME Rewards!RewardAssumption, RewardIInv, [Rewards!Next]_Rewards!vars
    PROVE  RewardIInv'
  <1>1. CASE Rewards!Pay
    BY <1>1, PayKeepsIInv
  <1>2. CASE Rewards!ResolveId \/ Rewards!SetStage \/ \E r \in Rules : Rewards!EditRule(r)
    BY <1>2, EditsKeepIInv
  <1>3. CASE Rewards!Reclaim \/ \E e \in DOMAIN outbox : Rewards!BackoffEnds(e) \/ Rewards!LeaseTimesOut(e)
    BY <1>3, TimeKeepsIInv
  <1>4. ASSUME NEW h \in Refunds, Rewards!RefundReads(h) \/ Rewards!RefundCommits(h)
        PROVE  RewardIInv'
    BY <1>4, RefundReadsKeepsIInv, RefundCommitsKeepsIInv
  <1>5. ASSUME NEW e \in DOMAIN outbox, NEW w \in Pushers, Rewards!Claim(w, e)
        PROVE  RewardIInv'
    BY <1>5, RewardClaimKeepsIInv
  <1>6. ASSUME NEW w \in Pushers, Rewards!Step(w) \/ Rewards!Crash(w)
        PROVE  RewardIInv'
    BY <1>6, ReconcileKeepsIInv, FindKeepsIInv, CallKeepsIInv, RecordKeepsIInv,
       FailedKeepsIInv, CrashKeepsIInv DEF Rewards!Step
  <1>7. CASE UNCHANGED Rewards!vars
    <2>1. UNCHANGED <<purchase, resolved, rule, dry, outbox, rows, refund, pusher, Rewards!external, killed>>
      BY <1>7 DEF Rewards!vars
    <2>2. Rewards!TypeOK /\ EventsCounted /\ RewardStaleIsProcessing
      BY DEF RewardIInv
    <2>3. Kept /\ RewardStaleIsProcessing' /\ EventsCounted'
      BY <2>1, <2>2, SameIsKept, KeptIsCounted DEF RewardStaleIsProcessing
    <2> QED
      BY <2>1, <2>2, <2>3, OtherKeepsIInv DEF Rewards!TypeOK, Rewards!external
  <1> QED
    BY <1>1, <1>2, <1>3, <1>4, <1>5, <1>6, <1>7 DEF Rewards!Next

\* The inductive invariant holds of every behaviour.
THEOREM RewardsInvariant ==
    ASSUME Rewards!RewardAssumption
    PROVE  Rewards!Spec => []RewardIInv
  <1>1. Rewards!Init => RewardIInv
    BY RewardInitIInv
  <1>2. RewardIInv /\ [Rewards!Next]_Rewards!vars => RewardIInv'
    BY RewardNextIInv
  <1> QED
    BY <1>1, <1>2, PTL DEF Rewards!Spec

\* The variables keep their types, whatever the rules, senders and handlers.
THEOREM RewardTypeCorrect ==
    ASSUME Rewards!RewardAssumption
    PROVE  Rewards!Spec => []Rewards!TypeOK
  <1>1. RewardIInv => Rewards!TypeOK
    BY DEF RewardIInv
  <1> QED
    BY <1>1, RewardsInvariant, PTL

\* A recorded reversal leaves no credit of its rule with the buyer: for a rule there
\* is one grant, so the credit that is left can only be the one that was reversed.
THEOREM PointsComeBackHolds ==
    ASSUME Rewards!RewardAssumption
    PROVE  Rewards!Spec => []PointsComeBack
  <1>1. ASSUME RewardIInv
        PROVE  PointsComeBack
    <2> SUFFICES ASSUME NEW row \in rows, row.original # 0, NEW e \in DOMAIN outbox,
                        outbox[e].rule = row.rule, credit[e] # 0
                 PROVE  e \in back
      BY DEF PointsComeBack, Rewards!PointsComeBack
    <2>1. Rewards!TypeOK /\ EventsCounted /\ OneGrant /\ CreditedGrants /\ RowsAreTrue
      BY <1>1 DEF RewardIInv
    <2>2. e \in DOMAIN credit
      BY <2>1, WithinMaxEvents DEF Rewards!TypeOK
    <2>3. outbox[e].type = "grant"
      BY <2>1, <2>2 DEF CreditedGrants
    <2>4. row.original \in back /\ Recorded(row.original, row.rule)
      BY <2>1 DEF RowsAreTrue
    <2>5. PICK g \in rows : g.original = 0 /\ g.event = row.original /\ g.rule = row.rule
      BY <2>4 DEF Recorded
    <2>6. /\ g.event \in DOMAIN outbox /\ outbox[g.event].rule = row.rule
          /\ outbox[g.event].type = "grant"
      BY <2>1, <2>5 DEF RowsAreTrue
    <2>7. e = row.original
      BY <2>1, <2>3, <2>5, <2>6 DEF OneGrant
    <2> QED
      BY <2>4, <2>7
  <1> QED
    BY <1>1, RewardsInvariant, PTL


-----------------------------------------------------------------------------
(* Reversals *)

\* Every step but those that enqueue events keeps them.
LEMMA NextKeepsEvents ==
    ASSUME Rewards!RewardAssumption, RewardIInv, [Rewards!Next]_Rewards!vars
    PROVE  \/ Rewards!Pay
           \/ \E h \in Refunds : Rewards!RefundCommits(h)
           \/ Kept /\ \E h \in Refunds : Rewards!RefundReads(h)
           \/ Kept /\ UNCHANGED refund
  <1>1. Rewards!TypeOK
    BY DEF RewardIInv
  <1>2. CASE Rewards!ResolveId \/ Rewards!SetStage \/ \E r \in Rules : Rewards!EditRule(r)
    BY <1>1, <1>2, SameIsKept DEF Rewards!ResolveId, Rewards!SetStage, Rewards!EditRule
  <1>3. CASE Rewards!Reclaim \/ \E e \in DOMAIN outbox : Rewards!BackoffEnds(e) \/ Rewards!LeaseTimesOut(e)
    BY <1>3, TimeShape
  <1>4. ASSUME NEW h \in Refunds, Rewards!RefundReads(h)
        PROVE  Kept
    BY <1>1, <1>4, SameIsKept DEF Rewards!RefundReads
  <1>5. ASSUME NEW e \in DOMAIN outbox, NEW w \in Pushers, Rewards!Claim(w, e)
        PROVE  Kept /\ UNCHANGED refund
    BY <1>1, <1>5, RewardClaimShape, WroteIsKept
  <1>6. ASSUME NEW w \in Pushers, Rewards!Step(w) \/ Rewards!Crash(w)
        PROVE  Kept /\ UNCHANGED refund
    <2>0. PICK e : e = pusher[w].event
      OBVIOUS
    <2>1. pusher[w].pc # "idle"
      BY <1>1, <1>6, RewardSenderShape DEF Rewards!Step, Rewards!Crash, Rewards!Reconcile, Rewards!Find, Rewards!Call, Rewards!Record, Rewards!Failed
    <2>2. e \in DOMAIN outbox
      BY <2>0, <2>1, BusyShape
    <2>3. UNCHANGED refund
      BY <1>6 DEF Rewards!Step, Rewards!Crash, Rewards!Reconcile, Rewards!Find, Rewards!Call, Rewards!Record, Rewards!Failed
    <2>4. \/ UNCHANGED outbox
          \/ Wrote(e, "succeeded")
          \/ outbox[e].status = "processing" /\ \E s : Wrote(e, s)
      <3>1. CASE Rewards!Reconcile(w)
        BY <2>0, <3>1, ReconcileShape
      <3>2. CASE Rewards!Record(w)
        BY <2>0, <3>2, RecordShape
      <3>3. CASE Rewards!Failed(w)
        BY <2>0, <3>3, FailedShape
      <3>4. CASE Rewards!Find(w) \/ Rewards!Call(w) \/ Rewards!Crash(w)
        BY <3>4 DEF Rewards!Find, Rewards!Call, Rewards!Crash
      <3> QED
        BY <1>6, <3>1, <3>2, <3>3, <3>4 DEF Rewards!Step
    <2> QED
      BY <1>1, <2>2, <2>3, <2>4, SameIsKept, WroteIsKept
  <1>7. CASE UNCHANGED Rewards!vars
    BY <1>1, <1>7, SameIsKept DEF Rewards!vars
  <1> QED
    BY <1>2, <1>3, <1>4, <1>5, <1>6, <1>7 DEF Rewards!Next

\* One handler deals with the refund; one sender works at a time.
OneHandler == \A h, k \in Refunds : refund[h] # "new" /\ refund[k] # "new" => h = k
OneAtWork == \A v, w \in Pushers : pusher[v].pc # "idle" /\ pusher[w].pc # "idle" => v = w

\* With one handler of the refund, a rule is revoked once.
LEMMA NextOneRevoke ==
    ASSUME Rewards!RewardAssumption, OneHandler, RewardIInv, OneRevoke, [Rewards!Next]_Rewards!vars
    PROVE  OneRevoke'
  <1>1. Rewards!TypeOK
    BY DEF RewardIInv
  <1>2. CASE Rewards!Pay
    <2>1. Rewards!Enqueue("grant") /\ UNCHANGED refund /\ purchase = "pending"
      BY <1>2 DEF Rewards!Pay
    <2>2. DOMAIN outbox = {}
      BY <1>1, <2>1 DEF RewardIInv, EventsCounted, Rewards!TypeOK
    <2>3. \A e \in DOMAIN outbox' : outbox'[e].type = "grant"
      BY <1>1, <2>1, <2>2, EnqueueShape
    <2> QED
      BY <2>3 DEF OneRevoke
  <1>3. ASSUME NEW h \in Refunds, Rewards!RefundCommits(h)
        PROVE  OneRevoke'
    <2>1. refund[h] = "write" /\ refund' = [refund EXCEPT ![h] = "done"] /\ Rewards!Enqueue("revoke")
      BY <1>3 DEF Rewards!RefundCommits
    <2>2. Answered = {} /\ h \in Answered'
      BY <1>1, <2>1 DEF Answered, OneHandler, Rewards!TypeOK
    <2>3. \A e \in DOMAIN outbox : outbox[e].type = "grant"
      BY <2>2 DEF OneRevoke
    <2>4. /\ \A e \in DOMAIN outbox : e \in DOMAIN outbox' /\ outbox'[e] = outbox[e]
          /\ \A e, f \in DOMAIN outbox' \ DOMAIN outbox : outbox'[e].rule = outbox'[f].rule => e = f
      BY <1>1, <2>1, EnqueueShape
    <2> QED
      BY <2>2, <2>3, <2>4 DEF OneRevoke
  <1>4. CASE Kept /\ Answered \subseteq Answered'
    BY <1>4 DEF OneRevoke, Kept, Grown, SameEvent
  <1>5. (\E h \in Refunds : Rewards!RefundReads(h)) => Answered \subseteq Answered'
    BY <1>1 DEF Rewards!RefundReads, Answered, Rewards!TypeOK
  <1>6. UNCHANGED refund => Answered' = Answered
    BY DEF Answered
  <1> QED
    BY <1>2, <1>3, <1>4, <1>5, <1>6, NextKeepsEvents

LEMMA RevokedOnceReversedOnce ==
    ASSUME RewardIInv, OneRevoke
    PROVE  ReversedOnce
  <1> SUFFICES ASSUME NEW one \in rows, NEW other \in rows,
                      one.original = other.original, one.original # 0
               PROVE  one = other
    BY DEF ReversedOnce, Rewards!ReversedOnce
  <1>1. Rewards!TypeOK /\ RowsAreTrue
    BY DEF RewardIInv
  <1>2. /\ one.event \in DOMAIN outbox /\ outbox[one.event].rule = one.rule
        /\ outbox[one.event].type = "revoke" /\ Recorded(one.original, one.rule)
        /\ other.event \in DOMAIN outbox /\ outbox[other.event].rule = other.rule
        /\ outbox[other.event].type = "revoke" /\ Recorded(one.original, other.rule)
    BY <1>1 DEF RowsAreTrue
  <1>3. one.rule = other.rule
    BY <1>1, <1>2 DEF Recorded, RowsAreTrue
  <1>4. one.event = other.event
    BY <1>2, <1>3 DEF OneRevoke
  <1>5. /\ one \in [event: Nat, rule: Rules, original: Nat]
        /\ other \in [event: Nat, rule: Rules, original: Nat]
    BY <1>1 DEF Rewards!TypeOK
  <1> QED
    BY <1>3, <1>4, <1>5

\* With one sender, nobody reverses between its look and its record.
Looking(pc) == pc \in {"call", "record"}

LEMMA NextReversedOnce ==
    ASSUME Rewards!RewardAssumption, OneAtWork,
           RewardIInv, RewardUnreversed, ReversedOnce, [Rewards!Next]_Rewards!vars
    PROVE  RewardUnreversed' /\ ReversedOnce'
  <1>1. Rewards!TypeOK
    BY DEF RewardIInv
  <1>2. Grown
    BY NextKeepsEvents, PayKeepsIInv, RefundCommitsKeepsIInv DEF Kept
  <1>3. ASSUME UNCHANGED rows,
               \A v \in Pushers :
                  Looking(pusher'[v].pc) =>
                     \/ ~Rewards!Reversed(pusher'[v].grant)
                     \/ /\ Looking(pusher[v].pc)
                        /\ pusher'[v].event = pusher[v].event /\ pusher'[v].grant = pusher[v].grant
                     \/ /\ pusher[v].pc # "idle" /\ ~Rewards!IsReversal(pusher[v].event)
                        /\ pusher'[v].event = pusher[v].event
        PROVE  RewardUnreversed' /\ ReversedOnce'
    <2>1. \A g : Rewards!Reversed(g)' <=> Rewards!Reversed(g)
      BY <1>3 DEF Rewards!Reversed
    <2>2. \A e \in DOMAIN outbox : Rewards!IsReversal(e)' <=> Rewards!IsReversal(e)
      BY <1>2 DEF Rewards!IsReversal, Grown, SameEvent
    <2>3. \A v \in Pushers : pusher[v].pc # "idle" => pusher[v].event \in DOMAIN outbox
      BY BusyShape
    <2>4. RewardUnreversed'
      <3> SUFFICES ASSUME NEW v \in Pushers, Looking(pusher'[v].pc),
                          NEW e, e = pusher'[v].event, Rewards!IsReversal(e)'
                   PROVE  ~Rewards!Reversed(pusher'[v].grant)
        BY <2>1 DEF RewardUnreversed, Looking, Rewards!IsReversal, Rewards!Reversed
      <3>1. CASE ~Rewards!Reversed(pusher'[v].grant)
        BY <3>1
      <3>2. CASE pusher[v].pc # "idle" /\ pusher'[v].event = pusher[v].event
        <4>1. Rewards!IsReversal(pusher[v].event)
          BY <2>2, <2>3, <3>2
        <4> QED
          BY <1>3, <4>1 DEF RewardUnreversed, Looking
      <3> QED
        BY <1>3, <3>1, <3>2 DEF Looking
    <2>5. ReversedOnce'
      BY <1>3 DEF ReversedOnce, Rewards!ReversedOnce
    <2> QED
      BY <2>4, <2>5
  <1>4. CASE UNCHANGED <<rows, pusher>>
    BY <1>3, <1>4
  <1>5. ASSUME NEW e \in DOMAIN outbox, NEW w \in Pushers, Rewards!Claim(w, e)
        PROVE  RewardUnreversed' /\ ReversedOnce'
    <2>1. /\ pusher'[w].pc = "reconcile" /\ UNCHANGED rows
          /\ \A v \in Pushers \ {w} : pusher'[v] = pusher[v]
      BY <1>5, RewardClaimShape
    <2> QED
      BY <1>3, <2>1 DEF Looking
  <1>6. ASSUME NEW w \in Pushers, Left(w), UNCHANGED rows
        PROVE  RewardUnreversed' /\ ReversedOnce'
    BY <1>3, <1>6 DEF Left, Looking
  <1>7. ASSUME NEW w \in Pushers, NEW p, NEW g, Went(w, p, g), UNCHANGED rows,
               Looking(p) => \/ ~Rewards!Reversed(g)
                             \/ Looking(pusher[w].pc) /\ g = pusher[w].grant
                             \/ pusher[w].pc # "idle" /\ ~Rewards!IsReversal(pusher[w].event)
        PROVE  RewardUnreversed' /\ ReversedOnce'
    <2>1. pusher'[w].event = pusher[w].event /\ pusher'[w].pc = p /\ pusher'[w].grant = g
      BY <1>7 DEF Went
    <2> QED
      BY <1>3, <1>7, <2>1 DEF Went
  <1>8. ASSUME NEW w \in Pushers, Rewards!Step(w) \/ Rewards!Crash(w)
        PROVE  RewardUnreversed' /\ ReversedOnce'
    <2>1. CASE Rewards!Crash(w)
      BY <1>1, <1>6, <2>1, FinishLeft DEF Rewards!Crash
    <2>2. CASE Rewards!Reconcile(w)
      <3>1. UNCHANGED rows
        BY <2>2, ReconcileShape
      <3>2. \/ Left(w)
            \/ Went(w, "find", 0)
            \/ /\ pusher[w].pc # "idle" /\ ~Rewards!IsReversal(pusher[w].event)
               /\ Went(w, "call", 0)
        BY <2>2, ReconcileShape
      <3> QED
        BY <1>6, <1>7, <3>1, <3>2 DEF Looking
    <2>3. CASE Rewards!Find(w)
      <3>1. UNCHANGED rows
        BY <2>3, FindShape
      <3>2. \E g \in Nat : Went(w, "failed", g) \/ (Went(w, "call", g) /\ ~Rewards!Reversed(g))
        BY <2>3, FindShape
      <3> QED
        BY <1>7, <3>1, <3>2 DEF Looking
    <2>4. CASE Rewards!Call(w)
      <3>1. UNCHANGED rows /\ pusher[w].pc = "call"
        BY <2>4, CallShape
      <3>2. \E p \in {"record", "failed"} : Went(w, p, pusher[w].grant)
        BY <2>4, CallShape
      <3> QED
        BY <1>7, <3>1, <3>2 DEF Looking
    <2>5. CASE Rewards!Failed(w)
      BY <1>6, <2>5, FailedShape
    <2>6. CASE Rewards!Record(w)
      <3>1. pusher[w].pc = "record"
        BY <2>6, RecordShape
      <3>2. CASE UNCHANGED rows
        <4>1. Left(w) \/ Went(w, "failed", pusher[w].grant)
          BY <2>6, RecordShape
        <4> QED
          BY <1>6, <1>7, <3>2, <4>1 DEF Looking
      <3>3. CASE Left(w) /\ Rewards!Traced(w) /\ rows' = rows \cup {Rewards!Row(w)}
        <4>1. RewardUnreversed'
          <5>1. \A v \in Pushers : pusher'[v].pc = "idle"
            BY <3>1, <3>3 DEF Left, OneAtWork
          <5> QED
            BY <5>1 DEF RewardUnreversed
        <4>2. Rewards!Row(w).original = pusher[w].grant
          BY DEF Rewards!Row
        <4>3. Rewards!Row(w).original # 0 => \A row \in rows : row.original # Rewards!Row(w).original
          <5>1. RewardSenderKnows(w)
            BY DEF RewardIInv
          <5>2. pusher[w].grant # 0 => Rewards!IsReversal(pusher[w].event)
            BY <3>1, <5>1 DEF RewardSenderKnows
          <5> QED
            BY <3>1, <4>2, <5>2 DEF RewardUnreversed, Rewards!Reversed
        <4>4. ReversedOnce'
          BY <3>3, <4>3 DEF ReversedOnce, Rewards!ReversedOnce
        <4> QED
          BY <4>1, <4>4
      <3> QED
        BY <2>6, <3>2, <3>3, RecordShape
    <2> QED
      BY <1>8, <2>1, <2>2, <2>3, <2>4, <2>5, <2>6 DEF Rewards!Step
  <1> QED
    BY <1>4, <1>5, <1>8 DEF Rewards!Next, Rewards!vars, Rewards!Pay, Rewards!ResolveId, Rewards!SetStage, Rewards!Reclaim, Rewards!RefundReads,
       Rewards!RefundCommits, Rewards!EditRule, Rewards!BackoffEnds, Rewards!LeaseTimesOut

\* No grant has two reversals on record, if one handler deals with the refund or one
\* sender works at a time.  (With two of both a run finds two reversals: README,
\* section 6.)
THEOREM ReversedOnceHolds ==
    ASSUME Rewards!RewardAssumption
    PROVE  Rewards!Spec /\ ([]OneHandler \/ []OneAtWork) => []ReversedOnce
  <1>1. Rewards!Init => OneRevoke /\ RewardUnreversed /\ ReversedOnce
    BY DEF Rewards!Init, OneRevoke, RewardUnreversed, ReversedOnce, Rewards!ReversedOnce, Rewards!Idle
  <1>2. RewardIInv /\ OneHandler /\ OneRevoke /\ [Rewards!Next]_Rewards!vars => OneRevoke'
    BY NextOneRevoke
  <1>3. RewardIInv /\ OneRevoke => ReversedOnce
    BY RevokedOnceReversedOnce
  <1>4. RewardIInv /\ OneAtWork /\ RewardUnreversed /\ ReversedOnce /\ [Rewards!Next]_Rewards!vars
          => RewardUnreversed' /\ ReversedOnce'
    BY NextReversedOnce
  <1> QED
    BY <1>1, <1>2, <1>3, <1>4, RewardsInvariant, PTL DEF Rewards!Spec

-----------------------------------------------------------------------------
(* The ledger *)

\* A step that neither credits nor records, and gives no sender an event.
Calm ==
    /\ UNCHANGED <<rows, credit>> /\ (dry' => dry)
    /\ \A v \in Pushers : pusher'[v].pc # "idle" =>
         /\ pusher[v].pc # "idle"
         /\ pusher'[v].event = pusher[v].event /\ pusher'[v].dry = pusher[v].dry
    /\ \A e \in DOMAIN outbox' :
         \/ outbox'[e].status \notin {"processing", "succeeded"}
         \/ /\ e \in DOMAIN outbox /\ outbox'[e].rule = outbox[e].rule
            /\ outbox'[e].status = outbox[e].status
            /\ outbox'[e].status = "processing" => outbox'[e].owner = outbox[e].owner

LEMMA CalmKeepsDry ==
    ASSUME RewardIInv, DryIsDry, Calm, Grown
    PROVE  DryIsDry'
  <1>1. \A e : AllDry(e) => AllDry(e)'
    BY DEF Calm, AllDry
  <1>2. \A e : (Uncredited(e) => Uncredited(e)') /\ (Rewards!RowOf(e)' = {} => Rewards!RowOf(e) = {})
    BY DEF Calm, Uncredited, Rewards!RowOf
  <1>3. \A v \in Pushers : pusher[v].pc # "idle" => pusher[v].event \in DOMAIN outbox
    BY BusyShape
  <1>4. ASSUME dry'
        PROVE  /\ \A e \in DOMAIN credit' : credit'[e] = 0
               /\ \A v \in Pushers : pusher'[v].pc # "idle" => pusher'[v].dry
    BY <1>4 DEF DryIsDry, Calm
  <1>5. ASSUME NEW w \in Pushers, pusher'[w].pc # "idle", Rewards!Owns(w)', pusher'[w].dry
        PROVE  Uncredited(pusher[w].event)' /\ AllDry(pusher[w].event)'
               /\ pusher'[w].event = pusher[w].event
    <2>1. PICK e : e = pusher[w].event
      OBVIOUS
    <2>2. pusher[w].pc # "idle" /\ pusher'[w].event = e /\ pusher[w].dry
      BY <1>5, <2>1 DEF Calm
    <2>3. e \in DOMAIN outbox /\ e \in DOMAIN outbox'
      BY <1>3, <2>1, <2>2 DEF Grown
    <2>4. outbox'[e].status = "processing" /\ outbox'[e].owner = w
      BY <1>5, <2>2 DEF Rewards!Owns
    <2>5. Rewards!Owns(w)
      BY <2>1, <2>3, <2>4 DEF Calm, Rewards!Owns
    <2> QED
      BY <1>1, <1>2, <2>1, <2>2, <2>5 DEF DryIsDry
  <1>6. ASSUME NEW e \in DOMAIN outbox', Rewards!Succeeded(e)', outbox'[e].rule \in OveRules, Rewards!RowOf(e)' = {}
        PROVE  Uncredited(e)' /\ AllDry(e)'
    <2>1. e \in DOMAIN outbox /\ Rewards!Succeeded(e) /\ outbox[e].rule \in OveRules
      BY <1>6 DEF Calm, Rewards!Succeeded
    <2> QED
      BY <1>1, <1>2, <1>6, <2>1 DEF DryIsDry
  <1>7. ASSUME NEW w \in Pushers, pusher'[w].pc # "idle", Rewards!Owns(w)', pusher'[w].dry,
               NEW e, e = pusher'[w].event
        PROVE  Uncredited(e)' /\ AllDry(e)'
    BY <1>5, <1>7
  <1> QED
    BY <1>4, <1>6, <1>7 DEF DryIsDry, Uncredited, AllDry

LEMMA ClaimKeepsDry ==
    ASSUME RewardIInv, DryIsDry, NEW w \in Pushers, NEW e \in DOMAIN outbox, Rewards!Claim(w, e)
    PROVE  DryIsDry'
  <1>1. /\ DOMAIN outbox' = DOMAIN outbox /\ SameEvent(outbox'[e], outbox[e])
        /\ outbox'[e].status = "processing" /\ outbox'[e].owner = w
        /\ \A f \in DOMAIN outbox \ {e} : outbox'[f] = outbox[f]
        /\ pusher'[w].event = e /\ pusher'[w].dry = dry /\ pusher'[w].pc = "reconcile"
        /\ \A v \in Pushers \ {w} : pusher'[v] = pusher[v]
        /\ UNCHANGED <<dry, rows, credit>>
    <2>1. Wrote(e, "processing") /\ outbox'[e].owner = w
      BY RewardClaimShape
    <2>2. /\ pusher'[w].event = e /\ pusher'[w].dry = dry /\ pusher'[w].pc = "reconcile"
          /\ \A v \in Pushers \ {w} : pusher'[v] = pusher[v]
      BY RewardClaimShape
    <2>3. UNCHANGED <<dry, rows, credit>>
      BY RewardClaimShape DEF Rewards!external
    <2> QED
      BY <2>1, <2>2, <2>3 DEF Wrote
  <1>2. \A v \in Pushers : pusher[v].pc # "idle" => pusher[v].event \in DOMAIN outbox
    BY BusyShape
  <1>3. \A f : (Uncredited(f) <=> Uncredited(f)') /\ (Rewards!RowOf(f)' = Rewards!RowOf(f))
    BY <1>1 DEF Uncredited, Rewards!RowOf
  <1>4. \A f : f # e /\ AllDry(f) => AllDry(f)'
    BY <1>1 DEF AllDry
  <1>5. ASSUME dry'
        PROVE  /\ \A f \in DOMAIN credit' : credit'[f] = 0
               /\ \A v \in Pushers : pusher'[v].pc # "idle" => pusher'[v].dry
    BY <1>1, <1>5 DEF DryIsDry
  <1>6. dry' => \A f : Uncredited(f)' /\ AllDry(f)'
    BY <1>5 DEF Uncredited, AllDry
  <1>7. ASSUME NEW v \in Pushers, pusher'[v].pc # "idle", Rewards!Owns(v)', pusher'[v].dry,
               NEW f, f = pusher'[v].event
        PROVE  Uncredited(f)' /\ AllDry(f)'
    <2>1. outbox'[f].status = "processing" /\ outbox'[f].owner = v
      BY <1>7 DEF Rewards!Owns
    <2>2. CASE v = w
      BY <1>1, <1>6, <1>7, <2>2
    <2>3. CASE v # w
      <3>1. pusher[v] = pusher'[v] /\ f # e /\ f \in DOMAIN outbox
        BY <1>1, <1>2, <1>7, <2>1, <2>3
      <3>2. Rewards!Owns(v)
        BY <1>1, <1>7, <2>1, <3>1 DEF Rewards!Owns
      <3>3. Uncredited(f) /\ AllDry(f)
        BY <1>7, <3>1, <3>2 DEF DryIsDry
      <3> QED
        BY <1>3, <1>4, <3>1, <3>3
    <2> QED
      BY <2>2, <2>3
  <1>8. ASSUME NEW f \in DOMAIN outbox', Rewards!Succeeded(f)', outbox'[f].rule \in OveRules, Rewards!RowOf(f)' = {}
        PROVE  Uncredited(f)' /\ AllDry(f)'
    <2>1. f # e /\ f \in DOMAIN outbox /\ outbox'[f] = outbox[f]
      BY <1>1, <1>8 DEF Rewards!Succeeded
    <2>2. Uncredited(f) /\ AllDry(f)
      BY <1>3, <1>8, <2>1 DEF DryIsDry, Rewards!Succeeded
    <2> QED
      BY <1>3, <1>4, <2>1, <2>2
  <1> QED
    BY <1>5, <1>7, <1>8 DEF DryIsDry, Uncredited, AllDry

\* A sender that was not told of a dry run credits an event; nobody relies on it being dry.
LEMMA CallKeepsDry ==
    ASSUME Rewards!RewardAssumption, RewardIInv, DryIsDry, NEW w \in Pushers, Rewards!Call(w)
    PROVE  DryIsDry'
  <1>0. PICK e : e = pusher[w].event
    OBVIOUS
  <1>1. /\ pusher[w].pc = "call" /\ pusher[w].pc # "idle"
        /\ UNCHANGED <<dry, outbox, rows>> /\ Rewards!TypeOK
    BY CallShape DEF RewardIInv
  <1>2. Grown
    BY <1>1, SameIsKept DEF Kept
  <1>3. PICK p \in {"record", "failed"} :
           /\ Went(w, p, pusher[w].grant)
           /\ \/ UNCHANGED credit
              \/ /\ ~pusher[w].dry
                 /\ DOMAIN credit' = 1..Rewards!MaxEvents
                 /\ \A f \in DOMAIN credit \ {e} : credit'[f] = credit[f]
    BY <1>0, CallShape
  <1>4. \A v \in Pushers : pusher'[v].pc # "idle" =>
           /\ pusher[v].pc # "idle"
           /\ pusher'[v].event = pusher[v].event /\ pusher'[v].dry = pusher[v].dry
    BY <1>1, <1>3 DEF Went
  <1>5. CASE UNCHANGED credit
    BY <1>1, <1>2, <1>4, <1>5, CalmKeepsDry DEF Calm
  <1>6. CASE /\ ~pusher[w].dry
             /\ DOMAIN credit' = 1..Rewards!MaxEvents
             /\ \A f \in DOMAIN credit \ {e} : credit'[f] = credit[f]
    <2>1. ~dry' /\ ~AllDry(e)
      BY <1>0, <1>1, <1>6 DEF DryIsDry, AllDry
    <2>2. \A f : f # e /\ Uncredited(f) => Uncredited(f)'
      BY <1>1, <1>6 DEF Rewards!TypeOK, Uncredited
    <2>3. \A f : (AllDry(f) => AllDry(f)') /\ Rewards!RowOf(f)' = Rewards!RowOf(f)
      BY <1>1, <1>4 DEF AllDry, Rewards!RowOf
    <2>4. ASSUME NEW v \in Pushers, pusher'[v].pc # "idle", Rewards!Owns(v)', pusher'[v].dry,
                 NEW f, f = pusher'[v].event
          PROVE  Uncredited(f)' /\ AllDry(f)'
      <3>1. pusher[v].pc # "idle" /\ pusher[v].event = f /\ pusher[v].dry
        BY <1>4, <2>4
      <3>2. Rewards!Owns(v)
        BY <1>1, <2>4, <3>1 DEF Rewards!Owns
      <3>3. Uncredited(f) /\ AllDry(f)
        BY <3>1, <3>2 DEF DryIsDry
      <3> QED
        BY <2>1, <2>2, <2>3, <3>3
    <2>5. ASSUME NEW f \in DOMAIN outbox', Rewards!Succeeded(f)', outbox'[f].rule \in OveRules, Rewards!RowOf(f)' = {}
          PROVE  Uncredited(f)' /\ AllDry(f)'
      <3>1. Uncredited(f) /\ AllDry(f)
        BY <1>1, <2>3, <2>5 DEF DryIsDry, Rewards!Succeeded
      <3> QED
        BY <2>1, <2>2, <2>3, <3>1
    <2> QED
      BY <2>1, <2>4, <2>5 DEF DryIsDry, Uncredited, AllDry
  <1> QED
    BY <1>3, <1>5, <1>6

\* An event that is settled without a row was settled by a sender of a dry run.
LEMMA RecordKeepsDry ==
    ASSUME RewardIInv, DryIsDry, NEW w \in Pushers, Rewards!Record(w)
    PROVE  DryIsDry'
  <1>0. PICK e : e = pusher[w].event
    OBVIOUS
  <1>1. /\ pusher[w].pc = "record" /\ pusher[w].pc # "idle"
        /\ UNCHANGED <<dry, credit>> /\ Rewards!TypeOK
    BY RecordShape DEF RewardIInv, Rewards!external
  <1>2. e \in DOMAIN outbox
    BY <1>0, <1>1, BusyShape
  <1>3. CASE UNCHANGED <<outbox, rows>> /\ (Left(w) \/ Went(w, "failed", pusher[w].grant))
    <2>1. Grown
      BY <1>1, <1>3, SameIsKept DEF Kept
    <2>2. Calm
      BY <1>1, <1>3 DEF Calm, Left, Went
    <2> QED
      BY <2>1, <2>2, CalmKeepsDry
  <1>4. CASE /\ Left(w) /\ Rewards!Owns(w) /\ Wrote(e, "succeeded")
             /\ rows' = IF Rewards!Traced(w) THEN rows \cup {Rewards!Row(w)} ELSE rows
    <2>1. \A f : /\ AllDry(f) => AllDry(f)'
                 /\ Uncredited(f) => Uncredited(f)'
                 /\ Rewards!RowOf(f)' = {} => Rewards!RowOf(f) = {}
      BY <1>1, <1>4 DEF AllDry, Uncredited, Rewards!RowOf, Left
    <2>2. ASSUME dry'
          PROVE  /\ \A f \in DOMAIN credit' : credit'[f] = 0
                 /\ \A v \in Pushers : pusher'[v].pc # "idle" => pusher'[v].dry
      BY <1>1, <1>4, <2>2 DEF DryIsDry, Left
    <2>3. ASSUME NEW v \in Pushers, pusher'[v].pc # "idle", Rewards!Owns(v)', pusher'[v].dry,
                 NEW f, f = pusher'[v].event
          PROVE  Uncredited(f)' /\ AllDry(f)'
      <3>1. v # w /\ pusher'[v] = pusher[v]
        BY <1>4, <2>3 DEF Left
      <3>2. f \in DOMAIN outbox
        BY <2>3, <3>1, BusyShape
      <3>3. outbox'[f].status = "processing" /\ outbox'[f].owner = v
        BY <2>3 DEF Rewards!Owns
      <3>4. Rewards!Owns(v)
        BY <1>4, <2>3, <3>1, <3>2, <3>3 DEF Wrote, Rewards!Owns
      <3> QED
        BY <2>1, <2>3, <3>1, <3>4 DEF DryIsDry
    <2>4. ASSUME NEW f \in DOMAIN outbox', Rewards!Succeeded(f)', outbox'[f].rule \in OveRules, Rewards!RowOf(f)' = {}
          PROVE  Uncredited(f)' /\ AllDry(f)'
      <3>1. CASE f # e
        <4>1. f \in DOMAIN outbox /\ outbox'[f] = outbox[f]
          BY <1>4, <2>4, <3>1 DEF Wrote
        <4> QED
          BY <2>1, <2>4, <4>1 DEF DryIsDry, Rewards!Succeeded
      <3>2. CASE f = e
        <4>1. outbox[e].rule \in OveRules
          BY <1>4, <2>4, <3>2 DEF Wrote, SameEvent
        <4>2. ~Rewards!Traced(w)
          <5>1. Rewards!Row(w).event = e
            BY <1>0 DEF Rewards!Row
          <5> QED
            BY <1>4, <2>4, <3>2, <5>1 DEF Rewards!RowOf
        <4>3. pusher[w].dry
          BY <1>0, <4>1, <4>2 DEF Rewards!Traced
        <4>4. Uncredited(e) /\ AllDry(e)
          BY <1>0, <1>1, <1>4, <4>3 DEF DryIsDry
        <4> QED
          BY <2>1, <3>2, <4>4
      <3> QED
        BY <3>1, <3>2
    <2> QED
      BY <2>2, <2>3, <2>4 DEF DryIsDry, Uncredited, AllDry
  <1> QED
    BY <1>0, <1>3, <1>4, RecordShape

LEMMA NextDry ==
    ASSUME Rewards!RewardAssumption, "lower" \notin PointEnv, RewardIInv, DryIsDry, [Rewards!Next]_Rewards!vars
    PROVE  DryIsDry'
  <1>1. Rewards!TypeOK
    BY DEF RewardIInv
  <1>2. Grown
    BY NextKeepsEvents, PayKeepsIInv, RefundCommitsKeepsIInv DEF Kept
  <1>3. ASSUME UNCHANGED <<rows, pusher, credit>>, dry' => dry,
               \A e \in DOMAIN outbox' :
                  \/ outbox'[e].status \notin {"processing", "succeeded"}
                  \/ /\ e \in DOMAIN outbox /\ outbox'[e].rule = outbox[e].rule
                     /\ outbox'[e].status = outbox[e].status
                     /\ outbox'[e].status = "processing" => outbox'[e].owner = outbox[e].owner
        PROVE  DryIsDry'
    BY <1>2, <1>3, CalmKeepsDry DEF Calm
  <1>4. ASSUME NEW type \in {"grant", "revoke"}, Rewards!Enqueue(type),
               UNCHANGED <<rows, pusher, credit, dry>>
        PROVE  DryIsDry'
    BY <1>1, <1>3, <1>4, EnqueueShape
  <1>5. CASE Rewards!Pay
    BY <1>4, <1>5 DEF Rewards!Pay, Rewards!external
  <1>6. ASSUME NEW h \in Refunds, Rewards!RefundCommits(h)
        PROVE  DryIsDry'
    BY <1>4, <1>6 DEF Rewards!RefundCommits, Rewards!external
  <1>7. CASE Rewards!Reclaim \/ \E e \in DOMAIN outbox : Rewards!BackoffEnds(e) \/ Rewards!LeaseTimesOut(e)
    <2>1. /\ DOMAIN outbox' = DOMAIN outbox /\ UNCHANGED <<dry, rows, pusher, credit>>
          /\ \A e \in DOMAIN outbox :
               outbox'[e].status = outbox[e].status \/ outbox'[e].status = "pending"
          /\ \A e \in DOMAIN outbox : outbox'[e].status = "processing" => outbox'[e].owner = outbox[e].owner
      BY <1>7, TimeShape DEF Kept, Rewards!external
    <2> QED
      BY <1>2, <1>3, <2>1 DEF Grown, SameEvent
  <1>8. CASE Rewards!ResolveId \/ Rewards!SetStage \/ (\E h \in Refunds : Rewards!RefundReads(h))
             \/ (\E r \in Rules : Rewards!EditRule(r)) \/ UNCHANGED Rewards!vars
    <2>1. UNCHANGED <<outbox, rows, pusher, credit>> /\ (dry' => dry)
      BY <1>8 DEF Rewards!ResolveId, Rewards!SetStage, Rewards!RefundReads, Rewards!EditRule, Rewards!vars, Rewards!external
    <2> QED
      BY <1>3, <2>1
  <1>9. ASSUME NEW w \in Pushers, Left(w), UNCHANGED <<rows, credit, dry>>,
               UNCHANGED outbox \/ \E s : s \notin {"processing", "succeeded"} /\ Wrote(pusher[w].event, s)
        PROVE  DryIsDry'
    <2>1. Calm
      BY <1>9 DEF Calm, Left, Wrote
    <2> QED
      BY <1>2, <2>1, CalmKeepsDry
  <1>10. ASSUME NEW w \in Pushers, pusher[w].pc # "idle", NEW p, NEW g, Went(w, p, g),
                UNCHANGED <<rows, credit, dry, outbox>>
         PROVE  DryIsDry'
    <2>1. Calm
      BY <1>10 DEF Calm, Went
    <2> QED
      BY <1>2, <2>1, CalmKeepsDry
  <1>11. ASSUME NEW w \in Pushers, Rewards!Step(w) \/ Rewards!Crash(w)
         PROVE  DryIsDry'
    <2>1. CASE Rewards!Reconcile(w)
      BY <1>9, <1>10, <2>1, ReconcileShape DEF Rewards!external
    <2>2. CASE Rewards!Find(w)
      BY <1>10, <2>2, FindShape DEF Rewards!external
    <2>3. CASE Rewards!Failed(w)
      BY <1>9, <2>3, FailedShape DEF Rewards!external
    <2>4. CASE Rewards!Crash(w)
      BY <1>1, <1>9, <2>4, FinishLeft DEF Rewards!Crash, Rewards!external
    <2> QED
      BY <1>11, <2>1, <2>2, <2>3, <2>4, CallKeepsDry, RecordKeepsDry DEF Rewards!Step
  <1> QED
    BY <1>5, <1>6, <1>7, <1>8, <1>11, ClaimKeepsDry DEF Rewards!Next

\* The recorded transactions and the wallet's credits agree, as long as the stage is
\* only raised: a recorded grant was credited with the amount promised at the payment,
\* and no credit whose event succeeded is untraced.
THEOREM LedgerMatchesWalletHolds ==
    ASSUME Rewards!RewardAssumption, "lower" \notin PointEnv
    PROVE  Rewards!Spec => []LedgerMatchesWallet
  <1>1. ASSUME Rewards!Init
        PROVE  DryIsDry
    BY <1>1 DEF Rewards!Init, DryIsDry, Rewards!Idle
  <1>2. RewardIInv /\ DryIsDry /\ [Rewards!Next]_Rewards!vars => DryIsDry'
    BY NextDry
  <1>3. ASSUME RewardIInv, DryIsDry
        PROVE  LedgerMatchesWallet
    <2>1. Rewards!TypeOK /\ EventsCounted /\ RowsAreTrue /\ CreditedGrants
      BY <1>3 DEF RewardIInv
    <2>2. ASSUME NEW e \in DOMAIN outbox, Rewards!Succeeded(e), credit[e] # 0
          PROVE  Rewards!RowOf(e) # {}
      <3>1. e \in DOMAIN credit
        BY <2>1, WithinMaxEvents DEF Rewards!TypeOK
      <3>2. outbox[e].rule \in OveRules /\ ~Uncredited(e)
        BY <2>1, <2>2, <3>1 DEF CreditedGrants, Uncredited
      <3> QED
        BY <1>3, <2>2, <3>2 DEF DryIsDry
    <2> QED
      BY <2>1, <2>2 DEF LedgerMatchesWallet, Rewards!LedgerMatchesWallet, RowsAreTrue
  <1> QED
    BY <1>1, <1>2, <1>3, RewardsInvariant, PTL DEF Rewards!Spec

-----------------------------------------------------------------------------
(* The composition *)

\* Each step of the composition is a step of both parts, which one of them stutters;
\* and the scope in which the refund has two handlers has one sender of rewards.
ScopeHolds ==
    IF scope = "twice" THEN Sender2 \in Pushers => pusher[Sender2].pc = "idle"
                       ELSE Refund2 \in Refunds => refund[Refund2] = "new"

LEMMA StepOfBoth ==
    ASSUME [OutboxNext]_allVars PROVE [Next]_vars /\ [Rewards!Next]_Rewards!vars /\ UNCHANGED scope
BY DEF OutboxNext, PointNext, allVars, cardVars, pointVars, Rewards!vars, Rewards!external

LEMMA ScopeStays ==
    ASSUME ScopeHolds, [OutboxNext]_allVars PROVE ScopeHolds'
  <1>1. CASE UNCHANGED <<scope, pointVars>>
    BY <1>1 DEF ScopeHolds, pointVars
  <1>2. CASE UNCHANGED scope /\ PointNext
    <2>1. IF scope = "twice" THEN OnePusher ELSE OneRefund
      BY <1>2 DEF PointNext
    <2> QED
      BY <1>2, <2>1 DEF ScopeHolds, OnePusher, OneRefund, Rewards!Idle
  <1> QED
    BY <1>1, <1>2 DEF OutboxNext, allVars

\* Both users of the outbox as they are composed for the run: what the run checks on
\* its instance, for every value of the constants with the run's at most two senders
\* of rewards and at most two handlers of a refund, and a stage that is only raised.
THEOREM OutboxCorrect ==
    ASSUME "lower" \notin PointEnv,
           \A h, k \in Refunds \ {Refund2} : h = k,
           \A v, w \in Pushers \ {Sender2} : v = w
    PROVE  OutboxSpec => /\ [](DeliveredWasReceived /\ NoGrantAfterRefund)
                         /\ [](LedgerMatchesWallet /\ PointsComeBack /\ ReversedOnce)
                         /\ LeaseSpec
  <1>1. OutboxInit => Init /\ Rewards!Init /\ ScopeHolds
    <2>1. Rewards!Init => \A h \in Refunds : refund[h] = "new"
      BY DEF Rewards!Init
    <2>2. Rewards!Init => \A v \in Pushers : pusher[v].pc = "idle"
      BY DEF Rewards!Init, Rewards!Idle
    <2> QED
      BY <2>1, <2>2 DEF OutboxInit, PointInit, ScopeHolds
  <1>2. [OutboxNext]_allVars => [Next]_vars /\ [Rewards!Next]_Rewards!vars /\ scope' = scope
    BY StepOfBoth
  <1>3. ScopeHolds /\ [OutboxNext]_allVars => ScopeHolds'
    BY ScopeStays
  <1>4. ScopeHolds /\ scope = "twice" => OneAtWork
    BY DEF ScopeHolds, OneAtWork
  <1>5. ScopeHolds /\ ~(scope = "twice") => OneHandler
    BY DEF ScopeHolds, OneHandler
  <1>6. OutboxSpec => Spec /\ Rewards!Spec /\ ([]OneHandler \/ []OneAtWork)
    <2>1. (scope = "twice") /\ [OutboxNext]_allVars => (scope = "twice")'
      BY <1>2
    <2>2. ~(scope = "twice") /\ [OutboxNext]_allVars => ~(scope = "twice")'
      BY <1>2
    <2> QED
      BY <1>1, <1>2, <1>3, <1>4, <1>5, <2>1, <2>2, PTL DEF OutboxSpec, Spec, Rewards!Spec
  <1> QED
    BY <1>6, DeliveredWasReceivedHolds, NoGrantAfterRefundHolds, ImplementsLease, RewardsAssumption,
       LedgerMatchesWalletHolds, PointsComeBackHolds, ReversedOnceHolds, PTL

-----------------------------------------------------------------------------
(***************************************************************************)
(* The rounds, for any table, any rows and any number of rounds.  What a   *)
(* round has listed was due when it was listed (RoundsInv); a row falls    *)
(* out of due only when a round settles it after a failure, which          *)
(* overtakes every other round that has it on its list.                    *)
(***************************************************************************)

\* A row as a list holds it; the forms a round's locals take.
Entries == [status: R!Statuses, attempts: Nat, due: BOOLEAN]
Listings == UNION {[S -> Entries] : S \in SUBSET R!Rows}
Begun == [pc: {"list"}, claimed: Nat, overtaken: SUBSET R!Rows]
Visiting == [pc: {"loop"}, todo: Listings, claimed: Nat, overtaken: SUBSET R!Rows]
AtWork == [pc: {"work"}, row: R!Rows, attempts: Nat, todo: Listings, claimed: Nat,
           overtaken: SUBSET R!Rows]

RoundsShape ==
    /\ table \in Tables
    /\ job \in [R!Rows -> Entries]
    /\ waited \subseteq R!Rows
    /\ round \in [Rounds -> {R!Idle} \cup Begun \cup Visiting \cup AtWork]

\* A listed row is due, unless another round has worked on it since.
ListedWasDue(k) ==
    k \in R!Looping \cup R!Working =>
       \A r \in DOMAIN round[k].todo : job[r].due \/ r \in round[k].overtaken

\* The row a round works on is off its list.
OffTheList(k) == k \in R!Working => round[k].row \notin DOMAIN round[k].todo

RoundsInv == RoundsShape /\ \A k \in Rounds : ListedWasDue(k) /\ OffTheList(k)

(* A round's form is told by its program counter. *)
LEMMA RoundForms ==
    ASSUME RoundsShape, NEW k \in Rounds
    PROVE  /\ round[k].pc = "idle" <=> round[k] = R!Idle
           /\ round[k].pc = "list" <=> round[k] \in Begun
           /\ k \in R!Looping <=> round[k] \in Visiting
           /\ k \in R!Working <=> round[k] \in AtWork
           /\ k \in R!Looping \cup R!Working =>
                /\ round[k].todo \in Listings
                /\ DOMAIN round[k].todo \subseteq R!Rows
                /\ \A r \in DOMAIN round[k].todo : round[k].todo[r] \in Entries
                /\ round[k].claimed \in Nat /\ round[k].overtaken \subseteq R!Rows
<1>1. round[k] \in {R!Idle} \cup Begun \cup Visiting \cup AtWork  BY DEF RoundsShape
<1>2. /\ round[k].pc = "idle" <=> round[k] = R!Idle
      /\ round[k].pc = "list" <=> round[k] \in Begun
      /\ round[k].pc = "loop" <=> round[k] \in Visiting
      /\ round[k].pc = "work" <=> round[k] \in AtWork
  <2>1. CASE round[k] = R!Idle  BY <2>1 DEF R!Idle, Begun, Visiting, AtWork
  <2>2. CASE round[k] \in Begun  BY <2>2 DEF R!Idle, Begun, Visiting, AtWork
  <2>3. CASE round[k] \in Visiting  BY <2>3 DEF R!Idle, Begun, Visiting, AtWork
  <2>4. CASE round[k] \in AtWork  BY <2>4 DEF R!Idle, Begun, Visiting, AtWork
  <2> QED  BY <1>1, <2>1, <2>2, <2>3, <2>4
<1>3. (k \in R!Looping <=> round[k] \in Visiting) /\ (k \in R!Working <=> round[k] \in AtWork)
  BY <1>2 DEF R!Looping, R!Working
<1>4. ASSUME k \in R!Looping \cup R!Working
      PROVE  /\ round[k].todo \in Listings
             /\ round[k].claimed \in Nat /\ round[k].overtaken \subseteq R!Rows
  <2>1. CASE round[k] \in Visiting  BY <2>1 DEF Visiting
  <2>2. CASE round[k] \in AtWork  BY <2>2 DEF AtWork
  <2> QED  BY <1>3, <1>4, <2>1, <2>2
<1>5. ASSUME NEW todo \in Listings
      PROVE  DOMAIN todo \subseteq R!Rows /\ \A r \in DOMAIN todo : todo[r] \in Entries
  BY DEF Listings
<1> QED  BY <1>2, <1>3, <1>4, <1>5

(* A round lists rows that wait and are due. *)
LEMMA BatchIsDue ==
    ASSUME table \in Tables
    PROVE  R!Batch \subseteq R!Candidates
<1>1. \A S, n : R!Oldest(S, n) \subseteq S  BY DEF R!Oldest
<1>2. R!OutboxBatch \subseteq R!Candidates
  <2> DEFINE read == R!Oldest(R!Candidates, 10 * BatchLimit)
  <2>1. read \subseteq R!Candidates  BY <1>1
  <2> HIDE DEF read
  <2>2. R!OutboxBatch \subseteq read  BY <1>1 DEF R!OutboxBatch, read
  <2> QED  BY <2>1, <2>2
<1>3. R!LinkingBatch \subseteq R!Candidates  BY DEF R!LinkingBatch
<1>4. R!ProvisioningBatch \subseteq R!Candidates /\ R!Lookahead \subseteq R!Candidates
  BY <1>1 DEF R!ProvisioningBatch, R!Lookahead
<1>5. table.queue \in R!Queues  BY TablesAssumption DEF R!QueuesAssumption
<1>6. R!Batch \in {R!OutboxBatch, R!LinkingBatch, R!ProvisioningBatch, R!Lookahead}
  BY <1>5 DEF R!Batch, R!Queues
<1> QED  BY <1>2, <1>3, <1>4, <1>6

(* A list without one of its rows. *)
LEMMA ShorterList ==
    ASSUME NEW todo \in Listings, NEW r
    PROVE  R!Without(todo, r) \in Listings /\ DOMAIN R!Without(todo, r) = DOMAIN todo \ {r}
<1>1. PICK S \in SUBSET R!Rows : todo \in [S -> Entries]  BY DEF Listings
<1>2. R!Without(todo, r) \in [S \ {r} -> Entries]  BY <1>1 DEF R!Without
<1>3. S \ {r} \in SUBSET R!Rows  OBVIOUS
<1> QED  BY <1>1, <1>2, <1>3 DEF Listings

(* What a round does next, with rows listed before. *)
LEMMA ProceedForms ==
    ASSUME RoundsShape, NEW k \in R!Working, k \in Rounds, NEW timeIsUp \in BOOLEAN
    PROVE  \/ R!Proceed(k, timeIsUp) = R!Idle
           \/ R!Proceed(k, timeIsUp) \in Begun
           \/ /\ R!Proceed(k, timeIsUp) \in Visiting
              /\ R!Proceed(k, timeIsUp).todo = round[k].todo
              /\ R!Proceed(k, timeIsUp).overtaken = round[k].overtaken
<1> DEFINE again == [pc |-> "list", claimed |-> round[k].claimed, overtaken |-> {}]
           on == [pc |-> "loop", todo |-> round[k].todo, claimed |-> round[k].claimed,
                  overtaken |-> round[k].overtaken]
<1>1. R!Proceed(k, timeIsUp) \in {R!Idle, again, on}
  <2>1. CASE timeIsUp  BY <2>1 DEF R!Proceed
  <2>2. CASE ~timeIsUp /\ table.queue = "notification" /\ round[k].claimed < BatchLimit
    BY <2>2 DEF R!Proceed
  <2>3. CASE /\ ~timeIsUp /\ ~(table.queue = "notification" /\ round[k].claimed < BatchLimit)
             /\ table.queue # "notification" /\ DOMAIN round[k].todo # {}
    BY <2>3 DEF R!Proceed
  <2>4. CASE /\ ~timeIsUp /\ ~(table.queue = "notification" /\ round[k].claimed < BatchLimit)
             /\ ~(table.queue # "notification" /\ DOMAIN round[k].todo # {})
    BY <2>4 DEF R!Proceed
  <2> QED  BY <2>1, <2>2, <2>3, <2>4
<1>2. round[k].todo \in Listings /\ round[k].claimed \in Nat /\ round[k].overtaken \subseteq R!Rows
  BY RoundForms
<1>3. again \in Begun  BY <1>2 DEF Begun
<1>4. on \in Visiting /\ on.todo = round[k].todo /\ on.overtaken = round[k].overtaken
  BY <1>2 DEF Visiting
<1> HIDE DEF again, on
<1> QED  BY <1>1, <1>3, <1>4

(* Nothing is listed at the start. *)
LEMMA RoundsInitially == ASSUME R!Init PROVE RoundsInv
<1>1. RoundsShape
  <2>1. job \in [R!Rows -> Entries]  BY DEF R!Init, Entries, R!Statuses
  <2> QED  BY <2>1 DEF R!Init, RoundsShape
<1>2. ASSUME NEW k \in Rounds PROVE k \notin R!Looping /\ k \notin R!Working
  BY DEF R!Init, R!Idle, R!Looping, R!Working
<1> QED  BY <1>1, <1>2 DEF RoundsInv, ListedWasDue, OffTheList

(* The rows change, no row falls out of due, and the rounds stand still. *)
LEMMA RoundsStill ==
    ASSUME RoundsInv, table' = table, job' \in [R!Rows -> Entries], waited' \subseteq R!Rows,
           round' = round, \A r \in R!Rows : job[r].due => job'[r].due
    PROVE  RoundsInv' /\ \A k \in Rounds : (round'[k] = round[k])
<1>1. RoundsShape'  BY DEF RoundsInv, RoundsShape, R!Rows, Entries, Listings, Begun, Visiting, AtWork
<1>2. ASSUME NEW k \in Rounds PROVE ListedWasDue(k)' /\ OffTheList(k)'
  <2>1. k \in R!Looping \cup R!Working => DOMAIN round[k].todo \subseteq R!Rows
    BY RoundForms DEF RoundsInv
  <2>2. ListedWasDue(k) /\ OffTheList(k)  BY DEF RoundsInv
  <2>3. (k \in R!Looping' <=> k \in R!Looping) /\ (k \in R!Working' <=> k \in R!Working)
    BY DEF R!Looping, R!Working
  <2> QED  BY <2>1, <2>2, <2>3 DEF ListedWasDue, OffTheList
<1> QED  BY <1>1, <1>2 DEF RoundsInv

(* One round moves on; what it lists is due or overtaken, and no row falls out of due. *)
LEMMA RoundMoves ==
    ASSUME RoundsInv, table' = table, job' \in [R!Rows -> Entries], waited' \subseteq R!Rows,
           NEW k \in Rounds, NEW next \in {R!Idle} \cup Begun \cup Visiting \cup AtWork,
           round' = [round EXCEPT ![k] = next],
           \A r \in R!Rows : job[r].due => job'[r].due,
           next \in Visiting \cup AtWork =>
              \A r \in DOMAIN next.todo : job'[r].due \/ r \in next.overtaken,
           next \in AtWork => next.row \notin DOMAIN next.todo
    PROVE  RoundsInv'
<1>1. RoundsShape'
  BY DEF RoundsInv, RoundsShape, R!Rows, Entries, Listings, Begun, Visiting, AtWork
<1>2. ASSUME NEW j \in Rounds PROVE ListedWasDue(j)' /\ OffTheList(j)'
  <2>0. round'[k] = next /\ (j # k => round'[j] = round[j])  BY DEF RoundsInv, RoundsShape
  <2>1. CASE j = k
    <3>1. (next.pc = "loop" => next \in Visiting) /\ (next.pc = "work" => next \in AtWork)
      BY DEF R!Idle, Begun, Visiting, AtWork
    <3>2. (k \in R!Looping' => next \in Visiting) /\ (k \in R!Working' => next \in AtWork)
      BY <2>0, <3>1 DEF R!Looping, R!Working
    <3> QED  BY <2>0, <2>1, <3>2 DEF ListedWasDue, OffTheList
  <2>2. CASE j # k
    <3>1. j \in R!Looping \cup R!Working => DOMAIN round[j].todo \subseteq R!Rows
      BY RoundForms DEF RoundsInv
    <3>2. ListedWasDue(j) /\ OffTheList(j)  BY DEF RoundsInv
    <3>3. (j \in R!Looping' <=> j \in R!Looping) /\ (j \in R!Working' <=> j \in R!Working)
      BY <2>0, <2>2 DEF R!Looping, R!Working
    <3> QED  BY <2>0, <2>2, <3>1, <3>2, <3>3 DEF ListedWasDue, OffTheList
  <2> QED  BY <2>1, <2>2
<1> QED  BY <1>1, <1>2 DEF RoundsInv

(* A settled row overtakes every list it is on but its own, where it is not. *)
LEMMA RowSettles ==
    ASSUME RoundsInv, NEW k \in Rounds, k \in R!Working, NEW new \in Entries,
           NEW timeIsUp \in BOOLEAN, R!SettleRow(k, new, timeIsUp)
    PROVE  RoundsInv'
<1> PICK r \in R!Rows : r = round[k].row  BY RoundForms DEF RoundsInv, AtWork
<1>1. table' = table /\ waited' = waited /\ R!Rows' = R!Rows  BY DEF R!SettleRow, R!Rows
<1>2. job' = [job EXCEPT ![r] = new] /\ job' \in [R!Rows -> Entries]
  BY DEF R!SettleRow, RoundsInv, RoundsShape
<1>3. \A s \in R!Rows : s # r => job'[s] = job[s]  BY <1>2 DEF RoundsInv, RoundsShape
<1>4. /\ round'[k] = R!Proceed(k, timeIsUp)
      /\ \A j \in Rounds \ {k} :
           round'[j] = IF j \in R!Looping \cup R!Working
                         THEN [round[j] EXCEPT !.overtaken = @ \cup {r}] ELSE round[j]
      /\ DOMAIN round' = Rounds
  BY DEF R!SettleRow
<1>5. round'[k] \in {R!Idle} \cup Begun \cup Visiting
  BY <1>4, ProceedForms DEF RoundsInv
<1>6. ASSUME NEW j \in Rounds, j # k
      PROVE  /\ round'[j] \in {R!Idle} \cup Begun \cup Visiting \cup AtWork
             /\ round'[j].pc = round[j].pc
             /\ j \in R!Looping \cup R!Working =>
                  /\ round'[j].todo = round[j].todo
                  /\ round'[j].overtaken = round[j].overtaken \cup {r}
             /\ j \in R!Working => round'[j].row = round[j].row
  <2>1. CASE j \in R!Looping
    <3>1. round[j] \in Visiting  BY <2>1, RoundForms DEF RoundsInv
    <3>2. j \notin R!Working  BY <2>1 DEF R!Looping, R!Working
    <3>3. round'[j] = [round[j] EXCEPT !.overtaken = @ \cup {r}]  BY <1>4, <1>6, <2>1
    <3> QED  BY <3>1, <3>2, <3>3 DEF Visiting
  <2>2. CASE j \in R!Working
    <3>1. round[j] \in AtWork  BY <2>2, RoundForms DEF RoundsInv
    <3>2. round'[j] = [round[j] EXCEPT !.overtaken = @ \cup {r}]  BY <1>4, <1>6, <2>2
    <3> QED  BY <3>1, <3>2 DEF AtWork
  <2>3. CASE j \notin R!Looping \cup R!Working
    BY <1>4, <1>6, <2>3 DEF RoundsInv, RoundsShape
  <2> QED  BY <2>1, <2>2, <2>3
<1>7. RoundsShape'
  <2>1. round' \in [Rounds -> {R!Idle} \cup Begun \cup Visiting \cup AtWork]
    <3>1. \A j \in Rounds : round'[j] \in {R!Idle} \cup Begun \cup Visiting \cup AtWork
      BY <1>5, <1>6
    <3>2. round' = [j \in Rounds |-> round'[j]]  BY DEF R!SettleRow
    <3> HIDE DEF R!Idle
    <3> QED  BY <3>1, <3>2
  <2>2. Begun' = Begun /\ Visiting' = Visiting /\ AtWork' = AtWork /\ Entries' = Entries
    BY <1>1 DEF Begun, Visiting, AtWork, Listings, Entries
  <2> QED  BY <1>1, <1>2, <2>1, <2>2 DEF RoundsInv, RoundsShape
<1>8. ASSUME NEW j \in Rounds PROVE ListedWasDue(j)' /\ OffTheList(j)'
  <2>0. ListedWasDue(j) /\ OffTheList(j)  BY DEF RoundsInv
  <2>1. CASE j = k
    <3>1. k \notin R!Working'  BY <1>5 DEF R!Working, R!Idle, Begun, Visiting
    <3>2. ASSUME k \in R!Looping'
          PROVE  round'[k].todo = round[k].todo /\ round'[k].overtaken = round[k].overtaken
      <4>1. round'[k].pc = "loop"  BY <3>2 DEF R!Looping
      <4>2. ~(round'[k] = R!Idle) /\ round'[k] \notin Begun  BY <4>1 DEF R!Idle, Begun
      <4> QED  BY <1>4, <4>2, ProceedForms DEF RoundsInv
    <3>3. r \notin DOMAIN round[k].todo  BY DEF RoundsInv, OffTheList
    <3>4. DOMAIN round[k].todo \subseteq R!Rows  BY RoundForms DEF RoundsInv
    <3> QED  BY <1>3, <2>0, <2>1, <3>1, <3>2, <3>3, <3>4 DEF ListedWasDue, OffTheList
  <2>2. CASE j # k
    <3>1. j \in R!Looping \cup R!Working => DOMAIN round[j].todo \subseteq R!Rows
      BY RoundForms DEF RoundsInv
    <3>2. (j \in R!Looping' <=> j \in R!Looping) /\ (j \in R!Working' <=> j \in R!Working)
      BY <1>6, <2>2 DEF R!Looping, R!Working
    <3>3. ListedWasDue(j)'  BY <1>3, <1>6, <2>0, <2>2, <3>1, <3>2 DEF ListedWasDue
    <3>4. OffTheList(j)'  BY <1>6, <2>0, <2>2, <3>2 DEF OffTheList
    <3> QED  BY <3>3, <3>4
  <2> QED  BY <2>1, <2>2
<1> QED  BY <1>7, <1>8 DEF RoundsInv

(* No step of a round or of what goes on beside it breaks the lists. *)
LEMMA RoundsKeepTheirLists == ASSUME RoundsInv, R!Next PROVE RoundsInv'
<1>0. /\ RoundsShape /\ table \in Tables /\ job \in [R!Rows -> Entries] /\ waited \subseteq R!Rows
      /\ \A k \in Rounds : round[k] \in {R!Idle} \cup Begun \cup Visiting \cup AtWork
      /\ \A k \in Rounds : ListedWasDue(k) /\ OffTheList(k)
  BY DEF RoundsInv, RoundsShape
<1>1. ASSUME NEW k \in Rounds, R!Reclaim(k) PROVE RoundsInv'
  <2> PICK next \in Begun : next = [pc |-> "list", claimed |-> 0, overtaken |-> {}]  BY DEF Begun
  <2>1. job' \in [R!Rows -> Entries] /\ \A r \in R!Rows : job[r].due => job'[r].due
    <3>1. \A r \in R!Rows :
            /\ [job[r] EXCEPT !.status = "pending"] \in Entries
            /\ [job[r] EXCEPT !.status = "pending"].due = job[r].due
      BY <1>0 DEF Entries, R!Statuses
    <3> QED  BY <1>0, <1>1, <3>1 DEF R!Reclaim, R!PutBack
  <2>2. next \notin Visiting /\ next \notin AtWork  BY DEF Begun, Visiting, AtWork
  <2>3. round' = [round EXCEPT ![k] = next] /\ table' = table /\ waited' \subseteq R!Rows
    BY <1>1 DEF R!Reclaim
  <2>4. next \in {R!Idle} \cup Begun \cup Visiting \cup AtWork  OBVIOUS
  <2> QED  BY <2>1, <2>2, <2>3, <2>4, RoundMoves
<1>2. ASSUME NEW k \in Rounds, R!List(k) PROVE RoundsInv'
  <2>1. job' = job /\ table' = table /\ waited' = waited  BY <1>2 DEF R!List
  <2>2. CASE R!Batch = {}
    <3>1. round' = [round EXCEPT ![k] = R!Idle]  BY <1>2, <2>2 DEF R!List
    <3>2. R!Idle \notin Visiting /\ R!Idle \notin AtWork  BY DEF R!Idle, Visiting, AtWork
    <3> HIDE DEF R!Idle
    <3> QED  BY <1>0, <2>1, <3>1, <3>2, RoundMoves
  <2>3. CASE R!Batch # {}
    <3> PICK next : next = [pc |-> "loop", todo |-> [r \in R!Batch |-> job[r]],
                            claimed |-> round[k].claimed, overtaken |-> {}]
      OBVIOUS
    <3>1. R!Batch \subseteq R!Candidates  BY <1>0, BatchIsDue
    <3>2. \A r \in R!Batch : r \in R!Rows /\ job[r].due  BY <3>1 DEF R!Candidates
    <3>3. [r \in R!Batch |-> job[r]] \in Listings
      <4>1. [r \in R!Batch |-> job[r]] \in [R!Batch -> Entries]  BY <1>0, <3>2
      <4>2. R!Batch \in SUBSET R!Rows  BY <3>2
      <4> QED  BY <4>1, <4>2 DEF Listings
    <3>4. round[k].claimed \in Nat
      <4>1. round[k] \in Begun  BY <1>0, <1>2, RoundForms DEF R!List
      <4> QED  BY <4>1 DEF Begun
    <3>5. next \in Visiting /\ next \notin AtWork  BY <3>3, <3>4 DEF Visiting, AtWork
    <3>6. \A r \in DOMAIN next.todo : job'[r].due  BY <2>1, <3>2
    <3>7. round' = [round EXCEPT ![k] = next]  BY <1>2, <2>3 DEF R!List
    <3>8. next \in {R!Idle} \cup Begun \cup Visiting \cup AtWork  BY <3>5
    <3> QED  BY <1>0, <2>1, <3>5, <3>6, <3>7, <3>8, RoundMoves
  <2> QED  BY <2>2, <2>3
<1>3. ASSUME NEW k \in Rounds, R!Claim(k) PROVE RoundsInv'
  <2>0. k \in R!Looping /\ round[k] \in Visiting  BY <1>0, <1>3, RoundForms DEF R!Claim
  <2>1. table' = table /\ waited' = waited  BY <1>3 DEF R!Claim
  <2>2. /\ round[k].todo \in Listings /\ DOMAIN round[k].todo \subseteq R!Rows
        /\ \A r \in DOMAIN round[k].todo : round[k].todo[r] \in Entries
        /\ round[k].claimed \in Nat /\ round[k].overtaken \subseteq R!Rows
    BY <1>0, <2>0, RoundForms
  <2>3. PICK r \in DOMAIN round[k].todo :
          \/ /\ R!Takeable(k, r)
             /\ job' = [job EXCEPT ![r].status = "processing",
                          ![r].attempts = IF table.queue = "notification" THEN @ + 1 ELSE @]
             /\ round' = [round EXCEPT ![k] =
                  [pc |-> "work", row |-> r, attempts |-> @.todo[r].attempts,
                   todo |-> R!Without(@.todo, r), claimed |-> @.claimed + 1,
                   overtaken |-> @.overtaken]]
          \/ /\ ~R!Takeable(k, r)
             /\ round' = [round EXCEPT ![k] =
                  IF DOMAIN round[k].todo = {r} THEN R!Idle
                  ELSE [round[k] EXCEPT !.todo = R!Without(@, r)]]
             /\ UNCHANGED job
    BY <1>3 DEF R!Claim
  <2> PICK rest \in Listings : rest = R!Without(round[k].todo, r) /\ DOMAIN rest = DOMAIN round[k].todo \ {r}
    BY <2>2, ShorterList
  <2>4. r \in R!Rows /\ \A s \in DOMAIN rest : job[s].due \/ s \in round[k].overtaken
    BY <1>0, <2>0, <2>2 DEF ListedWasDue
  <2>5. CASE /\ job' = [job EXCEPT ![r].status = "processing",
                          ![r].attempts = IF table.queue = "notification" THEN @ + 1 ELSE @]
             /\ round' = [round EXCEPT ![k] =
                  [pc |-> "work", row |-> r, attempts |-> @.todo[r].attempts,
                   todo |-> R!Without(@.todo, r), claimed |-> @.claimed + 1,
                   overtaken |-> @.overtaken]]
    <3> PICK next : next = [pc |-> "work", row |-> r, attempts |-> round[k].todo[r].attempts,
                            todo |-> rest, claimed |-> round[k].claimed + 1,
                            overtaken |-> round[k].overtaken]
      OBVIOUS
    <3>1. round[k].todo[r].attempts \in Nat /\ round[k].claimed + 1 \in Nat
      BY <2>2 DEF Entries
    <3>2. next \in AtWork  BY <2>2, <2>4, <3>1 DEF AtWork
    <3>3. round' = [round EXCEPT ![k] = next]  BY <2>5
    <3>4. job' \in [R!Rows -> Entries] /\ \A s \in R!Rows : job[s].due => job'[s].due
      <4> PICK n : n = IF table.queue = "notification" THEN job[r].attempts + 1
                                                       ELSE job[r].attempts
        OBVIOUS
      <4> PICK new : new = [job[r] EXCEPT !.status = "processing", !.attempts = n]  OBVIOUS
      <4>1. job[r] \in Entries /\ n \in Nat  BY <1>0, <2>4 DEF Entries
      <4>2. new \in Entries /\ new.due = job[r].due  BY <4>1 DEF Entries, R!Statuses
      <4>3. job' = [job EXCEPT ![r] = new]
        <5>1. [[job[r] EXCEPT !.status = "processing"] EXCEPT !.attempts = n] = new
          BY <4>1 DEF Entries
        <5>2. [job[r] EXCEPT !.status = "processing"].attempts = job[r].attempts
          BY <4>1 DEF Entries
        <5> QED  BY <1>0, <2>4, <2>5, <4>1, <5>1, <5>2
      <4> QED  BY <1>0, <2>4, <4>2, <4>3
    <3>5. \A s \in DOMAIN next.todo : job'[s].due \/ s \in next.overtaken
      BY <2>2, <2>4, <3>4
    <3>6. next.row \notin DOMAIN next.todo  OBVIOUS
    <3>7. next \in {R!Idle} \cup Begun \cup Visiting \cup AtWork  BY <3>2
    <3> QED  BY <1>0, <2>1, <3>3, <3>4, <3>5, <3>6, <3>7, RoundMoves
  <2>6. CASE /\ round' = [round EXCEPT ![k] =
                  IF DOMAIN round[k].todo = {r} THEN R!Idle
                  ELSE [round[k] EXCEPT !.todo = R!Without(@, r)]]
             /\ UNCHANGED job
    <3>1. CASE DOMAIN round[k].todo = {r}
      <4>1. round' = [round EXCEPT ![k] = R!Idle]  BY <2>6, <3>1
      <4>2. R!Idle \notin Visiting /\ R!Idle \notin AtWork  BY DEF R!Idle, Visiting, AtWork
      <4> HIDE DEF R!Idle
      <4> QED  BY <1>0, <2>1, <2>6, <4>1, <4>2, RoundMoves
    <3>2. CASE DOMAIN round[k].todo # {r}
      <4> PICK next : next = [round[k] EXCEPT !.todo = rest]  OBVIOUS
      <4>1. round' = [round EXCEPT ![k] = next]
        <5>1. next = [round[k] EXCEPT !.todo = R!Without(@, r)]  OBVIOUS
        <5> QED  BY <2>6, <3>2, <5>1
      <4>2. /\ next \in Visiting /\ next \notin AtWork
            /\ next.todo = rest /\ next.overtaken = round[k].overtaken
        BY <2>0 DEF Visiting, AtWork
      <4>3. next \in {R!Idle} \cup Begun \cup Visiting \cup AtWork  BY <4>2
      <4>4. \A s \in DOMAIN next.todo : job'[s].due \/ s \in next.overtaken
        BY <2>4, <2>6, <4>2
      <4> QED  BY <1>0, <2>1, <2>6, <4>1, <4>2, <4>3, <4>4, RoundMoves
    <3> QED  BY <3>1, <3>2
  <2> QED  BY <2>3, <2>5, <2>6
<1>4. ASSUME NEW k \in Rounds, R!Block(k) \/ R!Succeed(k) \/ R!Fail(k) PROVE RoundsInv'
  <2>0. k \in R!Working  BY <1>4 DEF R!Block, R!Succeed, R!Fail, R!Ready
  <2> PICK r \in R!Rows : r = round[k].row  BY <1>0, <2>0, RoundForms DEF AtWork
  <2>1. job[r] \in Entries  BY <1>0
  <2>2. CASE R!Block(k)
    <3> PICK new : new = [job[r] EXCEPT !.status = "blocked"]  OBVIOUS
    <3>1. new \in Entries  BY <2>1 DEF Entries, R!Statuses
    <3>2. R!SettleRow(k, new, FALSE)  BY <2>2 DEF R!Block
    <3> QED  BY <2>0, <3>1, <3>2, RowSettles
  <2>3. CASE R!Succeed(k)
    <3> PICK new : new = [job[r] EXCEPT !.status = "succeeded"]  OBVIOUS
    <3>1. new \in Entries  BY <2>1 DEF Entries, R!Statuses
    <3>2. PICK timeIsUp \in BOOLEAN : R!SettleRow(k, new, timeIsUp)  BY <2>3 DEF R!Succeed
    <3> QED  BY <2>0, <3>1, <3>2, RowSettles
  <2>4. CASE R!Fail(k)
    <3> PICK attempt : attempt = round[k].attempts + 1  OBVIOUS
    <3> PICK tried : tried = IF table.queue = "notification" THEN job[r]
                             ELSE [job[r] EXCEPT !.attempts = attempt]
      OBVIOUS
    <3> PICK new : new = IF attempt >= MaxAttempts
                           THEN [tried EXCEPT !.status = "dead"]
                           ELSE [tried EXCEPT !.status = "pending", !.due = FALSE]
      OBVIOUS
    <3>1. attempt \in Nat
      <4>1. round[k] \in AtWork  BY <1>0, <2>0, RoundForms
      <4> QED  BY <4>1 DEF AtWork
    <3>2. tried \in Entries  BY <2>1, <3>1 DEF Entries
    <3>3. new \in Entries  BY <3>2 DEF Entries, R!Statuses
    <3>4. PICK timeIsUp \in BOOLEAN : R!SettleRow(k, new, timeIsUp)  BY <2>4 DEF R!Fail
    <3> QED  BY <2>0, <3>3, <3>4, RowSettles
  <2> QED  BY <1>4, <2>2, <2>3, <2>4
<1>5. ASSUME NEW k \in Rounds, R!Die(k) PROVE RoundsInv'
  <2>1. round' = [round EXCEPT ![k] = R!Idle] /\ UNCHANGED <<table, job, waited>>
    BY <1>5 DEF R!Die
  <2>2. R!Idle \notin Visiting /\ R!Idle \notin AtWork  BY DEF R!Idle, Visiting, AtWork
  <2> HIDE DEF R!Idle
  <2> QED  BY <1>0, <2>1, <2>2, RoundMoves
<1>6. ASSUME NEW r \in R!Rows,
             R!Enqueue(r) \/ R!LeaseTimesOut(r) \/ R!BackoffPasses(r) \/ R!IdsResolve(r) \/ R!LosesItsRule(r)
      PROVE  RoundsInv'
  <2>1. table' = table /\ round' = round
    BY <1>6 DEF R!Enqueue, R!LeaseTimesOut, R!BackoffPasses, R!IdsResolve, R!LosesItsRule
  <2>2. waited' \subseteq R!Rows
    BY <1>0, <1>6 DEF R!Enqueue, R!LeaseTimesOut, R!BackoffPasses, R!IdsResolve, R!LosesItsRule
  <2>3. job' \in [R!Rows -> Entries] /\ \A s \in R!Rows : job[s].due => job'[s].due
    <3>1. job[r] \in Entries  BY <1>0
    <3>2. CASE R!Enqueue(r)
      <4> PICK new : new = [job[r] EXCEPT !.status = "pending"]  OBVIOUS
      <4>1. new \in Entries /\ new.due = job[r].due  BY <3>1 DEF Entries, R!Statuses
      <4>2. job' = [job EXCEPT ![r] = new]  BY <3>2 DEF R!Enqueue
      <4> QED  BY <1>0, <4>1, <4>2
    <3>3. CASE R!BackoffPasses(r)
      <4> PICK new : new = [job[r] EXCEPT !.due = TRUE]  OBVIOUS
      <4>1. new \in Entries /\ new.due = TRUE  BY <3>1 DEF Entries
      <4>2. job' = [job EXCEPT ![r] = new]  BY <3>3 DEF R!BackoffPasses
      <4> QED  BY <1>0, <4>1, <4>2
    <3>4. CASE R!LeaseTimesOut(r) \/ R!IdsResolve(r) \/ R!LosesItsRule(r)
      BY <1>0, <3>4 DEF R!LeaseTimesOut, R!IdsResolve, R!LosesItsRule
    <3> QED  BY <1>6, <3>2, <3>3, <3>4
  <2> QED  BY <2>1, <2>2, <2>3, RoundsStill
<1> QED  BY <1>1, <1>2, <1>3, <1>4, <1>5, <1>6 DEF R!Next, R!Step

(* Only a claim makes a row one that is worked on. *)
LEMMA OnlyClaimsTake ==
    ASSUME RoundsInv, R!Next, NEW r \in R!Rows, R!TakenInBackoff(r)
    PROVE  \E k \in Rounds : R!Claim(k) /\ round'[k].pc = "work" /\ round'[k].row = r
<1>0. /\ RoundsShape /\ job \in [R!Rows -> Entries]
      /\ job[r].status # "processing" /\ job'[r].status = "processing"
  BY DEF RoundsInv, RoundsShape, R!TakenInBackoff
<1>1. ASSUME NEW k \in Rounds, R!Reclaim(k) PROVE FALSE
  <2>1. [job[r] EXCEPT !.status = "pending"].status = "pending"  BY <1>0 DEF Entries
  <2> QED  BY <1>0, <1>1, <2>1 DEF R!Reclaim, R!PutBack
<1>2. ASSUME NEW k \in Rounds, R!List(k) \/ R!Die(k) PROVE FALSE
  BY <1>0, <1>2 DEF R!List, R!Die
<1>3. ASSUME NEW k \in Rounds, R!Block(k) \/ R!Succeed(k) \/ R!Fail(k) PROVE FALSE
  <2>0. k \in R!Working  BY <1>3 DEF R!Block, R!Succeed, R!Fail, R!Ready
  <2> PICK s \in R!Rows : s = round[k].row  BY <1>0, <2>0, RoundForms DEF AtWork
  <2>1. job[s] \in Entries  BY <1>0
  <2>2. ASSUME NEW new, NEW timeIsUp, R!SettleRow(k, new, timeIsUp), new.status # "processing"
        PROVE  FALSE
    BY <1>0, <2>2 DEF R!SettleRow
  <2>3. CASE R!Block(k)
    <3>1. [job[s] EXCEPT !.status = "blocked"].status = "blocked"  BY <2>1 DEF Entries
    <3> QED  BY <2>2, <2>3, <3>1 DEF R!Block
  <2>4. CASE R!Succeed(k)
    <3>1. [job[s] EXCEPT !.status = "succeeded"].status = "succeeded"  BY <2>1 DEF Entries
    <3> QED  BY <2>2, <2>4, <3>1 DEF R!Succeed
  <2>5. CASE R!Fail(k)
    <3> PICK attempt : attempt = round[k].attempts + 1  OBVIOUS
    <3> PICK tried : tried = IF table.queue = "notification" THEN job[s]
                             ELSE [job[s] EXCEPT !.attempts = attempt]
      OBVIOUS
    <3> PICK new : new = IF attempt >= MaxAttempts
                           THEN [tried EXCEPT !.status = "dead"]
                           ELSE [tried EXCEPT !.status = "pending", !.due = FALSE]
      OBVIOUS
    <3>1. new.status \in {"dead", "pending"}
      <4>1. "status" \in DOMAIN tried  BY <2>1 DEF Entries
      <4> QED  BY <4>1
    <3>2. \E timeIsUp \in BOOLEAN : R!SettleRow(k, new, timeIsUp)  BY <2>5 DEF R!Fail
    <3> QED  BY <2>2, <3>1, <3>2
  <2> QED  BY <1>3, <2>3, <2>4, <2>5
<1>4. ASSUME NEW s \in R!Rows,
             R!Enqueue(s) \/ R!LeaseTimesOut(s) \/ R!BackoffPasses(s) \/ R!IdsResolve(s) \/ R!LosesItsRule(s)
      PROVE  FALSE
  <2>1. job[s] \in Entries  BY <1>0
  <2>2. CASE R!Enqueue(s)
    <3>1. [job[s] EXCEPT !.status = "pending"].status = "pending"  BY <2>1 DEF Entries
    <3> QED  BY <1>0, <2>2, <3>1 DEF R!Enqueue
  <2>3. CASE R!BackoffPasses(s)
    <3>1. [job[s] EXCEPT !.due = TRUE].status = job[s].status  BY <2>1 DEF Entries
    <3> QED  BY <1>0, <2>3, <3>1 DEF R!BackoffPasses
  <2>4. CASE R!LeaseTimesOut(s) \/ R!IdsResolve(s) \/ R!LosesItsRule(s)
    BY <1>0, <2>4 DEF R!LeaseTimesOut, R!IdsResolve, R!LosesItsRule
  <2> QED  BY <1>4, <2>2, <2>3, <2>4
<1>5. PICK k \in Rounds : R!Claim(k)  BY <1>1, <1>2, <1>3, <1>4 DEF R!Next, R!Step
<1>6. round'[k].pc = "work" /\ round'[k].row = r
  <2>1. round \in [Rounds -> {R!Idle} \cup Begun \cup Visiting \cup AtWork]  BY <1>0 DEF RoundsShape
  <2>2. ASSUME NEW s, job' = [job EXCEPT ![s].status = "processing",
                          ![s].attempts = IF table.queue = "notification" THEN @ + 1 ELSE @]
        PROVE  s = r
    BY <1>0, <2>2
  <2> QED  BY <1>0, <1>5, <2>1, <2>2 DEF R!Claim
<1> QED  BY <1>5, <1>6

(* A row in its backoff is taken by a round that had listed it before another worked on it. *)
LEMMA BackoffKept == ASSUME RoundsInv, [R!Next]_R!roundVars PROVE R!BackoffKeptStep
<1> SUFFICES ASSUME NEW r \in R!Rows, R!TakenInBackoff(r)
             PROVE  \E k \in Rounds : k \in R!Looping /\ r \in round[k].overtaken
                                        /\ round'[k].pc = "work" /\ round'[k].row = r
  BY DEF R!BackoffKeptStep
<1>1. R!Next  BY DEF R!TakenInBackoff, R!roundVars
<1>2. PICK k \in Rounds : R!Claim(k) /\ round'[k].pc = "work" /\ round'[k].row = r
  BY <1>1, OnlyClaimsTake
<1>3. k \in R!Looping /\ ListedWasDue(k)  BY <1>2 DEF R!Claim, RoundsInv
<1>4. r \in DOMAIN round[k].todo
  <2>0. round \in [Rounds -> {R!Idle} \cup Begun \cup Visiting \cup AtWork]
    BY DEF RoundsInv, RoundsShape
  <2>1. round[k] \in Visiting  BY <1>3, RoundForms DEF RoundsInv
  <2>2. [round[k] EXCEPT !.todo = R!Without(@, r)].pc = "loop" /\ R!Idle.pc = "idle"
    BY <2>1 DEF Visiting, R!Idle
  <2>3. PICK s \in DOMAIN round[k].todo :
          \/ round' = [round EXCEPT ![k] =
                  [pc |-> "work", row |-> s, attempts |-> @.todo[s].attempts,
                   todo |-> R!Without(@.todo, s), claimed |-> @.claimed + 1,
                   overtaken |-> @.overtaken]]
          \/ round' = [round EXCEPT ![k] =
                  IF DOMAIN round[k].todo = {s} THEN R!Idle
                  ELSE [round[k] EXCEPT !.todo = R!Without(@, s)]]
    BY <1>2 DEF R!Claim
  <2>4. CASE round' = [round EXCEPT ![k] =
                  IF DOMAIN round[k].todo = {s} THEN R!Idle
                  ELSE [round[k] EXCEPT !.todo = R!Without(@, s)]]
    <3>1. [round[k] EXCEPT !.todo = R!Without(@, s)].pc = "loop"  BY <2>1 DEF Visiting
    <3> QED  BY <1>2, <2>0, <2>2, <2>4, <3>1
  <2>5. CASE round' = [round EXCEPT ![k] =
                  [pc |-> "work", row |-> s, attempts |-> @.todo[s].attempts,
                   todo |-> R!Without(@.todo, s), claimed |-> @.claimed + 1,
                   overtaken |-> @.overtaken]]
    BY <1>2, <2>0, <2>5
  <2> QED  BY <2>3, <2>4, <2>5
<1>5. r \in round[k].overtaken  BY <1>3, <1>4 DEF ListedWasDue, R!TakenInBackoff
<1> QED  BY <1>2, <1>3, <1>5

\* A row in its backoff is taken only by a round that had listed it before another round
\* worked on it: the batch lists rows that are due, and every claim is from the batch.
THEOREM BackoffIsKeptHolds == R!Spec => BackoffIsKept
  <1>1. R!Init => RoundsInv
    BY RoundsInitially
  <1>2. RoundsInv /\ [R!Next]_R!roundVars => RoundsInv'
    <2>1. ASSUME RoundsInv, UNCHANGED R!roundVars
          PROVE  RoundsInv'
      BY <2>1 DEF R!roundVars, RoundsInv, RoundsShape, ListedWasDue, OffTheList, R!Looping,
         R!Working, R!Rows, Entries, Listings, Begun, Visiting, AtWork
    <2> QED
      BY <2>1, RoundsKeepTheirLists
  <1>3. RoundsInv /\ [R!Next]_R!roundVars => [R!BackoffKeptStep]_roundsVars
    BY BackoffKept DEF R!roundVars, roundsVars
  <1> QED
    BY <1>1, <1>2, <1>3, PTL DEF R!Spec, BackoffIsKept

\* Cards and rounds as the run of deliveries composes them: the claim follows its cards,
\* and backoffs are kept.
THEOREM DeliveryCorrect == DeliverySpec => []ClaimFollowsCards /\ BackoffIsKept
  <1>1. DeliveryInit => Init /\ R!Init
    BY DEF DeliveryInit
  <1>2. [DeliveryNext]_deliveryVars => [Next]_vars /\ [R!Next]_R!roundVars
    BY DEF DeliveryNext, deliveryVars, roundsVars, R!roundVars
  <1>3. DeliverySpec => Spec /\ R!Spec
    BY <1>1, <1>2, PTL DEF DeliverySpec, Spec, R!Spec
  <1> QED
    BY <1>3, ClaimFollowsCardsHolds, BackoffIsKeptHolds, PTL
=============================================================================

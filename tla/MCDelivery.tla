------------------------------- MODULE MCDelivery -------------------------------
(***************************************************************************)
(* Instances, for TLC, of two questions about getting work done.  Either   *)
(* the cards of one claim are handed over by a sender at a time            *)
(* (CollectibleDelivery), or rounds of a dispatcher work through a table   *)
(* (DispatchRounds); part, chosen at the start, says which, and the other  *)
(* stands still.                                                           *)
(***************************************************************************)
EXTENDS CollectibleDelivery

CONSTANTS Parts, Tables, Rounds, BatchLimit, LaneLimit

VARIABLES part, table, job, round, waited, met, mishaps

roundsVars == <<table, job, round, waited, met, mishaps>>

\* The tables of the passing run: each with fewer rows that can never be sent
\* than a round looks at.
MCTables == {
    [queue |-> "outbox", rounds |-> {"k1"}, lane |-> <<1, 1, 2>>, late |-> {3}, never |-> {1},
     mishaps |-> 1],
    [queue |-> "outbox", rounds |-> {"k1", "k2"}, lane |-> <<1, 1>>, late |-> {}, never |-> {},
     mishaps |-> 2],
    [queue |-> "linking", rounds |-> {"k1"}, lane |-> <<2, 1, 1>>, late |-> {1}, never |-> {2},
     mishaps |-> 1],
    [queue |-> "provisioning", rounds |-> {"k1", "k2"}, lane |-> <<1, 1>>, late |-> {2},
     never |-> {1}, mishaps |-> 0],
    [queue |-> "notification", rounds |-> {"k1"}, lane |-> <<1, 1>>, late |-> {}, never |-> {},
     mishaps |-> 2]}

\* As many rows of one destination that can never be sent as a round takes.
MCFull == {
    [queue |-> "outbox", rounds |-> {"k1"}, lane |-> <<1, 1, 1>>, late |-> {3}, never |-> {1, 2},
     mishaps |-> 2]}

AllParts == {"cards", "rounds"}
RoundsOnly == {"rounds"}

R == INSTANCE DispatchRounds WITH Scopes <- Tables, scope <- table, row <- job, stale <- waited

ASSUME TablesAssumption == R!QueuesAssumption

\* The rows one scope has another one need not have.
TheRows == UNION {DOMAIN t.lane : t \in Tables}

\* The table that stands still beside the cards is any one of them.
DeliveryInit ==
    /\ part \in Parts /\ Init /\ R!Init
    /\ part = "cards" => table = CHOOSE t \in Tables : TRUE

DeliveryNext ==
    /\ UNCHANGED part
    /\ \/ part = "cards" /\ Next /\ UNCHANGED roundsVars
       \/ part = "rounds" /\ R!Next /\ UNCHANGED vars

deliveryVars == <<part, vars, roundsVars>>

\* Fairness of the part that moves: that of the two modules.
DeliveryFairness ==
    /\ WF_deliveryVars(part = "cards" /\ ReclaimStale /\ UNCHANGED <<part, roundsVars>>)
    /\ \A e \in Events :
         /\ WF_deliveryVars(part = "cards" /\ LeaseTimesOut(e) /\ UNCHANGED <<part, roundsVars>>)
         /\ SF_deliveryVars(/\ part = "cards" /\ event[e].status = "pending"
                            /\ \E w \in Senders : Pick(w, e)
                            /\ UNCHANGED <<part, roundsVars>>)
    /\ \A w \in Senders :
         WF_deliveryVars(part = "cards" /\ Step(w) /\ UNCHANGED <<part, roundsVars>>)
    /\ \A k \in Rounds :
         /\ WF_deliveryVars(part = "rounds" /\ R!Reclaim(k) /\ UNCHANGED <<part, vars>>)
         /\ WF_deliveryVars(part = "rounds" /\ R!Step(k) /\ UNCHANGED <<part, vars>>)
    /\ \A r \in TheRows :
         WF_deliveryVars(/\ part = "rounds" /\ r \in R!Rows
                         /\ R!LeaseTimesOut(r) \/ R!BackoffPasses(r) \/ R!IdsResolve(r)
                         /\ UNCHANGED <<part, vars>>)

DeliverySpec == DeliveryInit /\ [][DeliveryNext]_deliveryVars /\ DeliveryFairness

\* A row is taken in its backoff only by a round that was overtaken.
BackoffIsKept == [][R!BackoffKeptStep]_roundsVars

\* A row whose ids are known is finished in the end.
ReadyRowsFinish == \A r \in TheRows : R!ReadyRowFinishes(r)

\* A blocked row whose ids have become known is sent in the end.
BlockedResumes == \A r \in TheRows : R!BlockedRowResumes(r)
=============================================================================

------------------------------ MODULE RateLimits ------------------------------
(***************************************************************************)
(* The limits on requests, shared by all instances of the server           *)
(*   server/src/services/rateLimiter.ts, server/src/middleware/dbRateLimit.ts *)
(*                                                                         *)
(* A request is counted in the bucket of its address, of the identifier it *)
(* names and of the pair, one upsert after the other; each upsert is one   *)
(* atomic statement.  A job deletes old buckets.  The hashing of the       *)
(* identifier is left out.                                                 *)
(***************************************************************************)
EXTENDS Integers, FiniteSets

CONSTANTS
    Requests,       \* numbered in the order of their arrival
    Clients,        \* pairs of an IP address and an identifier (a hashed e-mail address,
                    \* a code), or NULL where identify finds none
    Limit,          \* limit: of an identifier, and of an identifier at an address
    IpLimit,        \* ipLimit
    Window,         \* windowMs
    Retention,      \* STALE_BUCKET_RETENTION_MS
    MaxTime,        \* bound on the clock
    MaxFaults,      \* bound on failures of the database
    NULL

VARIABLES
    now,
    bucket,     \* rate_limit_buckets: per key [start, count, updated] or NULL
    request,    \* per request: its step, its client, whether it is refused
    faults

vars == <<now, bucket, request, faults>>

Bucket == [start : Int, count : Int, updated : Int]

(* A limit lets something through, and a bucket is kept for its whole      *)
(* window (a week, where no window is longer than 15 minutes).              *)
LimitAssumption ==
    /\ IsFiniteSet(Requests) /\ MaxTime \in Nat
    /\ {Limit, IpLimit, Window} \subseteq Nat \ {0}
    /\ Retention \in Nat /\ Retention >= Window - 1
    /\ NULL \notin Int /\ NULL \notin Bucket

IpKeys == {<<"ip", c[1]>> : c \in Clients}
NameKeys == {<<"id", c[2]>> : c \in Clients}
PairKeys == {<<"ip-id", c>> : c \in Clients}
Keys == IpKeys \union NameKeys \union PairKeys

LimitOf(key) == IF key \in IpKeys THEN IpLimit ELSE Limit

(* The keys of a request, in the order in which they are counted.          *)
KeyOf(r, step) ==
    LET client == request[r].client IN
    CASE step = "ip" -> <<"ip", client[1]>>
      [] step = "id" -> <<"id", client[2]>>
      [] step = "ip-id" -> <<"ip-id", client>>

Steps == {"ip", "id", "ip-id"}

Following(r) ==
    CASE request[r].pc = "ip" /\ request[r].client[2] # NULL -> "id"
      [] request[r].pc = "id" -> "ip-id"
      [] OTHER -> "done"

(* History: when a request not refused was counted for its address and for *)
(* its identifier.                                                         *)
NoTimes == [step \in {"ip", "id"} |-> NULL]

-----------------------------------------------------------------------------

Arrive(r, client) ==
    /\ request[r].pc = "new"
    /\ \A earlier \in 1..(r - 1) : request[earlier].pc # "new"
    /\ request' = [request EXCEPT ![r].pc = "ip", ![r].client = client]
    /\ UNCHANGED <<now, bucket, faults>>

Over(b) == b.start <= now - Window

OverLimitByOne(count, key) == count > LimitOf(key) + 1
OverLimit(count, key) == count > LimitOf(key)

Counted(key) ==
    IF bucket[key] = NULL \/ Over(bucket[key]) THEN [start |-> now, count |-> 1, updated |-> now]
    ELSE [bucket[key] EXCEPT !.count = @ + 1, !.updated = now]

(* checkRateLimit: a refused request is counted too, and the other buckets *)
(* are counted whatever this one says.                                     *)
Count(r) ==
    /\ request[r].pc \in Steps
    /\ LET step == request[r].pc
           key == KeyOf(r, step)
           refused == request[r].refused \/ OverLimit(Counted(key).count, key)
       IN
        /\ bucket' = [bucket EXCEPT ![key] = Counted(key)]
        /\ request' = [request EXCEPT
              ![r].pc = Following(r),
              ![r].refused = refused,
              ![r].at = IF refused THEN NoTimes ELSE [k \in DOMAIN @ |-> IF k = step THEN now ELSE @[k]]]
    /\ UNCHANGED <<now, faults>>

(* The database fails: the request is not stopped for that.                *)
FailOpen(r) ==
    /\ request[r].pc \in Steps
    /\ faults < MaxFaults
    /\ faults' = faults + 1
    /\ request' = [request EXCEPT ![r].pc = Following(r)]
    /\ UNCHANGED <<now, bucket>>

Stale(b) == b.updated < now - Retention

(* cleanupStaleRateLimitBuckets.                                           *)
Cleanup ==
    /\ bucket' = [key \in Keys |-> IF bucket[key] # NULL /\ Stale(bucket[key]) THEN NULL ELSE bucket[key]]
    /\ bucket' # bucket
    /\ UNCHANGED <<now, request, faults>>

Tick ==
    /\ now < MaxTime
    /\ now' = now + 1
    /\ UNCHANGED <<bucket, request, faults>>

-----------------------------------------------------------------------------

Init ==
    /\ now = 0
    /\ bucket = [key \in Keys |-> NULL]
    /\ request = [r \in Requests |-> [pc |-> "new", client |-> NULL, refused |-> FALSE,
                                      at |-> NoTimes]]
    /\ faults = 0

Next ==
    \/ \E r \in Requests, client \in Clients : Arrive(r, client)
    \/ \E r \in Requests : Count(r) \/ FailOpen(r)
    \/ Cleanup
    \/ Tick

Spec == Init /\ [][Next]_vars

-----------------------------------------------------------------------------
(* Safety.                                                                 *)

(* The requests that were let through and counted under a key from time t  *)
(* on, within one window.                                                  *)
Admitted(step, key, t) ==
    {r \in Requests : /\ request[r].pc = "done"
                      /\ ~request[r].refused
                      /\ request[r].at[step] # NULL
                      /\ KeyOf(r, step) = key
                      /\ request[r].at[step] \in t..(t + Window - 1)}

(* In no stretch of time as long as a window are more requests let through *)
(* for an identifier than one less than twice the limit, from whichever    *)
(* addresses they come; nor for an address.  (The first of a window starts *)
(* it, so the old window cannot be used up whole at its very end.)         *)
LimitHolds ==
    \A t \in 0..MaxTime, c \in Clients :
        /\ c[2] # NULL => Cardinality(Admitted("id", <<"id", c[2]>>, t)) <= 2 * Limit - 1
        /\ Cardinality(Admitted("ip", <<"ip", c[1]>>, t)) <= 2 * IpLimit - 1
=============================================================================

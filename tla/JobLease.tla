----------------------------- MODULE JobLease -----------------------------
(***************************************************************************)
(* What the durable job tables of the server promise about ownership.      *)
(*                                                                         *)
(* A job (a Stripe event, a notification, a linking or provisioning job)   *)
(* is taken by writing a fresh processing token to its row.  The token is  *)
(* the lease.  Nobody may take a held job before its lease has expired,    *)
(* a lease is never granted twice, and a finished job stays finished.      *)
(* The modules that model one of these tables are shown to implement this  *)
(* specification through a mapping of their row onto the variables below.  *)
(***************************************************************************)
EXTENDS FiniteSets

CONSTANTS Jobs, Tokens, NoToken

VARIABLES
    status,    \* "waiting" | "held" | "done" | "failed"
    holder,    \* the token that holds a held job, NoToken otherwise
    expired,   \* the lease of a held job has run out
    taken      \* tokens ever granted for the job

vars == <<status, holder, expired, taken>>

TypeOK ==
    /\ status \in [Jobs -> {"waiting", "held", "done", "failed"}]
    /\ holder \in [Jobs -> Tokens \cup {NoToken}]
    /\ expired \in [Jobs -> BOOLEAN]
    /\ taken \in [Jobs -> SUBSET Tokens]

Init ==
    /\ status \in [Jobs -> {"waiting", "done"}]
    /\ holder = [j \in Jobs |-> NoToken]
    /\ expired = [j \in Jobs |-> FALSE]
    /\ taken = [j \in Jobs |-> {}]

Outcomes == {"done", "failed", "waiting"}

\* A job nobody holds, or whose lease has expired, is granted to a fresh token.
Take(j, t) ==
    /\ status[j] \in {"waiting", "failed"} \/ (status[j] = "held" /\ expired[j])
    /\ t \in Tokens \ taken[j]
    /\ status' = [status EXCEPT ![j] = "held"]
    /\ holder' = [holder EXCEPT ![j] = t]
    /\ expired' = [expired EXCEPT ![j] = FALSE]
    /\ taken' = [taken EXCEPT ![j] = @ \cup {t}]

Expire(j) ==
    /\ status[j] = "held"
    /\ expired' = [expired EXCEPT ![j] = TRUE]
    /\ UNCHANGED <<status, holder, taken>>

\* The holder settles the job: for good, as failed and open to a retry, or by
\* putting it back.
Settle(j, outcome) ==
    /\ status[j] = "held"
    /\ outcome \in Outcomes
    /\ status' = [status EXCEPT ![j] = outcome]
    /\ holder' = [holder EXCEPT ![j] = NoToken]
    /\ expired' = [expired EXCEPT ![j] = FALSE]
    /\ UNCHANGED taken

\* Expired leases are called in: their jobs are put back, all at once.
ReleaseExpired ==
    LET Back == {j \in Jobs : status[j] = "held" /\ expired[j]}
    IN  /\ status' = [j \in Jobs |-> IF j \in Back THEN "waiting" ELSE status[j]]
        /\ holder' = [j \in Jobs |-> IF j \in Back THEN NoToken ELSE holder[j]]
        /\ expired' = [j \in Jobs |-> j \notin Back /\ expired[j]]
        /\ UNCHANGED taken

Next ==
    \/ ReleaseExpired
    \/ \E j \in Jobs :
       \/ \E t \in Tokens : Take(j, t)
       \/ Expire(j)
       \/ \E outcome \in Outcomes : Settle(j, outcome)

Spec == Init /\ [][Next]_vars
=============================================================================

---------------------------- MODULE SignedRequests ----------------------------
(***************************************************************************)
(* The signed requests of the wallet, which confirm a claim                *)
(*   server/src/middleware/walletClaimHmac.ts                              *)
(*                                                                         *)
(* A request carries a timestamp of the wallet's clock, a nonce and a      *)
(* signature over both.  The middleware checks the timestamp, then the     *)
(* signature, and records the nonce before it lets the request through; a  *)
(* job deletes old nonces.  The network delivers copies of a request as    *)
(* often and as late as it likes.  The headers' form is left out.          *)
(***************************************************************************)
EXTENDS Integers

CONSTANTS
    Messages,   \* requests the wallet signs, each with a nonce of its own
    Copies,     \* deliveries, numbered in the order of their arrival
    Tolerance,  \* TIMESTAMP_TOLERANCE_SECONDS
    Retention,  \* NONCE_RETENTION_MS
    RunTime,    \* what the platform lets one invocation run
    MaxTime,    \* bound on the clock
    NULL

(* The retention of a day is far more than two tolerances of five minutes  *)
(* and the few seconds of an invocation.                                   *)
ASSUME TimesAssumption ==
    /\ {Tolerance, Retention, RunTime, MaxTime} \subseteq Nat
    /\ Retention >= 2 * Tolerance + RunTime
    /\ NULL \notin Int

VARIABLES
    now,        \* the server's clock
    stamp,      \* the timestamp a message was signed with, or NULL
    used,       \* wallet_claim_api_nonces: when the nonce was recorded, or NULL
    copy,       \* the deliveries
    taken       \* history: how often a message was let through

vars == <<now, stamp, used, copy, taken>>

-----------------------------------------------------------------------------

(* The wallet's clock may differ from the server's.                        *)
Sign(m) ==
    /\ stamp[m] = NULL
    /\ \E t \in 0..MaxTime : stamp' = [stamp EXCEPT ![m] = t]
    /\ UNCHANGED <<now, used, copy, taken>>

InTolerance(t) == t - now <= Tolerance /\ now - t <= Tolerance

(* Up to the comparison of the signatures nothing is written.              *)
Arrive(c, m) ==
    /\ copy[c].pc = "away"
    /\ \A earlier \in 1..(c - 1) : copy[earlier].pc # "away"
    /\ stamp[m] # NULL
    /\ copy' = [copy EXCEPT ![c] = [pc |-> IF InTolerance(stamp[m]) THEN "signed" ELSE "refused",
                                    msg |-> m, at |-> now]]
    /\ UNCHANGED <<now, stamp, used, taken>>

(* The feature is off, credentials are missing or the signature is wrong.  *)
Refuse(c) ==
    /\ copy[c].pc = "signed"
    /\ copy' = [copy EXCEPT ![c].pc = "refused"]
    /\ UNCHANGED <<now, stamp, used, taken>>

(* The unique key of the nonce decides.                                    *)
Record(c) ==
    /\ copy[c].pc = "signed"
    /\ LET m == copy[c].msg IN
       \/ /\ used[m] = NULL
          /\ used' = [used EXCEPT ![m] = now]
          /\ taken' = [taken EXCEPT ![m] = @ + 1]
          /\ copy' = [copy EXCEPT ![c].pc = "taken"]
       \/ /\ used[m] # NULL
          /\ copy' = [copy EXCEPT ![c].pc = "refused"]
          /\ UNCHANGED <<used, taken>>
    /\ UNCHANGED <<now, stamp>>

StaleEarly(t) == t <= now - Retention
Stale(t) == t < now - Retention

(* cleanupWalletClaimApiNonces.                                            *)
Cleanup ==
    /\ used' = [m \in Messages |-> IF used[m] # NULL /\ Stale(used[m]) THEN NULL ELSE used[m]]
    /\ used' # used
    /\ UNCHANGED <<now, stamp, copy, taken>>

(* An invocation that runs longer is ended by the platform.                *)
Tick ==
    /\ now < MaxTime
    /\ \A c \in Copies : copy[c].pc = "signed" => now < copy[c].at + RunTime
    /\ now' = now + 1
    /\ UNCHANGED <<stamp, used, copy, taken>>

-----------------------------------------------------------------------------

Init ==
    /\ now = 0
    /\ stamp = [m \in Messages |-> NULL]
    /\ used = [m \in Messages |-> NULL]
    /\ copy = [c \in Copies |-> [pc |-> "away", msg |-> NULL, at |-> 0]]
    /\ taken = [m \in Messages |-> 0]

Next ==
    \/ \E m \in Messages : Sign(m)
    \/ \E c \in Copies, m \in Messages : Arrive(c, m)
    \/ \E c \in Copies : Refuse(c) \/ Record(c)
    \/ Cleanup
    \/ Tick

Spec == Init /\ [][Next]_vars

-----------------------------------------------------------------------------
(* Safety.                                                                 *)

TypeOK ==
    /\ now \in Nat
    /\ stamp \in [Messages -> Nat \union {NULL}]
    /\ used \in [Messages -> Nat \union {NULL}]
    /\ copy \in [Copies -> [pc : {"away", "signed", "refused", "taken"}, msg : Messages \union {NULL}, at : Nat]]
    /\ \A c \in Copies : copy[c].pc # "away" => copy[c].msg \in Messages
    /\ taken \in [Messages -> Nat]

(* However often and however late the network delivers a signed request,   *)
(* and although recorded nonces are deleted, it is let through at most     *)
(* once: when its nonce is forgotten its timestamp is out of tolerance,    *)
(* even for a copy that passed that check a moment ago.                    *)
AcceptedOnce == \A m \in Messages : taken[m] <= 1
=============================================================================

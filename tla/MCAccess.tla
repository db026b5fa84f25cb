------------------------------- MODULE MCAccess -------------------------------
(***************************************************************************)
(* Instances, for TLC, of what guards the doors of the market: the lock of *)
(* an account, the limits on requests, the signed requests of the wallet,  *)
(* the registration of wallets, the accounts of the administration and the *)
(* tree of agencies with the accounts that log in to it.                   *)
(* They share the clock and nothing else, so each behaviour is one of them *)
(* (scope, chosen at the start) and the others stand still.                *)
(***************************************************************************)
EXTENDS SignedRequests

CONSTANTS
    Logins, MaxAttempts, LockTime, LockMaxTime,
    Requests, Clients, Ip1, Ip2, Name, Limit, IpLimit, Window, KeepBuckets, MaxFaults, LimitMaxTime,
    Pages, Wallets, Cards, Collectible, MaxLinks, MaxChallenges,
    Users, Founders, AdminRequests,
    Agencies, Agents, Upserts, TreeScopes, a1, a2, a3, u1, None, Keep

VARIABLES
    scope, attempts, login, bucket, request, faults,
    wallet, challenges, links, page, card, fulfil, shown,
    account, session, adminRequest,
    task, agency, user, upsert, sync, sso, unchecked

lockVars == <<attempts, login>>
limitVars == <<bucket, request, faults>>
nonceVars == <<stamp, used, copy, taken>>
walletVars == <<wallet, challenges, links, page, card, fulfil, shown>>
adminVars == <<account, session, adminRequest>>
treeVars == <<task, agency, user, upsert, sync, sso, unchecked>>
allVars == <<scope, now, lockVars, limitVars, nonceVars, walletVars, adminVars, treeVars>>

Locks == INSTANCE LoginAttempts WITH MaxTime <- LockMaxTime
Limits == INSTANCE RateLimits WITH
    Retention <- KeepBuckets, MaxTime <- LimitMaxTime
Wallet == INSTANCE WalletRegistration WITH Addresses <- Wallets
Admins == INSTANCE AdminAccounts WITH Requests <- AdminRequests, request <- adminRequest

TreeCases == INSTANCE MCAgencies WITH
    Users <- Agents, Scopes <- {}, scope <- task
Tree == INSTANCE Agencies WITH Users <- Agents, Scopes <- TreeScopes, scope <- task

(* What the configurations give Clients and TreeScopes.                    *)
MCClients == {<<Ip1, Name>>, <<Ip2, Name>>}
MCTrees == TreeCases!TreeAndLogins

ASSUME AgenciesAssumption == Tree!NamesAssumption /\ Tree!ScopeAssumption
ASSUME LocksAssumption == Locks!LockAssumption
ASSUME LimitsAssumption == Limits!LimitAssumption

AccessInit ==
    /\ scope \in {"lock", "limit", "nonce", "wallet", "admin", "tree"}
    /\ Init /\ Locks!Init /\ Limits!Init /\ Wallet!Init /\ Admins!Init /\ Tree!Init
    /\ scope # "tree" => task = TreeCases!LoginScope

AccessNext ==
    /\ UNCHANGED scope
    /\ \/ scope = "lock" /\ Locks!Next /\ UNCHANGED <<limitVars, nonceVars, walletVars, adminVars, treeVars>>
       \/ scope = "limit" /\ Limits!Next /\ UNCHANGED <<lockVars, nonceVars, walletVars, adminVars, treeVars>>
       \/ scope = "nonce" /\ Next /\ UNCHANGED <<lockVars, limitVars, walletVars, adminVars, treeVars>>
       \/ scope = "wallet" /\ Wallet!Next /\ UNCHANGED <<now, lockVars, limitVars, nonceVars, adminVars, treeVars>>
       \/ scope = "admin" /\ Admins!Next /\ UNCHANGED <<now, lockVars, limitVars, nonceVars, walletVars, treeVars>>
       \/ scope = "tree" /\ Tree!Next /\ UNCHANGED <<now, lockVars, limitVars, nonceVars, walletVars, adminVars>>

AccessSpec == AccessInit /\ [][AccessNext]_allVars

(* A lock in force on an account is lifted only by the right password or   *)
(* the reset of a request that had read the row before the lock was set.   *)
LockHolds == [][Locks!LockStep]_lockVars

(* No identifier and no address gets more through the limits within a      *)
(* window than one less than twice its limit.                              *)
LimitHolds == Limits!LimitHolds

(* A card waits beside a registered wallet only if its payment and the     *)
(* registration overlapped.                                                *)
WaitingIsExplained == Wallet!WaitingIsExplained

(* A cycle of agencies is made only by a link that was not checked.        *)
CyclesAreUnchecked == Tree!CyclesAreUnchecked

(* An administrator's account never becomes an agency's.                   *)
AdministratorsStay == Tree!AdministratorsStay

(* The last administrator is never demoted or deleted.                     *)
AnAdminRemains == Admins!AnAdminRemains
=============================================================================

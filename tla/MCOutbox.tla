------------------------------ MODULE MCOutbox ------------------------------
(***************************************************************************)
(* Instances, for TLC, of the two users of the integration outbox: the     *)
(* cards of a claim and the rewards and entitlements of an order line.     *)
(* They share no rows, so each behaviour is one of them; scope, chosen at  *)
(* the start, says which and what may happen in it, and the other stands   *)
(* still.                                                                  *)
(***************************************************************************)
EXTENDS CollectibleDelivery, TLC

CONSTANTS
    Rules, OveRules, PerQuantity, NeedsId, Editable, Quantity, Units,
    Pushers, Refunds,          \* the senders of rewards and the handlers of the refund
    PointAttempts, PointCrashes, PointEnv, NULL,
    Points, Bonus, School,     \* rules: two for the wallet, one for another system
    Sender2, Refund2           \* those that some scopes do without

VARIABLES
    scope, purchase, resolved, rule, dry, outbox, rows, refund, pusher, credit, back, arrived, killed

cardVars == vars
pointVars == <<purchase, resolved, rule, dry, outbox, rows, refund, pusher, credit, back, arrived, killed>>
allVars == <<scope, cardVars, pointVars>>

Rewards == INSTANCE RewardEvents WITH
    Senders <- Pushers, MaxAttempts <- PointAttempts, CrashLimit <- PointCrashes, Env <- PointEnv,
    order <- purchase, event <- outbox, sender <- pusher, holds <- arrived, crashes <- killed

ASSUME RewardsAssumption == Rewards!RewardAssumption

\* lease: two senders of one rule; twice: its refund is handled by two; lines:
\* two rules of the wallet; edits: a rule is edited; rollout: the buyer's id is
\* found and the stage raised, for a rule of either kind.
Enabled == {r \in Rules : rule[r].enabled}
PointInit ==
    /\ Rewards!Init
    /\ CASE scope = "rollout" -> Enabled \in {{Points}, {School}}
         [] scope = "lines" -> Enabled = {Points, Bonus} /\ ~dry
         [] OTHER -> Enabled = {Points} /\ ~dry

OnePusher == pusher'[Sender2] = Rewards!Idle
OneRefund == refund'[Refund2] = "new"
Still == rule' = rule /\ dry' = dry /\ resolved' = resolved
Alive == killed' = killed /\ \A e \in DOMAIN outbox' : ~outbox'[e].stale
ByCron ==
    \A e \in DOMAIN outbox :
        outbox'[e].status = "processing" => outbox[e].status = "processing" \/ Rewards!Dispatchable(e)
PointNext ==
    /\ Rewards!Next
    /\ CASE scope = "lease" -> OneRefund /\ Still
         [] scope = "twice" -> OnePusher /\ Still
         [] scope = "lines" -> OnePusher /\ OneRefund /\ ByCron /\ Alive /\ Still
         [] scope = "edits" -> OnePusher /\ OneRefund /\ ByCron /\ Alive /\ dry' = dry /\ resolved' = resolved
         [] OTHER -> OnePusher /\ OneRefund /\ rule' = rule

OutboxInit == scope \in {"cards", "lease", "twice", "lines", "edits", "rollout"} /\ Init /\ PointInit

OutboxNext ==
    /\ UNCHANGED scope
    /\ \/ scope = "cards" /\ Next /\ UNCHANGED pointVars
       \/ scope # "cards" /\ PointNext /\ UNCHANGED cardVars

OutboxSpec == OutboxInit /\ [][OutboxNext]_allVars

\* Cards and senders are told apart only by equality (tokens are chosen).
Symmetry == Permutations(Issues) \cup Permutations(Senders)

(* The recorded transactions and the wallet's credits agree.               *)
LedgerMatchesWallet == Rewards!LedgerMatchesWallet

(* A recorded reversal leaves no credit of its rule with the buyer.        *)
PointsComeBack == Rewards!PointsComeBack

(* No grant has two reversals on record.                                   *)
ReversedOnce == Rewards!ReversedOnce
=============================================================================

---------------------------- MODULE AdminAccounts ----------------------------
(***************************************************************************)
(* The accounts of the administration and their sessions                   *)
(*   server/src/routes/admin/adminUsers.ts, server/src/middleware/auth.ts, *)
(*   client/src/pages/admin/AdminUsersPage.tsx                             *)
(*                                                                         *)
(* A session is a snapshot of the account's role and session version.  A   *)
(* request reads the account of its session, then reads its target, then   *)
(* writes, each a statement of its own; the platform may end it between    *)
(* two of them.  Mail is left to Notifications; only whether the setup     *)
(* mail has been asked for is kept.                                        *)
(***************************************************************************)
EXTENDS Integers

CONSTANTS
    Users,
    Founders,       \* the administrators the system starts with
    Requests,
    NULL

Roles == {"admin", "admin_viewer", "staff"}     \* ADMIN_ROLES
Ops == [kind : {"role"}, target : Users, role : Roles]
       \union [kind : {"logout", "resend", "delete"}, target : Users]
       \union [kind : {"create"}, target : Users, role : Roles]

VARIABLES
    account,    \* users: role (NULL before creation, "deleted"), sessionVersion, setup mail asked for
    session,    \* per user: the snapshot in the cookie, or NULL
    request     \* per request: its step, its actor and what it asks for

vars == <<account, session, request>>

Goto(q, pc) == request' = [request EXCEPT ![q].pc = pc]
Op(q) == request[q].op
Target(q) == account[request[q].op.target]

-----------------------------------------------------------------------------

Login(u) ==
    /\ account[u].role \in Roles
    /\ session' = [session EXCEPT ![u] = [role |-> account[u].role, version |-> account[u].version]]
    /\ session' # session
    /\ UNCHANGED <<account, request>>

(* requireAuth compares the snapshot with the account; requireAdmin,       *)
(* restrictAdminViewerToReadOnly and forbidStaff leave full administrators.*)
Passes(u) ==
    /\ session[u] # NULL
    /\ session[u].role = account[u].role
    /\ session[u].version = account[u].version
    /\ account[u].role = "admin"

Authorise(q, actor, op) ==
    /\ request[q].pc = "new"
    /\ Passes(actor)
    /\ request' = [request EXCEPT ![q] = [pc |-> "find", actor |-> actor, op |-> op]]
    /\ UNCHANGED <<account, session>>

NotOneself(q) == Op(q).kind \in {"role", "delete"} => Op(q).target # request[q].actor

Possible(q) == IF Op(q).kind = "create" THEN Target(q).role = NULL ELSE Target(q).role \in Roles

(* The target is read and checked; for a new account, that there is none.  *)
Find(q) ==
    /\ request[q].pc = "find"
    /\ IF Possible(q) /\ NotOneself(q)
       THEN Goto(q, IF Op(q).kind = "resend" THEN "invite" ELSE "write")
       ELSE Goto(q, "refused")
    /\ UNCHANGED <<account, session>>

(* The write names the account only by its id; an account deleted or       *)
(* created in between makes it fail.                                       *)
Write(q) ==
    /\ request[q].pc = "write"
    /\ IF Possible(q)
       THEN /\ account' = [account EXCEPT ![Op(q).target] =
                  CASE Op(q).kind = "role" -> [@ EXCEPT !.role = Op(q).role, !.version = @ + 1]
                    [] Op(q).kind = "logout" -> [@ EXCEPT !.version = @ + 1]
                    [] Op(q).kind = "delete" -> [@ EXCEPT !.role = "deleted"]
                    [] Op(q).kind = "create" -> [role |-> Op(q).role, version |-> 0, invited |-> FALSE]]
            /\ Goto(q, IF Op(q).kind = "create" THEN "invite" ELSE "done")
       ELSE UNCHANGED account /\ Goto(q, "failed")
    /\ UNCHANGED session

(* enqueueNotification: after the account, in no transaction with it.      *)
Invite(q) ==
    /\ request[q].pc = "invite"
    /\ account' = [account EXCEPT ![Op(q).target].invited = TRUE]
    /\ Goto(q, "done")
    /\ UNCHANGED <<session>>

Crash(q) ==
    /\ request[q].pc \in {"find", "write", "invite"}
    /\ Goto(q, "ended")
    /\ UNCHANGED <<account, session>>

-----------------------------------------------------------------------------

Init ==
    /\ account = [u \in Users |-> [role |-> IF u \in Founders THEN "admin" ELSE NULL,
                                   version |-> 0, invited |-> u \in Founders]]
    /\ session = [u \in Users |-> NULL]
    /\ request = [q \in Requests |-> [pc |-> "new", actor |-> NULL, op |-> NULL]]

Next ==
    \/ \E u \in Users : Login(u)
    \/ \E q \in Requests, actor \in Users, op \in Ops : Authorise(q, actor, op)
    \/ \E q \in Requests : Find(q) \/ Write(q) \/ Invite(q) \/ Crash(q)

Spec == Init /\ [][Next]_vars

-----------------------------------------------------------------------------
(* Safety.                                                                 *)

(* The comment of the role route promises that the last administrator is   *)
(* never demoted, because nobody can change their own role.                *)
AnAdminRemains == \E u \in Users : account[u].role = "admin"
=============================================================================

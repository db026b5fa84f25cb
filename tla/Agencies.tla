------------------------------ MODULE Agencies ------------------------------
(***************************************************************************)
(* The tree of agencies and the accounts that log in to it.  Agencies are  *)
(* written by three paths that do not know of each other: the agency       *)
(* system's upsert, the daily pull of its whole hierarchy, and the first   *)
(* single sign-on of an agency.                                            *)
(*                                                                         *)
(*   server/src/modules/agencies/                                          *)
(*   server/src/services/agencyHierarchySync.ts, externalAgencySystem.ts   *)
(*   server/src/services/agencySso.ts                                      *)
(*   server/src/routes/admin/adminUsers.ts, routes/auth.ts (register)      *)
(*   server/src/routes/mypage.ts (the application)                         *)
(*                                                                         *)
(* An upsert is one read-committed transaction.  Its steps here are the    *)
(* resolution of the parent, the writes of agencies with the reads for the *)
(* login (from there on it locks the rows it wrote), and the commit.  The  *)
(* sync and the sign-on have no transaction: each step is one statement or *)
(* one check with the write that follows it.                               *)
(*                                                                         *)
(* Agencies are named by external_id, users by e-mail address, both        *)
(* unique.  Names, rates and codes are left out.  The bound is on what     *)
(* the outside asks for: a scope is the requests, trees and tokens of the  *)
(* agency system and the people that may open accounts.                    *)
(***************************************************************************)
EXTENDS Integers, FiniteSets, Functions

CONSTANTS
    Agencies,   \* external ids
    Users,      \* e-mail addresses
    Upserts,    \* concurrent upsert requests
    Scopes,     \* what may be asked for
    None,       \* null
    Keep        \* a field that is not given

Ids == Agencies \cup {None}
Emails == Users \cup {None}

\* UpsertAgencyRequest: a parent may be given, cleared (null or '') or absent.
InputType == [id: Agencies, parent: Ids \cup {Keep}, login: Emails,
              contact: Emails, active: BOOLEAN \cup {Keep}]

\* A node of the flattened hierarchy; a code the tree does not have is not in
\* its domain.
NodeType == [parent: Ids, active: BOOLEAN, contact: Emails]

\* Assumed where the constants get their values.
NamesAssumption ==
    /\ None \notin Agencies \cup Users \cup {Keep}
    /\ Keep \notin Agencies \cup BOOLEAN
ScopeAssumption ==
    \A s \in Scopes :
        /\ s.inputs \subseteq InputType
        /\ s.tokens \subseteq Agencies \X Emails
        /\ s.people \subseteq Users
        /\ \A t \in s.trees : \E codes \in SUBSET Agencies :
             /\ t \in [codes -> NodeType]
             /\ \A a \in codes : t[a].parent \in (codes \ {a}) \cup {None}

VARIABLES
    scope,       \* the scope of this behaviour
    agency,      \* the agencies rows
    user,        \* the users rows: role, agency, application, referrer
    upsert,      \* upsert[p]: an upsert's transaction
    sync,        \* the hierarchy sync
    sso,         \* a single sign-on
    unchecked    \* agencies whose parent was last set without the cycle check

vars == <<scope, agency, user, upsert, sync, sso, unchecked>>

Idle == [pc |-> "idle"]
NoAgency == [exists |-> FALSE, parent |-> None, pending |-> None,
             active |-> FALSE, contact |-> None]
NoUser == [role |-> "none", agency |-> None, applied |-> FALSE,
           referrer |-> None]

Exists(a) == agency[a].exists
HasLogin(a) == \E u \in Users : user[u].role = "agency" /\ user[u].agency = a

AgencyRow == [exists: BOOLEAN, parent: Ids, pending: Ids, active: BOOLEAN, contact: Emails]
UserRow == [role: {"none", "user", "agency", "staff"}, agency: Ids, applied: BOOLEAN, referrer: Ids]
AssignmentType == [parent: Ids \cup {Keep}, pending: Ids \cup {Keep}]
UpsertType ==
    {Idle}
    \cup [pc: {"resolved"}, in: InputType, known: BOOLEAN, set: AssignmentType]
    \cup [pc: {"saved"}, in: InputType, set: AssignmentType, adopted: SUBSET Agencies,
          login: {"nothing", "promote", "create"}]

\* Rows are whole, point at agencies that exist and never at themselves.
TypeOK ==
    /\ scope \in Scopes
    /\ agency \in [Agencies -> AgencyRow]
    /\ \A a \in Agencies :
         /\ agency[a].parent # a /\ agency[a].pending # a
         /\ ~Exists(a) => agency[a] = NoAgency
         /\ agency[a].parent # None => Exists(agency[a].parent)
    /\ user \in [Users -> UserRow]
    /\ \A u \in Users :
         /\ user[u].role = "none" => user[u] = NoUser
         /\ user[u].role = "agency" <=> user[u].agency # None
         /\ user[u].agency # None => Exists(user[u].agency)
         /\ user[u].referrer # None => Exists(user[u].referrer)
    /\ upsert \in [Upserts -> UpsertType]
    /\ sync \in {Idle} \cup [pc: {"nodes", "parents", "users"}, tree: scope.trees,
                             todo: SUBSET (Agencies \cup Users)]
    /\ sso \in {Idle} \cup [pc: {"create", "login", "promote", "register"},
                            agency: Agencies, email: Emails, contact: Emails]
    /\ unchecked \subseteq {a \in Agencies : Exists(a)}

Init ==
    /\ scope \in Scopes
    /\ agency = [a \in Agencies |-> NoAgency]
    /\ user = [u \in Users |-> NoUser]
    /\ upsert = [p \in Upserts |-> Idle]
    /\ sync = Idle
    /\ sso = Idle
    /\ unchecked = {}

\* wouldCreateCycle follows parents from an agency; Above is what it meets: what
\* is in every set that holds the agency and the parents of its members.
Above(a) ==
    {b \in Agencies : \A met \in SUBSET Agencies :
        a \in met /\ (\A c \in met : agency[c].parent \in met \cup {None}) => b \in met}

\* Following parents from here never ends.
Endless(a) == \A b \in Above(a) : agency[b].parent # None

-----------------------------------------------------------------------------
(* upsertAgency *)

\* resolveParentAssignment: what becomes of parent and pending.
Assignment(in) ==
    CASE in.parent = None -> [parent |-> None, pending |-> None]
      [] in.parent \in Agencies /\ Exists(in.parent) ->
            [parent |-> in.parent, pending |-> None]
      [] in.parent \in Agencies /\ ~Exists(in.parent) ->
            [parent |-> None, pending |-> in.parent]
      [] in.parent = Keep ->
            LET referrer == IF in.login = None THEN None
                            ELSE user[in.login].referrer
            IN [parent |-> IF Exists(in.id) \/ referrer = None THEN Keep
                           ELSE referrer,
                pending |-> Keep]

\* Mutation: the check looks one step up only.
AcceptedByParent(in) ==
    /\ in.parent # in.id
    /\ (Exists(in.id) /\ in.parent \in Agencies /\ Exists(in.parent)) =>
         agency[in.parent].parent # in.id /\ ~Endless(in.parent)

\* A known agency is not put under one of its descendants.  (If the new parent
\* sits below a cycle the walk never returns, the transaction times out.)
Accepted(in) ==
    /\ in.parent # in.id
    /\ (Exists(in.id) /\ in.parent \in Agencies /\ Exists(in.parent)) =>
         in.id \notin Above(in.parent) /\ ~Endless(in.parent)

Resolve(p) ==
    /\ upsert[p].pc = "idle"
    /\ \E in \in scope.inputs :
         /\ Accepted(in)
         /\ upsert' = [upsert EXCEPT ![p] =
                [pc |-> "resolved", in |-> in, known |-> Exists(in.id),
                 set |-> Assignment(in)]]
    /\ UNCHANGED <<scope, agency, user, sync, sso, unchecked>>

Locked(a) == \E p \in Upserts :
    upsert[p].pc = "saved" /\ a \in upsert[p].adopted \cup {upsert[p].in.id}
RollBack(p) == upsert' = [upsert EXCEPT ![p] = Idle]

\* Mutant: the accounts to refuse are listed, and staff is forgotten.
ProvisionListed(in) ==
    IF in.login = None \/ HasLogin(in.id) THEN "nothing"
    ELSE IF user[in.login].role = "none" THEN "create"
    ELSE IF user[in.login].role # "agency" THEN "promote"
    ELSE "conflict"

\* provisionAgencyAccount: what is to be done for the login address.
Provision(in) ==
    IF in.login = None \/ HasLogin(in.id) THEN "nothing"
    ELSE IF user[in.login].role = "none" THEN "create"
    ELSE IF user[in.login].role = "user" THEN "promote"
    ELSE "conflict"

\* The agency is inserted or updated, the agencies waiting for it are adopted
\* (both visible to others from the commit on), then the login is looked up.  An
\* agency somebody else inserted meanwhile, or a login address in use by another
\* kind of account, undoes the transaction.
Save(p) ==
    LET in == upsert[p].in
        adopted == {c \in Agencies \ {in.id} : agency[c].pending = in.id}
    IN /\ upsert[p].pc = "resolved"
       /\ \A a \in adopted \cup {in.id} : ~Locked(a)
       /\ IF (Exists(in.id) /\ ~upsert[p].known) \/ Provision(in) = "conflict"
          THEN RollBack(p)
          ELSE upsert' = [upsert EXCEPT ![p] =
                 [pc |-> "saved", in |-> in, set |-> upsert[p].set,
                  adopted |-> adopted, login |-> Provision(in)]]
       /\ UNCHANGED <<scope, agency, user, sync, sso, unchecked>>

\* undefined leaves a field of an existing row as it is.
Given(value, old) == IF value = Keep THEN old ELSE value

Written(in, set, old) ==
    [exists |-> TRUE,
     parent |-> Given(set.parent, old.parent),
     pending |-> Given(set.pending, old.pending),
     active |-> Given(in.active, IF old.exists THEN old.active ELSE TRUE),
     contact |-> IF in.contact = None THEN old.contact ELSE in.contact]

\* promoteUserToAgency writes the user by id; createAgencyLoginUser inserts.
Promoted(old, a) == [old EXCEPT !.role = "agency", !.agency = a]
NewLogin(a) == [NoUser EXCEPT !.role = "agency", !.agency = a]

Commit(p) ==
    LET in == upsert[p].in
        set == upsert[p].set
        adopted == upsert[p].adopted
        login == upsert[p].login
    IN /\ upsert[p].pc = "saved"
       /\ login = "create" => user[in.login].role = "none"
       /\ agency' = [a \in Agencies |->
            IF a = in.id THEN Written(in, set, agency[a])
            ELSE IF a \in adopted
                 THEN [agency[a] EXCEPT !.parent = in.id, !.pending = None]
            ELSE agency[a]]
       /\ unchecked' = (IF set.parent = Keep THEN unchecked
                        ELSE unchecked \ {in.id}) \cup adopted
       /\ user' = CASE login = "nothing" -> user
                    [] login = "promote" ->
                         [user EXCEPT ![in.login] = Promoted(@, in.id)]
                    [] login = "create" ->
                         [user EXCEPT ![in.login] = NewLogin(in.id)]
       /\ RollBack(p)
       /\ UNCHANGED <<scope, sync, sso>>

\* The address was registered meanwhile, the invocation dies, a deadlock: the
\* database forgets the transaction.
Undo(p) ==
    /\ upsert[p].pc # "idle"
    /\ RollBack(p)
    /\ UNCHANGED <<scope, agency, user, sync, sso, unchecked>>

-----------------------------------------------------------------------------
(* syncAgencyHierarchyFromExternalSystem *)

SyncStart ==
    /\ sync.pc = "idle"
    /\ \E t \in scope.trees :
         sync' = [pc |-> "nodes", tree |-> t, todo |-> DOMAIN t]
    /\ UNCHANGED <<scope, agency, user, upsert, sso, unchecked>>

\* First pass: every agency of the tree is inserted or updated; its parent, and
\* the agencies that wait for it, are not touched.
SyncNode(a) ==
    /\ sync.pc = "nodes" /\ a \in sync.todo /\ ~Locked(a)
    /\ agency' = [agency EXCEPT
                    ![a].exists = TRUE,
                    ![a].active = sync.tree[a].active,
                    ![a].contact = sync.tree[a].contact]
    /\ sync' = [sync EXCEPT !.todo = @ \ {a}]
    /\ UNCHANGED <<scope, user, upsert, sso, unchecked>>

SyncNodesDone ==
    /\ sync.pc = "nodes" /\ sync.todo = {}
    /\ sync' = [sync EXCEPT !.pc = "parents",
         !.todo = {a \in DOMAIN sync.tree : sync.tree[a].parent # None}]
    /\ UNCHANGED <<scope, agency, user, upsert, sso, unchecked>>

\* Second pass: the parent is set as the tree has it.
SyncParent(a) ==
    /\ sync.pc = "parents" /\ a \in sync.todo /\ ~Locked(a)
    /\ IF agency[a].parent = sync.tree[a].parent
       THEN UNCHANGED <<agency, unchecked>>
       ELSE /\ agency' = [agency EXCEPT ![a].parent = sync.tree[a].parent]
            /\ unchecked' = unchecked \cup {a}
    /\ sync' = [sync EXCEPT !.todo = @ \ {a}]
    /\ UNCHANGED <<scope, user, upsert, sso>>

\* The members whose applications are open are listed once.
SyncList ==
    /\ sync.pc = "parents" /\ sync.todo = {}
    /\ sync' = [sync EXCEPT !.pc = "users",
         !.todo = {u \in Users : user[u].role = "user" /\ user[u].applied}]
    /\ UNCHANGED <<scope, agency, user, upsert, sso, unchecked>>

\* findApprovedNodeByEmail
Approving(u) == {a \in DOMAIN sync.tree :
                    sync.tree[a].active /\ sync.tree[a].contact = u}

\* The member is written by id: whatever became of it since the list was read.
SyncApprove(u) ==
    /\ sync.pc = "users" /\ u \in sync.todo
    /\ IF Approving(u) = {} THEN UNCHANGED user
       ELSE \E a \in Approving(u) :
              user' = [user EXCEPT ![u] = [Promoted(@, a) EXCEPT !.applied = FALSE]]
    /\ sync' = [sync EXCEPT !.todo = @ \ {u}]
    /\ UNCHANGED <<scope, agency, upsert, sso, unchecked>>

\* The end, or an error half-way.
SyncStop ==
    /\ sync.pc # "idle"
    /\ sync' = Idle
    /\ UNCHANGED <<scope, agency, user, upsert, sso, unchecked>>

-----------------------------------------------------------------------------
(* verifyAndConsumeAgencySsoToken *)

\* A token of agency a with an address (or none) is accepted once; an agency that
\* is stopped is refused.
SsoStart(a, email) ==
    /\ sso.pc = "idle" /\ <<a, email>> \in scope.tokens
    /\ Exists(a) => agency[a].active
    /\ sso' = [pc |-> IF Exists(a) THEN "login" ELSE "create",
               agency |-> a, email |-> email, contact |-> agency[a].contact]
    /\ UNCHANGED <<scope, agency, user, upsert, sync, unchecked>>

\* An agency that was not found is inserted, or read if somebody else did that.
SsoCreateAgency ==
    LET a == sso.agency
    IN /\ sso.pc = "create" /\ ~Locked(a)
       /\ agency' = IF Exists(a) THEN agency
                    ELSE [agency EXCEPT ![a].exists = TRUE, ![a].active = TRUE]
       /\ sso' = [sso EXCEPT !.pc = "login", !.contact = agency[a].contact]
       /\ UNCHANGED <<scope, user, upsert, sync, unchecked>>

\* resolveOrProvisionLoginUser.  A member's account becomes the agency's login
\* only if the agency's contact address, as read above, is the member's.
SsoLogin ==
    LET a == sso.agency
        u == sso.email
        next == CASE HasLogin(a) \/ u = None -> "idle"
                  [] ~HasLogin(a) /\ u # None /\ user[u].role = "none" -> "register"
                  [] ~HasLogin(a) /\ u # None /\ user[u].role = "user"
                       /\ sso.contact = u -> "promote"
                  [] OTHER -> "idle"
    IN /\ sso.pc = "login"
       /\ sso' = IF next = "idle" THEN Idle ELSE [sso EXCEPT !.pc = next]
       /\ UNCHANGED <<scope, agency, user, upsert, sync, unchecked>>

\* The member is written by id; an address registered meanwhile is left alone
\* (and its account is the one that is logged in).
SsoPromote ==
    /\ sso.pc = "promote"
    /\ user' = [user EXCEPT ![sso.email] =
                   [Promoted(@, sso.agency) EXCEPT !.applied = FALSE]]
    /\ sso' = Idle
    /\ UNCHANGED <<scope, agency, upsert, sync, unchecked>>

SsoRegister ==
    /\ sso.pc = "register"
    /\ user' = IF user[sso.email].role = "none"
               THEN [user EXCEPT ![sso.email] = NewLogin(sso.agency)]
               ELSE user
    /\ sso' = Idle
    /\ UNCHANGED <<scope, agency, upsert, sync, unchecked>>

-----------------------------------------------------------------------------
(* Accounts *)

Register(u) ==
    /\ user[u].role = "none" /\ u \in scope.people
    /\ user' = [user EXCEPT ![u].role = "user"]
    /\ UNCHANGED <<scope, agency, upsert, sync, sso, unchecked>>

\* POST /admin-users takes an address nobody has; DELETE takes administrators.
AddStaff(u) ==
    /\ user[u].role = "none" /\ u \in scope.people
    /\ user' = [user EXCEPT ![u].role = "staff"]
    /\ UNCHANGED <<scope, agency, upsert, sync, sso, unchecked>>

RemoveStaff(u) ==
    /\ user[u].role = "staff"
    /\ user' = [user EXCEPT ![u] = NoUser]
    /\ UNCHANGED <<scope, agency, upsert, sync, sso, unchecked>>

\* A member applies to become an agency; the candidate has been sent.
Apply(u) ==
    /\ user[u].role = "user" /\ ~user[u].applied
    /\ user' = [user EXCEPT ![u].applied = TRUE]
    /\ UNCHANGED <<scope, agency, upsert, sync, sso, unchecked>>

\* The first referred purchase attaches a member to an agency for good.
Attach(u, a) ==
    /\ user[u].role # "none" /\ user[u].referrer = None /\ Exists(a)
    /\ user' = [user EXCEPT ![u].referrer = a]
    /\ UNCHANGED <<scope, agency, upsert, sync, sso, unchecked>>

Next ==
    \/ \E p \in Upserts : Resolve(p) \/ Save(p) \/ Commit(p) \/ Undo(p)
    \/ SyncStart \/ SyncNodesDone \/ SyncList \/ SyncStop
    \/ \E a \in Agencies : SyncNode(a) \/ SyncParent(a)
    \/ \E u \in Users : SyncApprove(u)
    \/ \E a \in Agencies, e \in Emails : SsoStart(a, e)
    \/ SsoCreateAgency \/ SsoLogin \/ SsoPromote \/ SsoRegister
    \/ \E u \in Users : Register(u) \/ AddStaff(u) \/ RemoveStaff(u) \/ Apply(u)
    \/ \E u \in Users, a \in Agencies : Attach(u, a)

Spec == Init /\ [][Next]_vars

-----------------------------------------------------------------------------
(* Properties *)

\* The cycle check does what it is for: agencies whose parents were all set by
\* requests that passed it, or given to them when they were created, never form a
\* cycle, however those requests interleave with the sync.  (With two upserts at a
\* time it fails: each checks a tree without the other's link.)
CyclesAreUnchecked ==
    \A ring \in (SUBSET Agencies) \ {{}} :
        (\A a \in ring : agency[a].parent \in ring) => ring \cap unchecked # {}

\* docs/api-agency-integration.md: an agency below another can not become its
\* parent.  It does when the parent arrives after the child that waits for it, and
\* names that child as its own parent: no walk is done for a new agency, nor for
\* the adopted one.  So this does not hold (README, section 6).
Acyclic ==
    \A ring \in (SUBSET Agencies) \ {{}} : \E a \in ring : agency[a].parent \notin ring

\* Only members are promoted: all three paths look at the account first and write
\* it by id later, and what may come between never makes an administrator's
\* account an agency's.  (An agency's login may be moved to another agency so:
\* two paths that both saw a member each give it to theirs.)
AdministratorsStay ==
    [][\A u \in Users :
         user[u].role = "staff" => user'[u].role \in {"staff", "none"}]_vars
=============================================================================

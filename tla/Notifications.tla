---------------------------- MODULE Notifications ----------------------------
(***************************************************************************)
(* The notification outbox, the password links it mails, and the sessions  *)
(* that a new password ends.                                               *)
(*                                                                         *)
(*   server/src/modules/notifications/                                     *)
(*   server/src/services/passwordReset.ts, notificationTokenDerivation.ts  *)
(*   server/src/routes/auth.ts, middleware/auth.ts, services/jwt.ts        *)
(*   server/src/routes/admin/{notificationOutbox,adminUsers}.ts            *)
(*                                                                         *)
(* A pass of the dispatcher (or an administrator's retry) takes one event, *)
(* makes the link its mail carries, sends the mail and settles the event;  *)
(* each database statement and the call to the mail provider is a step of  *)
(* its own.  The provider sends one mail for one key, and the key is the   *)
(* event's id.  A worker identifies the processing token of its claim: it  *)
(* never has two.                                                          *)
(*                                                                         *)
(* One account, to which all events are addressed.  An event may be for a  *)
(* password link, for a mail without one, for a portal whose address is    *)
(* gone by the time of sending (nothing is sent, the event succeeds), or   *)
(* may never be sent (its order is missing, the mail is not configured).   *)
(*                                                                         *)
(* Bounds: a scope says what the event is, how often calls fail or go      *)
(* unanswered, workers die or lose their lease and events are retried by   *)
(* hand, and who visits the account; VersionLimit bounds what changes the  *)
(* account's session_version; Links bounds random links.                   *)
(***************************************************************************)
EXTENDS Integers, FiniteSets

CONSTANTS
    Events,        \* notification_outbox_events
    Workers,       \* concurrent passes and manual retries
    Links,         \* ids of randomly made password_reset_tokens
    Visits,        \* concurrent password resets and logins
    Scopes,        \* what may happen: kinds of events, mishaps, visits
    None,
    MaxAttempts,   \* MAX_ATTEMPTS
    VersionLimit

ASSUME NamesAssumption ==
    /\ None \notin Workers \cup Links \cup Events
    /\ "text" \notin Links \cup Events
ASSUME LinksAssumption == Links \cap Events = {}
ASSUME AttemptAssumption == MaxAttempts \in Nat \ {0}
ASSUME VersionAssumption == VersionLimit \in Nat \ {0}

Kinds == {"link", "text", "portal", "broken"}
ASSUME ScopeAssumption ==
    Scopes \subseteq [kind: [Events -> Kinds], mishaps: Nat, visits: SUBSET Visits]

VARIABLES
    scope,      \* the scope of this behaviour
    derived,    \* NOTIFICATION_TOKEN_DERIVATION_SECRET is set
    row,        \* the outbox rows
    work,       \* work[w]: a worker's program counter and locals
    link,       \* password_reset_tokens: one id for each event's derived link
    mail,       \* what the mail sent under an event's id carries
    account,    \* the password (by its number) and session_version
    visit,      \* visit[v]: a reset or a login under way
    cookies,    \* session cookies handed out
    killed,     \* a worker died or lost its lease
    mishaps

outbox == <<row, work, mail, killed>>
sessions == <<account, visit, cookies>>
vars == <<scope, derived, row, work, link, mail, account, visit, cookies, killed,
          mishaps>>

\* A derived link has the id of its event.
LinkIds == Links \cup Events
Idle == [pc |-> "idle"]
Working == [pc: {"read", "void", "make", "record", "send", "done", "failed"},
            event: Events, attempt: Nat,
            old: LinkIds \cup {None}, new: LinkIds \cup {None},
            from: {"pending", "dead"}]

\* A cookie carries the account's session_version; which password it was opened
\* with is history.
CookieType == [password: 0..VersionLimit, version: 0..VersionLimit]
VisitType == {Idle} \cup [pc: {"reset"}, link: LinkIds]
                    \cup [pc: {"login"}, cookie: CookieType]

TypeOK ==
    /\ scope \in Scopes
    /\ derived \in BOOLEAN
    /\ row \in [Events ->
         [status: {"none", "pending", "processing", "succeeded", "dead"},
          token: Workers \cup {None}, attempts: Nat,
          link: LinkIds \cup {None}]]
    /\ work \in [Workers -> {Idle} \cup Working]
    /\ \A w \in Workers :
         (work[w].pc = "send" /\ scope.kind[work[w].event] = "link") => work[w].new # None
    /\ link \in [LinkIds -> {"none", "live", "void", "spent", "expired"}]
    /\ mail \in [Events -> LinkIds \cup {None, "text"}]
    /\ account \in CookieType
    /\ visit \in [Visits -> VisitType]
    /\ cookies \subseteq CookieType
    /\ killed \in BOOLEAN
    /\ mishaps \in 0..scope.mishaps

NewRow == [status |-> "none", token |-> None, attempts |-> 0, link |-> None]

Init ==
    /\ scope \in Scopes
    /\ derived \in BOOLEAN
    /\ row = [e \in Events |-> NewRow]
    /\ work = [w \in Workers |-> Idle]
    /\ link = [l \in LinkIds |-> "none"]
    /\ mail = [e \in Events |-> None]
    /\ account = [password |-> 0, version |-> 0]
    /\ visit = [v \in Visits |-> Idle]
    /\ cookies = {}
    /\ killed = FALSE
    /\ mishaps = 0

Mishap == mishaps < scope.mishaps /\ mishaps' = mishaps + 1
Goto(w, pc) == work' = [work EXCEPT ![w].pc = pc]
Owns(w) == row[work[w].event].status = "processing" /\ row[work[w].event].token = w

-----------------------------------------------------------------------------
(* Taking an event *)

\* enqueueNotification, in the transaction of what the mail is about.
Enqueue(e) ==
    /\ row[e].status = "none"
    /\ row' = [row EXCEPT ![e].status = "pending"]
    /\ UNCHANGED <<scope, derived, work, link, mail, sessions, killed, mishaps>>

\* claimOne lists the pending events that are due.  What it hands on is the row as
\* it was then, its attempts counted up in memory.
Read(w, e) ==
    /\ work[w].pc = "idle" /\ row[e].status = "pending"
    /\ work' = [work EXCEPT ![w] =
          [pc |-> "read", event |-> e, attempt |-> row[e].attempts + 1,
           old |-> row[e].link, new |-> None, from |-> "pending"]]
    /\ UNCHANGED <<scope, derived, row, link, mail, sessions, killed, mishaps>>

\* claimForManualRetry takes a pending or dead event; its copy of the row keeps the
\* old number of attempts.
ReadByHand(w, e) ==
    /\ Mishap
    /\ work[w].pc = "idle" /\ row[e].status \in {"pending", "dead"}
    /\ work' = [work EXCEPT ![w] =
          [pc |-> "read", event |-> e, attempt |-> row[e].attempts,
           old |-> row[e].link, new |-> None, from |-> row[e].status]]
    /\ UNCHANGED <<scope, derived, row, link, mail, sessions, killed>>

\* Mutation: the previous link is withdrawn whether or not it will be made again.
StartVoid(w) ==
    LET e == work[w].event
    IN CASE scope.kind[e] = "link" /\ work[w].old = None -> "make"
         [] scope.kind[e] = "link" /\ work[w].old # None -> "void"
         [] scope.kind[e] = "text" -> "send"
         [] scope.kind[e] = "portal" -> "done"
         [] scope.kind[e] = "broken" -> "failed"

\* Where the work on a claimed event starts: buildAndSend.
Start(w) ==
    LET e == work[w].event
    IN CASE scope.kind[e] = "link" /\ (derived \/ work[w].old = None) -> "make"
         [] scope.kind[e] = "link" /\ ~derived /\ work[w].old # None -> "void"
         [] scope.kind[e] = "text" -> "send"
         [] scope.kind[e] = "portal" -> "done"
         [] scope.kind[e] = "broken" -> "failed"

\* The conditional update that takes the event, or finds it taken.
Claim(w) ==
    LET e == work[w].event
    IN /\ work[w].pc = "read"
       /\ IF row[e].status = work[w].from
          THEN /\ row' = [row EXCEPT ![e].status = "processing", ![e].token = w,
                                     ![e].attempts = @ + 1]
               /\ Goto(w, Start(w))
          ELSE /\ work' = [work EXCEPT ![w] = Idle]
               /\ UNCHANGED row
       /\ UNCHANGED <<scope, derived, link, mail, sessions, killed, mishaps>>

\* Mutant: the token and the start are reset, the status is not.
ReclaimToken(e) ==
    /\ row[e].status = "processing"
    /\ \A w \in Workers : work[w].pc # "idle" => work[w].event # e \/ ~Owns(w)
    /\ row' = [row EXCEPT ![e].token = None]
    /\ UNCHANGED <<scope, derived, work, link, mail, sessions, killed, mishaps>>

\* reclaimStaleProcessing: ten minutes after its claim an event is pending again.
Reclaim(e) ==
    /\ row[e].status = "processing"
    /\ \A w \in Workers : work[w].pc # "idle" => work[w].event # e \/ ~Owns(w)
    /\ row' = [row EXCEPT ![e].status = "pending", ![e].token = None]
    /\ UNCHANGED <<scope, derived, work, link, mail, sessions, killed, mishaps>>

\* The same, while the worker still runs.
ReclaimSlow(w) ==
    /\ Mishap
    /\ work[w].pc # "idle" /\ Owns(w)
    /\ row' = [row EXCEPT ![work[w].event].status = "pending",
                          ![work[w].event].token = None]
    /\ killed' = TRUE
    /\ UNCHANGED <<scope, derived, work, link, mail, sessions>>

-----------------------------------------------------------------------------
(* Sending it *)

\* invalidatePasswordResetToken: the link that the copy of the row names.
Void(w) ==
    /\ work[w].pc = "void"
    /\ link' = [link EXCEPT ![work[w].old] = IF @ = "live" THEN "void" ELSE @]
    /\ Goto(w, "make")
    /\ UNCHANGED <<scope, derived, row, mail, sessions, killed, mishaps>>

\* A random link is new; a derived one is made once and found again afterwards.
Make(w) ==
    /\ work[w].pc = "make"
    /\ \E l \in IF derived THEN {work[w].event}
                ELSE {n \in Links : link[n] = "none"} :
         /\ link' = [link EXCEPT ![l] = IF @ = "none" THEN "live" ELSE @]
         /\ work' = [work EXCEPT ![w].pc = "record", ![w].new = l]
    /\ UNCHANGED <<scope, derived, row, mail, sessions, killed, mishaps>>

\* recordPasswordResetTokenId writes the row by its id.
Record(w) ==
    /\ work[w].pc = "record"
    /\ row' = [row EXCEPT ![work[w].event].link = work[w].new]
    /\ Goto(w, "send")
    /\ UNCHANGED <<scope, derived, link, mail, sessions, killed, mishaps>>

\* The provider mails what it is first asked to send under the event's id.
Mailed(w) ==
    LET e == work[w].event
    IN [mail EXCEPT ![e] = IF @ # None THEN @
                           ELSE IF scope.kind[e] = "link" THEN work[w].new ELSE "text"]

Send(w) ==
    /\ work[w].pc = "send"
    /\ mail' = Mailed(w)
    /\ Goto(w, "done")
    /\ UNCHANGED <<scope, derived, row, link, sessions, killed, mishaps>>

\* The call fails before or after the provider has acted on it.
SendFails(w) ==
    /\ Mishap
    /\ work[w].pc = "send"
    /\ mail' \in {mail, Mailed(w)}
    /\ Goto(w, "failed")
    /\ UNCHANGED <<scope, derived, row, link, sessions, killed>>

-----------------------------------------------------------------------------
(* Settling it *)

Settle(w, status) ==
    /\ row' = IF Owns(w) THEN [row EXCEPT ![work[w].event].status = status] ELSE row
    /\ work' = [work EXCEPT ![w] = Idle]
    /\ UNCHANGED <<scope, derived, link, mail, sessions, killed, mishaps>>

Succeed(w) == work[w].pc = "done" /\ Settle(w, "succeeded")

\* markFailed computes the back-off from the attempts of its copy.  A retry by hand
\* of an event that was never attempted has none: the date is invalid, the update
\* throws, and the row is left as it is.
Fail(w) ==
    /\ work[w].pc = "failed"
    /\ Settle(w, IF work[w].attempt >= MaxAttempts THEN "dead"
                 ELSE IF work[w].attempt = 0 THEN row[work[w].event].status
                 ELSE "pending")

Crash(w) ==
    /\ Mishap
    /\ work[w].pc # "idle"
    /\ work' = [work EXCEPT ![w] = Idle]
    /\ killed' = TRUE
    /\ UNCHANGED <<scope, derived, row, link, mail, sessions>>

-----------------------------------------------------------------------------
(* The account *)

Version(a) == [a EXCEPT !.version = @ + 1]

\* consumePasswordResetToken: the link is looked at; the addressee has it by mail.
OpenReset(v, e) ==
    /\ v \in scope.visits /\ visit[v].pc = "idle"
    /\ mail[e] \in LinkIds /\ link[mail[e]] = "live"
    /\ visit' = [visit EXCEPT ![v] = [pc |-> "reset", link |-> mail[e]]]
    /\ UNCHANGED <<scope, derived, outbox, link, account, cookies, mishaps>>

\* Then the new password is set and the link is used up, in one transaction but
\* without another look at the link.
Reset(v) ==
    /\ visit[v].pc = "reset" /\ account.version < VersionLimit
    /\ account' = [Version(account) EXCEPT !.password = @ + 1]
    /\ link' = [link EXCEPT ![visit[v].link] = "spent"]
    /\ visit' = [visit EXCEPT ![v] = Idle]
    /\ UNCHANGED <<scope, derived, outbox, cookies, mishaps>>

\* A role or an agency is given or changed, or everybody is logged out by hand.
Revoke ==
    /\ account.version < VersionLimit
    /\ account' = Version(account)
    /\ UNCHANGED <<scope, derived, outbox, link, visit, cookies, mishaps>>

\* A login compares the password with the row it read ...
OpenLogin(v) ==
    /\ v \in scope.visits /\ visit[v].pc = "idle"
    /\ visit' = [visit EXCEPT ![v] = [pc |-> "login", cookie |-> account]]
    /\ UNCHANGED <<scope, derived, outbox, link, account, cookies, mishaps>>

\* Mutant: ... and the cookie is made from the row as it is at the end.
LoginAnew(v) ==
    /\ visit[v].pc = "login"
    /\ cookies' = cookies \cup {[visit[v].cookie EXCEPT !.version = account.version]}
    /\ visit' = [visit EXCEPT ![v] = Idle]
    /\ UNCHANGED <<scope, derived, outbox, link, account, mishaps>>

\* ... and signs a cookie with that row's session_version.
Login(v) ==
    /\ visit[v].pc = "login"
    /\ cookies' = cookies \cup {visit[v].cookie}
    /\ visit' = [visit EXCEPT ![v] = Idle]
    /\ UNCHANGED <<scope, derived, outbox, link, account, mishaps>>

\* A link lives for 72 hours.
Expire(l) ==
    /\ link[l] = "live"
    /\ link' = [link EXCEPT ![l] = "expired"]
    /\ UNCHANGED <<scope, derived, outbox, sessions, mishaps>>

Handle(w) == Claim(w) \/ Void(w) \/ Make(w) \/ Record(w) \/ Send(w)
                \/ Succeed(w) \/ Fail(w)

Next ==
    \/ \E e \in Events : Enqueue(e) \/ Reclaim(e)
    \/ \E w \in Workers, e \in Events : Read(w, e) \/ ReadByHand(w, e)
    \/ \E w \in Workers :
         Handle(w) \/ SendFails(w) \/ Crash(w) \/ ReclaimSlow(w)
    \/ \E v \in Visits, e \in Events : OpenReset(v, e)
    \/ \E v \in Visits : Reset(v) \/ OpenLogin(v) \/ Login(v)
    \/ Revoke
    \/ \E l \in LinkIds : Expire(l)

Spec == Init /\ [][Next]_vars

\* The schedulers run the dispatcher every few minutes: it reclaims, and takes the
\* oldest pending event; an invocation goes on until it ends or dies.
FairSpec ==
    /\ Spec
    /\ \A e \in Events : WF_vars(Reclaim(e)) /\ WF_vars(\E w \in Workers : Read(w, e))
    /\ \A w \in Workers : WF_vars(Handle(w))

-----------------------------------------------------------------------------
(* Properties *)

\* With derived links, the link a customer was mailed stays good until it is used
\* or expires, whatever crashes, retries and slow workers do to its event
\* (passwordReset.ts: "the URL of a mail already sent is not invalidated").  With
\* random links it does not: a retry withdraws the link before it sends another,
\* and the provider sends only the first.
MailedLinksWork ==
    derived => \A e \in Events : mail[e] \in LinkIds => link[mail[e]] \notin {"none", "void"}

\* A session that requireAuth accepts was opened with the password of today, also
\* if the password changed between the login's look at it and its cookie.
SessionsFollowPassword ==
    \A c \in cookies : c.version = account.version => c.password = account.password

\* An event ends as succeeded or dead, however its workers die.
NotificationsEnd ==
    \A e \in Events :
        row[e].status = "pending" ~> row[e].status \in {"succeeded", "dead"}

\* dispatchPendingNotifications claims one event at a time so that no row is left
\* processing with nobody at work on it; only a dead invocation would leave one.
\* It does not hold: an event retried by hand before its first attempt is left so
\* when its mail fails (README, section 6).
ProcessingIsAttended ==
    killed \/ \A e \in Events : row[e].status = "processing" =>
                  \E w \in Workers : work[w].pc # "idle" /\ work[w].event = e

\* A password link is good for one new password.  It does not hold for two visits
\* that both found the link unspent (README, section 6).
LinksAreUsedOnce ==
    [][\A v \in Visits : visit[v].pc = "reset" /\ visit'[v].pc = "idle"
                           => link[visit[v].link] # "spent"]_vars
=============================================================================

---------------------------- MODULE LoginAttempts ----------------------------
(***************************************************************************)
(* The lock of an account against guessed passwords                        *)
(*   server/src/services/loginAttempts.ts, server/src/routes/auth.ts       *)
(*                                                                         *)
(* One e-mail address and one IP address: the rows of other pairs are      *)
(* never touched.  A login reads the row, and only a later statement       *)
(* resets, counts, locks or deletes it; each statement is atomic, and the  *)
(* platform may end the invocation between two of them.  Whether the       *)
(* password is right is an input.                                          *)
(***************************************************************************)
EXTENDS Integers

CONSTANTS
    Logins,         \* login requests, numbered in the order of their arrival
    MaxAttempts,    \* MAX_ATTEMPTS
    LockTime,       \* LOCK_MS
    MaxTime,        \* bound on the clock
    NULL

VARIABLES
    now,
    attempts,       \* the row of login_attempts, or NULL
    login           \* per request: the next statement, what was read and when

vars == <<now, attempts, login>>

Row == [id : Logins, failed : Int, until : Int \union {NULL}]

LoginRow ==
    [pc : {"new", "open", "reset", "refused", "lock", "failed", "welcome", "error", "ended"},
     id : Logins \union {NULL}, until : Int \union {NULL}, at : Int \union {NULL}]

LockAssumption == LockTime \in Nat /\ NULL \notin Int /\ NULL \notin Row

Goto(l, pc) == login' = [login EXCEPT ![l].pc = pc]

(* update where id = ...: a row deleted in between makes Prisma throw.     *)
RowRead(l) == attempts # NULL /\ attempts.id = login[l].id

-----------------------------------------------------------------------------

(* isLocked of a row that carries a lock.                                  *)
(* Mutation: a lock that is in force lets the login through.               *)
FoundOpen(until) == IF until <= now THEN "reset" ELSE "open"
Found(until) == IF until <= now THEN "reset" ELSE "refused"

(* isLocked reads the row and compares it with the time.                   *)
ReadLock(l) ==
    /\ login[l].pc = "new"
    /\ \A earlier \in 1..(l - 1) : login[earlier].pc # "new"
    /\ login' = [login EXCEPT ![l] =
            IF attempts = NULL \/ attempts.until = NULL
            THEN [pc |-> "open", id |-> NULL, until |-> NULL, at |-> now]
            ELSE [pc |-> Found(attempts.until), id |-> attempts.id,
                  until |-> attempts.until, at |-> now]]
    /\ UNCHANGED <<now, attempts>>

(* An expired lock starts the count anew.                                  *)
Reset(l) ==
    /\ login[l].pc = "reset"
    /\ IF RowRead(l)
       THEN /\ attempts' = [attempts EXCEPT !.failed = 0, !.until = NULL]
            /\ Goto(l, "open")
       ELSE UNCHANGED attempts /\ Goto(l, "error")
    /\ UNCHANGED now

(* A wrong password: the upsert counts it and returns the row.             *)
Count(l) ==
    /\ login[l].pc = "open"
    /\ attempts' = IF attempts = NULL THEN [id |-> l, failed |-> 1, until |-> NULL]
                   ELSE [attempts EXCEPT !.failed = @ + 1]
    /\ login' = [login EXCEPT ![l].pc = IF attempts'.failed >= MaxAttempts /\ attempts'.until = NULL
                                        THEN "lock" ELSE "failed",
                              ![l].id = attempts'.id]
    /\ UNCHANGED now

Lock(l) ==
    /\ login[l].pc = "lock"
    /\ IF RowRead(l)
       THEN attempts' = [attempts EXCEPT !.until = now + LockTime] /\ Goto(l, "failed")
       ELSE UNCHANGED attempts /\ Goto(l, "error")
    /\ UNCHANGED now

(* The right password: the row is deleted and a session is issued.         *)
Succeed(l) ==
    /\ login[l].pc = "open"
    /\ attempts' = NULL
    /\ Goto(l, "welcome")
    /\ UNCHANGED now

Crash(l) ==
    /\ login[l].pc \in {"reset", "open", "lock"}
    /\ Goto(l, "ended")
    /\ UNCHANGED <<now, attempts>>

Tick ==
    /\ now < MaxTime
    /\ now' = now + 1
    /\ UNCHANGED <<attempts, login>>

-----------------------------------------------------------------------------

Init ==
    /\ now = 0
    /\ attempts = NULL
    /\ login = [l \in Logins |-> [pc |-> "new", id |-> NULL, until |-> NULL, at |-> NULL]]

Next ==
    \/ \E l \in Logins :
        ReadLock(l) \/ Reset(l) \/ Count(l) \/ Lock(l) \/ Succeed(l) \/ Crash(l)
    \/ Tick

Spec == Init /\ [][Next]_vars

-----------------------------------------------------------------------------
(* Safety.                                                                 *)

TypeOK ==
    /\ now \in Nat
    /\ attempts \in Row \union {NULL}
    /\ login \in [Logins -> LoginRow]

InForce == attempts # NULL /\ attempts.until # NULL /\ attempts.until > now

(* The login read the row before the lock that is there now was set, and   *)
(* the lock it read, if there was one, had ended by then.                  *)
ReadBefore(l) ==
    /\ login[l].until = NULL \/ login[l].until <= login[l].at
    /\ login[l].at + LockTime <= attempts.until

(* It gives the right password or resets the expired lock it had read.     *)
LiftedBy(l) ==
    /\ \/ login[l].pc = "open" /\ login'[l].pc = "welcome"
       \/ login[l].pc = "reset" /\ login'[l].pc = "open"
    /\ ReadBefore(l)

(* A lock in force is never shortened, except by the right password or the *)
(* reset of a login that had read the row before this lock was set and had *)
(* found no lock in force: nobody who meets a lock gets past it, however   *)
(* slow the others are.  (The reset is a fault of the code: it lifts a     *)
(* lock it has not seen.)                                                  *)
LockStep ==
    InForce => \/ attempts' # NULL /\ attempts'.until # NULL /\ attempts'.until >= attempts.until
               \/ \E l \in Logins : LiftedBy(l)

LockHolds == [][LockStep]_vars
=============================================================================

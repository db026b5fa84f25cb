---------------------------- MODULE AccessProofs ----------------------------
(***************************************************************************)
(* What the runs check of the doors of the market, for every value of the  *)
(* constants that the assumptions allow: the lock of an account, the       *)
(* signed requests, the limits on requests, the registration of wallets    *)
(* and the tree of agencies, each on its own (its specification is that of *)
(* its instance) and at last as MCAccess composes them.                    *)
(***************************************************************************)
EXTENDS MCAccess, Sequences, FiniteSetTheorems, TLAPS

-----------------------------------------------------------------------------
(***************************************************************************)
(* The lock of an account is never shortened but by a right password or by *)
(* the reset of an expired lock, and either way by a login that had read   *)
(* the row before the lock was set: for any number of concurrent logins,   *)
(* any limit and any length of the lock.                                   *)
(***************************************************************************)

\* A lock never ends later than one set now would.
LockIsRecent ==
    attempts # NULL /\ attempts.until # NULL => attempts.until <= now + LockTime

\* A login that isLocked let pass had found no lock in force; a lock that is there
\* had ended by the time it read, or was set since.
PassedUnlocked ==
    \A l \in Logins : login[l].pc \in {"open", "reset"} =>
        /\ login[l].at \in Int /\ login[l].at <= now
        /\ login[l].until = NULL \/ login[l].until <= login[l].at
        /\ attempts # NULL /\ attempts.until # NULL =>
             \/ attempts.until <= login[l].at
             \/ login[l].at + LockTime <= attempts.until

LockIInv == Locks!TypeOK /\ LockIsRecent /\ PassedUnlocked

-----------------------------------------------------------------------------

LEMMA LockInitIInv == Locks!Init => LockIInv
BY DEF Locks!Init, LockIInv, Locks!TypeOK, LockIsRecent, PassedUnlocked, Locks!LoginRow

\* A statement of a login changes no other login, and its own from pc to pc.
LEMMA GotoShape ==
    ASSUME Locks!TypeOK, NEW l \in Logins, NEW pc, Locks!Goto(l, pc)
    PROVE  /\ login'[l].pc = pc /\ login'[l].at = login[l].at
           /\ login'[l].id = login[l].id /\ login'[l].until = login[l].until
           /\ \A k \in Logins \ {l} : login'[k] = login[k]
BY DEF Locks!Goto, Locks!TypeOK

\* What has passed stays so: a lock that is new ends LockTime from now.
LEMMA PassedStep ==
    ASSUME Locks!LockAssumption, PassedUnlocked, now \in Int, now' \in Int, now <= now',
           attempts' # NULL /\ attempts'.until # NULL =>
             \/ attempts # NULL /\ attempts'.until = attempts.until
             \/ attempts'.until = now + LockTime,
           NEW k \in Logins, login'[k].pc \in {"open", "reset"},
           login[k].pc \in {"open", "reset"},
           login'[k].at = login[k].at, login'[k].until = login[k].until
    PROVE  /\ login'[k].at \in Int /\ login'[k].at <= now'
           /\ login'[k].until = NULL \/ login'[k].until <= login'[k].at
           /\ attempts' # NULL /\ attempts'.until # NULL =>
                \/ attempts'.until <= login'[k].at
                \/ login'[k].at + LockTime <= attempts'.until
BY DEF PassedUnlocked, Locks!LockAssumption

LEMMA GotoTypeOK ==
    ASSUME Locks!LockAssumption, Locks!TypeOK, NEW l \in Logins, NEW pc, Locks!Goto(l, pc),
           pc \in {"open", "lock", "failed", "welcome", "error", "ended"},
           pc = "open" => login[l].pc = "reset",
           now' = now, attempts' \in Locks!Row \union {NULL}, PassedUnlocked,
           attempts' # NULL /\ attempts'.until # NULL =>
             \/ attempts # NULL /\ attempts'.until = attempts.until
             \/ attempts'.until = now + LockTime
    PROVE  Locks!TypeOK' /\ PassedUnlocked'
  <1>1. Locks!TypeOK'
    BY DEF Locks!Goto, Locks!TypeOK, Locks!LoginRow
  <1>2. now \in Int /\ now' \in Int /\ now <= now'
    BY DEF Locks!TypeOK
  <1>3. ASSUME NEW k \in Logins, login'[k].pc \in {"open", "reset"}
        PROVE  /\ login[k].pc \in {"open", "reset"}
               /\ login'[k].at = login[k].at /\ login'[k].until = login[k].until
    BY <1>3, GotoShape
  <1>4. PassedUnlocked'
    BY <1>2, <1>3, PassedStep DEF PassedUnlocked
  <1> QED
    BY <1>1, <1>4

LEMMA StepIInv ==
    ASSUME Locks!LockAssumption, LockIInv, NEW l \in Logins,
           \/ Locks!ReadLock(l) \/ Locks!Reset(l) \/ Locks!Count(l) \/ Locks!Lock(l) \/ Locks!Succeed(l) \/ Locks!Crash(l)
    PROVE  LockIInv'
  <1> USE DEF LockIInv
  <1>1. login[l].until \in Int \union {NULL} /\ login[l].id \in Logins \union {NULL}
    BY DEF Locks!TypeOK, Locks!LoginRow
  <1>2. CASE Locks!ReadLock(l)
    <2>1. /\ login[l].pc = "new" /\ now' = now /\ attempts' = attempts
          /\ \A k \in Logins \ {l} : login'[k] = login[k]
          /\ now \in Nat /\ now <= now'
      BY <1>2 DEF Locks!ReadLock, Locks!TypeOK
    <2>2. ASSUME NEW k \in Logins \ {l}, login'[k].pc \in {"open", "reset"}
          PROVE  /\ login'[k].at \in Int /\ login'[k].at <= now'
                 /\ login'[k].until = NULL \/ login'[k].until <= login'[k].at
                 /\ attempts' # NULL /\ attempts'.until # NULL =>
                      \/ attempts'.until <= login'[k].at
                      \/ login'[k].at + LockTime <= attempts'.until
      BY <2>1, <2>2 DEF PassedUnlocked
    <2>3. Locks!TypeOK' /\ (login'[l].pc \in {"open", "reset"} =>
                 /\ login'[l].at = now
                 /\ login'[l].until = NULL \/ login'[l].until <= now
                 /\ attempts # NULL /\ attempts.until # NULL => attempts.until <= now)
      <3>1. CASE attempts = NULL \/ attempts.until = NULL
        <4>1. login' = [login EXCEPT ![l] =
                  [pc |-> "open", id |-> NULL, until |-> NULL, at |-> now]]
          BY <1>2, <3>1 DEF Locks!ReadLock
        <4>2. Locks!TypeOK'
          BY <2>1, <4>1 DEF Locks!TypeOK, Locks!LoginRow
        <4> QED
          BY <3>1, <4>1, <4>2 DEF Locks!TypeOK
      <3>2. CASE attempts # NULL /\ attempts.until # NULL
        <4>1. login' = [login EXCEPT ![l] =
                  [pc |-> Locks!Found(attempts.until), id |-> attempts.id,
                   until |-> attempts.until, at |-> now]]
          BY <1>2, <3>2 DEF Locks!ReadLock
        <4>2. attempts.id \in Logins /\ attempts.until \in Int
          BY <3>2 DEF Locks!TypeOK, Locks!Row
        <4>3. /\ Locks!Found(attempts.until) \in {"reset", "refused"}
              /\ Locks!Found(attempts.until) = "reset" => attempts.until <= now
          BY DEF Locks!Found
        <4>4. Locks!TypeOK'
          BY <2>1, <4>1, <4>2, <4>3 DEF Locks!TypeOK, Locks!LoginRow
        <4> QED
          BY <4>1, <4>3, <4>4 DEF Locks!TypeOK
      <3> QED
        BY <3>1, <3>2
    <2>4. PassedUnlocked'
      BY <2>1, <2>2, <2>3 DEF PassedUnlocked
    <2>5. LockIsRecent'
      BY <2>1 DEF LockIsRecent
    <2> QED
      BY <2>3, <2>4, <2>5
  <1>3. CASE Locks!Reset(l)
    <2>1. attempts' \in Locks!Row \union {NULL} /\ now' = now /\ now' \in Nat
      <3>1. now' = now /\ now \in Nat
        BY <1>3 DEF Locks!Reset, Locks!TypeOK
      <3>2. CASE Locks!RowRead(l)
        <4>1. attempts' = [attempts EXCEPT !.failed = 0, !.until = NULL] /\ attempts \in Locks!Row
          BY <1>3, <3>2 DEF Locks!Reset, Locks!RowRead, Locks!TypeOK
        <4>2. attempts' = [id |-> attempts.id, failed |-> 0, until |-> NULL]
          BY <4>1 DEF Locks!Row
        <4>3. attempts.id \in Logins
          BY <4>1 DEF Locks!Row
        <4>4. attempts' \in Locks!Row
          BY <4>2, <4>3 DEF Locks!Row
        <4> QED
          BY <3>1, <4>4
      <3>3. CASE ~Locks!RowRead(l)
        <4>1. attempts' = attempts
          BY <1>3, <3>3 DEF Locks!Reset
        <4> QED
          BY <3>1, <4>1 DEF Locks!TypeOK
      <3> QED
        BY <3>2, <3>3
    <2>2. PICK pc \in {"open", "error"} : Locks!Goto(l, pc)
      BY <1>3 DEF Locks!Reset
    <2>3. LockIsRecent'
      BY <1>3, <2>1 DEF Locks!Reset, Locks!RowRead, LockIsRecent, Locks!TypeOK, Locks!Row
    <2>4. login[l].pc = "reset" /\ (attempts'.until = NULL \/ attempts' = attempts)
      BY <1>3 DEF Locks!Reset, Locks!RowRead, Locks!TypeOK, Locks!Row
    <2> QED
      BY <2>1, <2>2, <2>3, <2>4, GotoTypeOK
  <1>4. CASE Locks!Count(l)
    <2>1. attempts' \in Locks!Row
      <3>1. CASE attempts = NULL
        BY <1>4, <3>1 DEF Locks!Count, Locks!Row
      <3>2. CASE attempts # NULL
        BY <1>4, <3>2 DEF Locks!Count, Locks!Row, Locks!TypeOK
      <3> QED
        BY <3>1, <3>2
    <2>2. attempts'.until = NULL \/ (attempts # NULL /\ attempts'.until = attempts.until)
      BY <1>4 DEF Locks!Count, Locks!TypeOK, Locks!Row
    <2>3. PICK pc \in {"lock", "failed"} :
            login' = [login EXCEPT ![l].pc = pc, ![l].id = attempts'.id]
      BY <1>4 DEF Locks!Count
    <2>4. now' = now
      BY <1>4 DEF Locks!Count
    <2>5. attempts'.id \in Logins
      BY <2>1 DEF Locks!Row
    <2>6. Locks!TypeOK'
      <3>1. now' \in Nat /\ attempts' \in Locks!Row \union {NULL}
        BY <2>1, <2>4 DEF Locks!TypeOK
      <3>2. login \in [Logins -> Locks!LoginRow]
        BY DEF Locks!TypeOK
      <3>3. [login EXCEPT ![l].pc = pc] \in [Logins -> Locks!LoginRow]
        BY <3>2 DEF Locks!LoginRow
      <3>4. PICK f \in [Logins -> Locks!LoginRow] : f = [login EXCEPT ![l].pc = pc]
        BY <3>3
      <3>5. login' \in [Logins -> Locks!LoginRow]
        <4>1. login' = [f EXCEPT ![l].id = attempts'.id]
          BY <2>3, <3>4
        <4> QED
          BY <2>5, <4>1 DEF Locks!LoginRow
      <3> QED
        BY <3>1, <3>5 DEF Locks!TypeOK
    <2>7. PassedUnlocked'
      <3>1. now \in Int /\ now <= now'
        <4>1. now \in Nat
          BY DEF Locks!TypeOK
        <4> QED
          BY <2>4, <4>1
      <3>2. ASSUME NEW k \in Logins, login'[k].pc \in {"open", "reset"}
            PROVE  /\ login[k].pc \in {"open", "reset"}
                   /\ login'[k].at = login[k].at /\ login'[k].until = login[k].until
        BY <2>3, <3>2 DEF Locks!TypeOK
      <3> QED
        BY <2>2, <2>4, <3>1, <3>2, PassedStep DEF PassedUnlocked
    <2>8. LockIsRecent'
      BY <2>2, <2>4 DEF LockIsRecent
    <2> QED
      BY <2>6, <2>7, <2>8
  <1>5. CASE Locks!Lock(l)
    <2>1. now' = now /\ now \in Nat
      BY <1>5 DEF Locks!Lock, Locks!TypeOK
    <2>2. CASE Locks!RowRead(l)
      <3>1. attempts' = [attempts EXCEPT !.until = now + LockTime] /\ attempts \in Locks!Row
        BY <1>5, <2>2 DEF Locks!Lock, Locks!RowRead, Locks!TypeOK
      <3>2. attempts' \in Locks!Row /\ attempts'.until = now + LockTime
        BY <2>1, <3>1 DEF Locks!Row, Locks!LockAssumption
      <3>3. LockIsRecent'
        BY <2>1, <3>2 DEF LockIsRecent, Locks!LockAssumption
      <3>4. Locks!Goto(l, "failed")
        BY <1>5, <2>2 DEF Locks!Lock
      <3> QED
        BY <2>1, <3>2, <3>3, <3>4, GotoTypeOK
    <2>3. CASE ~Locks!RowRead(l)
      <3>1. attempts' = attempts /\ Locks!Goto(l, "error")
        BY <1>5, <2>3 DEF Locks!Lock
      <3>2. attempts' \in Locks!Row \union {NULL}
        BY <3>1 DEF Locks!TypeOK
      <3> QED
        BY <2>1, <3>1, <3>2, GotoTypeOK DEF LockIsRecent
    <2> QED
      BY <2>2, <2>3
  <1>6. CASE Locks!Succeed(l)
    <2>1. attempts' = NULL /\ Locks!Goto(l, "welcome") /\ now' = now /\ now' \in Nat
      BY <1>6 DEF Locks!Succeed, Locks!TypeOK
    <2> QED
      BY <2>1, GotoTypeOK DEF LockIsRecent
  <1>7. CASE Locks!Crash(l)
    <2>1. /\ attempts' = attempts /\ attempts \in Locks!Row \union {NULL}
          /\ Locks!Goto(l, "ended") /\ now' = now /\ now' \in Nat
      BY <1>7 DEF Locks!Crash, Locks!TypeOK
    <2> QED
      BY <2>1, GotoTypeOK DEF LockIsRecent
  <1> QED
    BY <1>2, <1>3, <1>4, <1>5, <1>6, <1>7

LEMMA LockNextIInv ==
    ASSUME Locks!LockAssumption, LockIInv, [Locks!Next]_Locks!vars
    PROVE  LockIInv'
  <1>1. CASE Locks!Tick
    <2>1. /\ now' = now + 1 /\ now \in Nat
          /\ attempts' = attempts /\ login' = login
      BY <1>1 DEF Locks!Tick, LockIInv, Locks!TypeOK
    <2>2. Locks!TypeOK'
      BY <2>1 DEF LockIInv, Locks!TypeOK
    <2>3. LockIsRecent'
      BY <2>1 DEF LockIInv, LockIsRecent, Locks!TypeOK, Locks!Row, Locks!LockAssumption
    <2>4. PassedUnlocked'
      BY <2>1, PassedStep DEF LockIInv, PassedUnlocked, Locks!TypeOK
    <2> QED
      BY <2>2, <2>3, <2>4 DEF LockIInv
  <1>2. CASE UNCHANGED Locks!vars
    BY <1>2 DEF Locks!vars, LockIInv, Locks!TypeOK, LockIsRecent, PassedUnlocked
  <1> QED
    BY <1>1, <1>2, StepIInv DEF Locks!Next

\* No statement shortens a lock in force, but those that LiftedBy names.
LEMMA NextKeepsLock ==
    ASSUME Locks!LockAssumption, LockIInv, Locks!Next
    PROVE  Locks!LockStep
  <1> SUFFICES ASSUME Locks!InForce
               PROVE  \/ /\ attempts' # NULL /\ attempts'.until # NULL
                         /\ attempts'.until >= attempts.until
                      \/ \E l \in Logins : Locks!LiftedBy(l)
    BY DEF Locks!LockStep
  <1>1. attempts \in Locks!Row /\ attempts.until \in Int /\ attempts.until > now /\ now \in Nat
    BY DEF Locks!InForce, LockIInv, Locks!TypeOK, Locks!Row
  <1>read. ASSUME NEW l \in Logins, login[l].pc \in {"open", "reset"} PROVE Locks!ReadBefore(l)
    <2>1. /\ login[l].at \in Int /\ login[l].at <= now
          /\ login[l].until = NULL \/ login[l].until <= login[l].at
          /\ attempts.until <= login[l].at \/ login[l].at + LockTime <= attempts.until
      BY <1>read, <1>1 DEF LockIInv, PassedUnlocked, Locks!InForce
    <2> QED
      BY <1>1, <2>1 DEF Locks!ReadBefore
  <1>2. CASE attempts' = attempts
    BY <1>1, <1>2 DEF Locks!LockAssumption
  <1>3. ASSUME NEW l \in Logins, Locks!Reset(l), Locks!RowRead(l) PROVE Locks!LiftedBy(l)
    <2>1. login[l].pc = "reset" /\ login'[l].pc = "open"
      BY <1>3, GotoShape DEF Locks!Reset, LockIInv
    <2> QED
      BY <1>read, <2>1 DEF Locks!LiftedBy
  <1>4. ASSUME NEW l \in Logins, Locks!Count(l)
        PROVE  attempts' \in Locks!Row /\ attempts'.until = attempts.until
    BY <1>1, <1>4 DEF Locks!Count, Locks!InForce, Locks!Row
  <1>5. ASSUME NEW l \in Logins, Locks!Lock(l), Locks!RowRead(l)
        PROVE  attempts' \in Locks!Row /\ attempts'.until >= attempts.until
    <2>1. attempts' \in Locks!Row /\ attempts'.until = now + LockTime
      BY <1>1, <1>5 DEF Locks!Lock, Locks!Row, Locks!LockAssumption
    <2>2. attempts.until <= now + LockTime
      BY <1>1 DEF Locks!InForce, LockIInv, LockIsRecent
    <2> QED
      BY <1>1, <2>1, <2>2 DEF Locks!LockAssumption
  <1>6. ASSUME NEW l \in Logins, Locks!Succeed(l) PROVE Locks!LiftedBy(l)
    <2>1. login[l].pc = "open" /\ login'[l].pc = "welcome"
      BY <1>6, GotoShape DEF Locks!Succeed, LockIInv
    <2> QED
      BY <1>read, <2>1 DEF Locks!LiftedBy
  <1>7. ASSUME attempts' \in Locks!Row, attempts'.until >= attempts.until, attempts'.until \in Int
        PROVE  attempts' # NULL /\ attempts'.until # NULL
    BY <1>7 DEF Locks!LockAssumption
  <1>8. CASE \E l \in Logins : Locks!Count(l)
    BY <1>1, <1>4, <1>7, <1>8
  <1>9. CASE \E l \in Logins : Locks!Lock(l)
    <2>1. PICK l \in Logins : Locks!Lock(l)
      BY <1>9
    <2>2. CASE Locks!RowRead(l)
      <3>1. attempts'.until = now + LockTime
        BY <1>1, <2>1, <2>2 DEF Locks!Lock, Locks!Row
      <3>2. attempts'.until \in Int
        BY <1>1, <3>1 DEF Locks!LockAssumption
      <3> QED
        BY <1>5, <1>7, <2>1, <2>2, <3>2
    <2>3. CASE ~Locks!RowRead(l)
      BY <1>2, <2>1, <2>3 DEF Locks!Lock
    <2> QED
      BY <2>2, <2>3
  <1>10. CASE \E l \in Logins : Locks!Reset(l)
    BY <1>2, <1>3, <1>10 DEF Locks!Reset
  <1>11. CASE \E l \in Logins : Locks!Succeed(l)
    BY <1>6, <1>11
  <1>12. CASE \E l \in Logins : Locks!ReadLock(l) \/ Locks!Crash(l)
    BY <1>2, <1>12 DEF Locks!ReadLock, Locks!Crash
  <1>13. CASE Locks!Tick
    BY <1>2, <1>13 DEF Locks!Tick
  <1> QED
    BY <1>8, <1>9, <1>10, <1>11, <1>12, <1>13 DEF Locks!Next

\* When the lock was set, and what the logins that passed it had read.
THEOREM LockInvariant == ASSUME Locks!LockAssumption PROVE Locks!Spec => []LockIInv
  <1>1. LockIInv /\ [Locks!Next]_Locks!vars => LockIInv'
    BY LockNextIInv
  <1> QED
    BY <1>1, LockInitIInv, PTL DEF Locks!Spec

\* Nobody who meets a lock in force gets past it: it is shortened only by the right
\* password, or the reset, of a login that had read the row before the lock was set.
THEOREM LockHoldsAlways == ASSUME Locks!LockAssumption PROVE Locks!Spec => LockHolds
  <1>1. LockIInv /\ [Locks!Next]_Locks!vars => [Locks!LockStep]_lockVars
    BY NextKeepsLock DEF Locks!vars, lockVars
  <1> QED
    BY <1>1, LockInvariant, PTL DEF Locks!Spec, LockHolds

-----------------------------------------------------------------------------
(***************************************************************************)
(* That a request is let through once is not inductive: it rests on what   *)
(* the clock says.  CheckedInTime bounds the delay between the check of a  *)
(* timestamp and now by the run time of an invocation; RecordedInTime says *)
(* that a nonce was recorded no earlier than the tolerance before its      *)
(* timestamp; so a nonce old enough to be deleted (Forgotten) belongs to a *)
(* timestamp that no running invocation can have found in tolerance.       *)
(***************************************************************************)

CheckedInTime ==
    \A c \in Copies :
       copy[c].pc = "signed" =>
         LET t == stamp[copy[c].msg]
             at == copy[c].at
         IN  /\ t # NULL
             /\ at <= now /\ now <= at + RunTime
             /\ t - at <= Tolerance /\ at - t <= Tolerance

RecordedInTime ==
    \A m \in Messages :
       used[m] # NULL =>
         /\ taken[m] = 1
         /\ stamp[m] # NULL
         /\ stamp[m] - Tolerance <= used[m] /\ used[m] <= now

Forgotten ==
    \A m \in Messages :
       taken[m] = 1 /\ used[m] = NULL =>
         stamp[m] # NULL /\ now > stamp[m] + Tolerance + RunTime

NonceIInv == TypeOK /\ AcceptedOnce /\ CheckedInTime /\ RecordedInTime /\ Forgotten

-----------------------------------------------------------------------------

\* Nothing has been signed, delivered or recorded at the start.
LEMMA InitInv == Init => NonceIInv
  <1> SUFFICES ASSUME Init PROVE NonceIInv
    OBVIOUS
  <1>1. TypeOK
    BY DEF Init, TypeOK
  <1>2. AcceptedOnce /\ CheckedInTime /\ RecordedInTime /\ Forgotten
    BY DEF Init, AcceptedOnce, CheckedInTime, RecordedInTime, Forgotten
  <1> QED
    BY <1>1, <1>2 DEF NonceIInv

\* A message whose timestamp is not known yet has neither been recorded nor let
\* through, and no copy of it is under way.
LEMMA UnsignedIsUnused ==
    ASSUME NonceIInv, NEW m \in Messages, stamp[m] = NULL
    PROVE  /\ used[m] = NULL /\ taken[m] = 0
           /\ \A c \in Copies : copy[c].pc = "signed" => copy[c].msg # m
  <1>1. used[m] = NULL
    BY DEF NonceIInv, RecordedInTime
  <1>2. taken[m] = 0
    <2>1. taken[m] # 1
      BY <1>1 DEF NonceIInv, Forgotten
    <2>2. taken[m] \in Nat /\ taken[m] <= 1
      BY DEF NonceIInv, TypeOK, AcceptedOnce
    <2> QED
      BY <2>1, <2>2
  <1>3. \A c \in Copies : copy[c].pc = "signed" => copy[c].msg # m
    BY DEF NonceIInv, CheckedInTime
  <1> QED
    BY <1>1, <1>2, <1>3

\* A copy that has passed the check of its timestamp finds the nonce recorded if
\* its message has been let through before: it cannot have been forgotten yet.
LEMMA RecordedWhileInTime ==
    ASSUME NonceIInv, NEW c \in Copies, copy[c].pc = "signed", used[copy[c].msg] = NULL
    PROVE  taken[copy[c].msg] = 0
  <1> DEFINE m == copy[c].msg
  <1>1. m \in Messages /\ now \in Nat /\ copy[c].at \in Nat /\ stamp[m] \in Nat \union {NULL}
    BY DEF NonceIInv, TypeOK
  <1>2. stamp[m] # NULL /\ now <= copy[c].at + RunTime /\ copy[c].at - stamp[m] <= Tolerance
    BY DEF NonceIInv, CheckedInTime
  <1>3. ~(now > stamp[m] + Tolerance + RunTime)
    BY <1>1, <1>2, TimesAssumption
  <1>4. taken[m] # 1
    BY <1>1, <1>3 DEF NonceIInv, Forgotten
  <1>5. taken[m] \in Nat /\ taken[m] <= 1
    BY <1>1 DEF NonceIInv, TypeOK, AcceptedOnce
  <1> QED
    BY <1>4, <1>5

\* A new timestamp belongs to a message of which nothing is known yet.
LEMMA SignInv == ASSUME NonceIInv, NEW m \in Messages, Sign(m) PROVE NonceIInv'
  <1>1. PICK t \in 0..MaxTime : stamp' = [stamp EXCEPT ![m] = t]
    BY DEF Sign
  <1>2. t \in Nat
    BY <1>1, TimesAssumption
  <1>3. UNCHANGED <<now, used, copy, taken>> /\ stamp[m] = NULL
    BY DEF Sign
  <1>4. TypeOK'
    BY <1>1, <1>2, <1>3 DEF NonceIInv, TypeOK
  <1>5. \A k \in Messages : k # m => stamp'[k] = stamp[k]
    BY <1>1 DEF NonceIInv, TypeOK
  <1>6. CheckedInTime'
    <2> SUFFICES ASSUME NEW c \in Copies, copy[c].pc = "signed"
                 PROVE  stamp'[copy[c].msg] = stamp[copy[c].msg]
      BY <1>3 DEF NonceIInv, CheckedInTime
    <2>1. copy[c].msg \in Messages
      BY DEF NonceIInv, TypeOK
    <2> QED
      BY <1>3, <1>5, <2>1, UnsignedIsUnused
  <1>7. RecordedInTime' /\ Forgotten'
    <2>1. used[m] = NULL /\ taken[m] = 0
      BY <1>3, UnsignedIsUnused
    <2> QED
      BY <1>3, <1>5, <2>1 DEF NonceIInv, RecordedInTime, Forgotten
  <1>8. AcceptedOnce'
    BY <1>3 DEF NonceIInv, AcceptedOnce
  <1> QED
    BY <1>4, <1>6, <1>7, <1>8 DEF NonceIInv

\* A copy passes the check now.
LEMMA ArriveInv == ASSUME NonceIInv, NEW c \in Copies, NEW m \in Messages, Arrive(c, m) PROVE NonceIInv'
  <1> DEFINE new == [pc |-> IF InTolerance(stamp[m]) THEN "signed" ELSE "refused",
                     msg |-> m, at |-> now]
  <1>1. copy' = [copy EXCEPT ![c] = new] /\ stamp[m] # NULL
    BY DEF Arrive
  <1>2. UNCHANGED <<now, stamp, used, taken>>
    BY DEF Arrive
  <1>3. new \in [pc : {"away", "signed", "refused", "taken"}, msg : Messages \union {NULL}, at : Nat]
    BY DEF NonceIInv, TypeOK
  <1>4. TypeOK'
    BY <1>1, <1>2, <1>3 DEF NonceIInv, TypeOK
  <1>5. CheckedInTime'
    <2> SUFFICES ASSUME NEW d \in Copies, copy'[d].pc = "signed"
                 PROVE  LET t == stamp[copy'[d].msg]
                            at == copy'[d].at
                        IN  /\ t # NULL
                            /\ at <= now /\ now <= at + RunTime
                            /\ t - at <= Tolerance /\ at - t <= Tolerance
      BY <1>2 DEF CheckedInTime
    <2>1. CASE d = c
      <3>1. copy'[d] = new
        BY <1>1, <2>1 DEF NonceIInv, TypeOK
      <3>2. InTolerance(stamp[m])
        BY <3>1
      <3>3. now \in Nat /\ RunTime \in Nat
        BY TimesAssumption DEF NonceIInv, TypeOK
      <3> QED
        BY <1>1, <3>1, <3>2, <3>3 DEF InTolerance
    <2>2. CASE d # c
      <3>1. copy'[d] = copy[d]
        BY <1>1, <2>2 DEF NonceIInv, TypeOK
      <3> QED
        BY <3>1 DEF NonceIInv, CheckedInTime
    <2> QED
      BY <2>1, <2>2
  <1>6. AcceptedOnce' /\ RecordedInTime' /\ Forgotten'
    BY <1>2 DEF NonceIInv, AcceptedOnce, RecordedInTime, Forgotten
  <1> QED
    BY <1>4, <1>5, <1>6 DEF NonceIInv

\* A copy that is turned away is not under way any more.
LEMMA LeaveInv ==
    ASSUME NonceIInv, NEW c \in Copies, NEW pc \in {"refused", "taken"}, copy[c].pc = "signed",
           copy' = [copy EXCEPT ![c].pc = pc], UNCHANGED <<now, stamp>>
    PROVE  /\ copy' \in [Copies -> [pc : {"away", "signed", "refused", "taken"},
                                    msg : Messages \union {NULL}, at : Nat]]
           /\ \A d \in Copies : copy'[d].pc # "away" => copy'[d].msg \in Messages
           /\ CheckedInTime'
  <1>1. copy \in [Copies -> [pc : {"away", "signed", "refused", "taken"},
                             msg : Messages \union {NULL}, at : Nat]]
    BY DEF NonceIInv, TypeOK
  <1>2. \A d \in Copies : /\ copy'[d].msg = copy[d].msg /\ copy'[d].at = copy[d].at
                          /\ copy'[d].pc = "signed" => copy[d].pc = "signed"
                          /\ copy'[d].pc # "away" => copy[d].pc # "away"
    BY <1>1
  <1>3. CheckedInTime'
    BY <1>2 DEF NonceIInv, CheckedInTime
  <1>4. \A d \in Copies : copy'[d].pc # "away" => copy'[d].msg \in Messages
    BY <1>2 DEF NonceIInv, TypeOK
  <1>5. copy' \in [Copies -> [pc : {"away", "signed", "refused", "taken"},
                              msg : Messages \union {NULL}, at : Nat]]
    BY <1>1
  <1> QED
    BY <1>3, <1>4, <1>5

LEMMA RefuseInv == ASSUME NonceIInv, NEW c \in Copies, Refuse(c) PROVE NonceIInv'
  <1>1. UNCHANGED <<now, stamp, used, taken>>
    BY DEF Refuse
  <1>2. TypeOK' /\ CheckedInTime'
    BY <1>1, LeaveInv DEF Refuse, NonceIInv, TypeOK
  <1>3. AcceptedOnce' /\ RecordedInTime' /\ Forgotten'
    BY <1>1 DEF NonceIInv, AcceptedOnce, RecordedInTime, Forgotten
  <1> QED
    BY <1>2, <1>3 DEF NonceIInv

\* The nonce of a message that is let through was neither recorded nor forgotten.
LEMMA RecordInv == ASSUME NonceIInv, NEW c \in Copies, Record(c) PROVE NonceIInv'
  <1> DEFINE m == copy[c].msg
  <1>1. copy[c].pc = "signed" /\ m \in Messages /\ UNCHANGED <<now, stamp>>
    BY DEF Record, NonceIInv, TypeOK
  <1>2. CASE used[m] # NULL
    <2>1. copy' = [copy EXCEPT ![c].pc = "refused"] /\ UNCHANGED <<used, taken>>
      BY <1>2 DEF Record
    <2>2. TypeOK' /\ CheckedInTime'
      BY <1>1, <2>1, LeaveInv DEF NonceIInv, TypeOK
    <2>3. AcceptedOnce' /\ RecordedInTime' /\ Forgotten'
      BY <1>1, <2>1 DEF NonceIInv, AcceptedOnce, RecordedInTime, Forgotten
    <2> QED
      BY <2>2, <2>3 DEF NonceIInv
  <1>3. CASE used[m] = NULL
    <2>1. /\ copy' = [copy EXCEPT ![c].pc = "taken"]
          /\ used' = [used EXCEPT ![m] = now] /\ taken' = [taken EXCEPT ![m] = @ + 1]
      BY <1>3 DEF Record
    <2>2. taken[m] = 0
      BY <1>1, <1>3, RecordedWhileInTime
    <2>3. now \in Nat /\ used \in [Messages -> Nat \union {NULL}] /\ taken \in [Messages -> Nat]
      BY DEF NonceIInv, TypeOK
    <2>4. used'[m] = now /\ taken'[m] = 1
      BY <1>1, <2>1, <2>2, <2>3
    <2>5. \A k \in Messages : k # m => used'[k] = used[k] /\ taken'[k] = taken[k]
      BY <2>1, <2>3
    <2>6. TypeOK' /\ CheckedInTime'
      <3>1. used' \in [Messages -> Nat \union {NULL}] /\ taken' \in [Messages -> Nat]
        BY <1>1, <2>1, <2>2, <2>3
      <3> QED
        BY <1>1, <2>1, <3>1, LeaveInv DEF NonceIInv, TypeOK
    <2>7. stamp[m] # NULL /\ stamp[m] - Tolerance <= now
      <3>1. /\ stamp[m] # NULL /\ copy[c].at <= now
            /\ stamp[m] - copy[c].at <= Tolerance
        BY <1>1 DEF NonceIInv, CheckedInTime
      <3>2. stamp[m] \in Nat /\ copy[c].at \in Nat /\ Tolerance \in Nat
        BY <1>1, <3>1, TimesAssumption DEF NonceIInv, TypeOK
      <3> QED
        BY <2>3, <3>1, <3>2
    <2>8. RecordedInTime'
      <3> SUFFICES ASSUME NEW k \in Messages, used'[k] # NULL
                   PROVE  /\ taken'[k] = 1 /\ stamp[k] # NULL
                          /\ stamp[k] - Tolerance <= used'[k] /\ used'[k] <= now
        BY <1>1 DEF RecordedInTime
      <3>1. CASE k = m
        BY <2>3, <2>4, <2>7, <3>1
      <3>2. CASE k # m
        BY <2>5, <3>2 DEF NonceIInv, RecordedInTime
      <3> QED
        BY <3>1, <3>2
    <2>9. Forgotten'
      <3>1. used'[m] # NULL
        BY <2>3, <2>4, TimesAssumption
      <3> QED
        BY <1>1, <2>5, <3>1 DEF NonceIInv, Forgotten
    <2>10. AcceptedOnce'
      BY <2>4, <2>5 DEF NonceIInv, AcceptedOnce
    <2> QED
      BY <2>6, <2>8, <2>9, <2>10 DEF NonceIInv
  <1> QED
    BY <1>2, <1>3

\* A nonce is deleted only when its timestamp has been out of tolerance for longer
\* than an invocation runs.
LEMMA CleanupInv == ASSUME NonceIInv, Cleanup PROVE NonceIInv'
  <1>1. /\ used' = [m \in Messages |-> IF used[m] # NULL /\ Stale(used[m]) THEN NULL ELSE used[m]]
        /\ UNCHANGED <<now, stamp, copy, taken>>
    BY DEF Cleanup
  <1>2. TypeOK'
    BY <1>1 DEF NonceIInv, TypeOK
  <1>3. AcceptedOnce' /\ CheckedInTime'
    BY <1>1 DEF NonceIInv, AcceptedOnce, CheckedInTime
  <1>4. RecordedInTime'
    BY <1>1 DEF NonceIInv, RecordedInTime
  <1>5. Forgotten'
    <2> SUFFICES ASSUME NEW m \in Messages, taken[m] = 1, used'[m] = NULL
                 PROVE  stamp[m] # NULL /\ now > stamp[m] + Tolerance + RunTime
      BY <1>1 DEF Forgotten
    <2>1. CASE used[m] = NULL
      BY <2>1 DEF NonceIInv, Forgotten
    <2>2. CASE used[m] # NULL
      <3>1. Stale(used[m])
        BY <1>1, <2>2
      <3>2. stamp[m] # NULL /\ stamp[m] - Tolerance <= used[m]
        BY <2>2 DEF NonceIInv, RecordedInTime
      <3>3. now \in Nat /\ used[m] \in Nat /\ stamp[m] \in Nat
        BY <2>2, <3>2 DEF NonceIInv, TypeOK
      <3> QED
        BY <3>1, <3>2, <3>3, TimesAssumption DEF Stale
    <2> QED
      BY <2>1, <2>2
  <1> QED
    BY <1>2, <1>3, <1>4, <1>5 DEF NonceIInv

\* Time passes, but no invocation gets older than it may.
LEMMA TickInv == ASSUME NonceIInv, Tick PROVE NonceIInv'
  <1>1. now' = now + 1 /\ UNCHANGED <<stamp, used, copy, taken>>
    BY DEF Tick
  <1>2. now \in Nat
    BY DEF NonceIInv, TypeOK
  <1>3. TypeOK'
    BY <1>1, <1>2 DEF NonceIInv, TypeOK
  <1>4. CheckedInTime'
    <2> SUFFICES ASSUME NEW c \in Copies, copy[c].pc = "signed"
                 PROVE  copy[c].at <= now + 1 /\ now + 1 <= copy[c].at + RunTime
      BY <1>1 DEF NonceIInv, CheckedInTime
    <2>1. now < copy[c].at + RunTime /\ copy[c].at <= now
      BY DEF Tick, NonceIInv, CheckedInTime
    <2>2. copy[c].at \in Nat /\ RunTime \in Nat
      BY TimesAssumption DEF NonceIInv, TypeOK
    <2> QED
      BY <1>2, <2>1, <2>2
  <1>5. RecordedInTime'
    <2> SUFFICES ASSUME NEW m \in Messages, used[m] # NULL PROVE used[m] <= now + 1
      BY <1>1 DEF NonceIInv, RecordedInTime
    <2>1. used[m] \in Nat /\ used[m] <= now
      BY DEF NonceIInv, TypeOK, RecordedInTime
    <2> QED
      BY <1>2, <2>1
  <1>6. Forgotten'
    <2> SUFFICES ASSUME NEW m \in Messages, taken[m] = 1, used[m] = NULL
                 PROVE  stamp[m] # NULL /\ now + 1 > stamp[m] + Tolerance + RunTime
      BY <1>1 DEF Forgotten
    <2>1. stamp[m] # NULL /\ now > stamp[m] + Tolerance + RunTime
      BY DEF NonceIInv, Forgotten
    <2>2. stamp[m] \in Nat /\ Tolerance \in Nat /\ RunTime \in Nat
      BY <2>1, TimesAssumption DEF NonceIInv, TypeOK
    <2> QED
      BY <1>2, <2>1, <2>2
  <1>7. AcceptedOnce'
    BY <1>1 DEF NonceIInv, AcceptedOnce
  <1> QED
    BY <1>3, <1>4, <1>5, <1>6, <1>7 DEF NonceIInv

LEMMA StutterInv == ASSUME NonceIInv, UNCHANGED vars PROVE NonceIInv'
  BY DEF vars, NonceIInv, TypeOK, AcceptedOnce, CheckedInTime, RecordedInTime, Forgotten

-----------------------------------------------------------------------------

LEMMA NonceNextIInv == ASSUME NonceIInv, [Next]_vars PROVE NonceIInv'
  <1>1. CASE \E m \in Messages : Sign(m)
    BY <1>1, SignInv
  <1>2. CASE \E c \in Copies, m \in Messages : Arrive(c, m)
    BY <1>2, ArriveInv
  <1>3. CASE \E c \in Copies : Refuse(c) \/ Record(c)
    BY <1>3, RefuseInv, RecordInv
  <1>4. CASE Cleanup
    BY <1>4, CleanupInv
  <1>5. CASE Tick
    BY <1>5, TickInv
  <1>6. CASE UNCHANGED vars
    BY <1>6, StutterInv
  <1> QED
    BY <1>1, <1>2, <1>3, <1>4, <1>5, <1>6 DEF Next

\* The invariant holds in every reachable state of the signed requests.
THEOREM NonceInvariant == Spec => []NonceIInv
  <1>1. NonceIInv /\ [Next]_vars => NonceIInv'
    BY NonceNextIInv
  <1> QED
    BY <1>1, InitInv, PTL DEF Spec

\* A signed confirmation is let through at most once (walletClaimHmac.ts), however
\* many copies of it the network delivers and whenever old nonces are deleted,
\* for every tolerance, retention and run time with
\* Retention >= 2 * Tolerance + RunTime.
THEOREM AcceptedOnceHolds == Spec => []AcceptedOnce
  <1>1. NonceIInv => AcceptedOnce
    BY DEF NonceIInv
  <1> QED
    BY <1>1, NonceInvariant, PTL

\* Timestamps, nonces and deliveries keep their types.
THEOREM NonceTypeCorrect == Spec => []TypeOK
  <1>1. NonceIInv => TypeOK
    BY DEF NonceIInv
  <1> QED
    BY <1>1, NonceInvariant, PTL

-----------------------------------------------------------------------------
(***************************************************************************)
(* The limits.  A hit is a request let through and counted for one side.   *)
(* The count of a running bucket bounds the hits of its window (RunningOK), *)
(* and those of the stretch before it leave at least one of the limit, for *)
(* its first request began it.  A stretch of time as long as a window meets *)
(* two windows at most (KeyOK), and a bucket is deleted only when all its  *)
(* hits lie a window back (EmptyOK).                                       *)
(***************************************************************************)

Sides == {"ip", "id"}

At(r, side) == request[r].at[side]

\* The requests counted under a key and not refused, and those of a stretch of time.
Hit(side, key) == {r \in Requests : At(r, side) # NULL /\ Limits!KeyOf(r, side) = key}
Hits(side, key, from, to) == {r \in Hit(side, key) : from <= At(r, side) /\ At(r, side) <= to}

Times == [Sides -> Int \union {NULL}]

RequestType == [pc : {"new", "ip", "id", "ip-id", "done"},
                client : Clients \union {NULL}, refused : BOOLEAN, at : Times]

LimitTypesOK ==
    /\ now \in Int
    /\ bucket \in [Limits!Keys -> Limits!Bucket \union {NULL}]
    /\ request \in [Requests -> RequestType]
    /\ \A r \in Requests :
         /\ request[r].pc # "new" => request[r].client \in Clients
         /\ request[r].pc \in {"new", "ip"} => At(r, "ip") = NULL
         /\ request[r].pc \in {"new", "ip", "id"} => At(r, "id") = NULL

EmptyOK(side, key) == \A r \in Hit(side, key) : At(r, side) <= now - Window

RunningOK(side, key) ==
    LET b == bucket[key] IN
    /\ b.start <= b.updated /\ b.updated <= now /\ b.count >= 1
    /\ \A r \in Hit(side, key) : At(r, side) <= b.updated /\ At(r, side) < b.start + Window
    /\ \A to \in Int :
         /\ Cardinality(Hits(side, key, b.start, to)) <= b.count
         /\ Cardinality(Hits(side, key, b.start, to)) <= Limits!LimitOf(key)
         /\ Cardinality(Hits(side, key, b.start + 1, to)) <= b.count - 1
         /\ Cardinality(Hits(side, key, b.start + 1, to)) <= Limits!LimitOf(key) - 1
    /\ Cardinality(Hits(side, key, b.start - Window + 1, b.start - 1)) <= Limits!LimitOf(key) - 1

KeyOK(side, key) ==
    /\ bucket[key] = NULL => EmptyOK(side, key)
    /\ bucket[key] # NULL => RunningOK(side, key)
    /\ \A t \in Int : Cardinality(Hits(side, key, t, t + Window - 1)) <= 2 * Limits!LimitOf(key) - 1

KeysOK == \A side \in Sides, key \in Limits!Keys : KeyOK(side, key)

LimitIInv == LimitTypesOK /\ KeysOK

-----------------------------------------------------------------------------

\* The instance has its own copy of FiniteSets.
LEMMA SameCardinality == ASSUME NEW S PROVE Limits!Cardinality(S) = Cardinality(S)
BY DEF Limits!Cardinality, Cardinality

LEMMA SameFinite == ASSUME NEW S PROVE Limits!IsFiniteSet(S) <=> IsFiniteSet(S)
BY DEF Limits!IsFiniteSet, IsFiniteSet

LEMMA HitsFinite ==
    ASSUME Limits!LimitAssumption, NEW side, NEW key, NEW from, NEW to
    PROVE  /\ IsFiniteSet(Hits(side, key, from, to)) 
           /\ Cardinality(Hits(side, key, from, to)) \in Nat
  <1>1. Hits(side, key, from, to) \subseteq Requests /\ IsFiniteSet(Requests)
    BY SameFinite DEF Hits, Hit, Limits!LimitAssumption
  <1>2. IsFiniteSet(Hits(side, key, from, to))
    BY <1>1, FS_Subset
  <1> QED
    BY <1>2, FS_CardinalityType

LEMMA HitsFinitePrime ==
    ASSUME Limits!LimitAssumption, NEW side, NEW key, NEW from, NEW to
    PROVE  /\ IsFiniteSet(Hits(side, key, from, to)') 
           /\ Cardinality(Hits(side, key, from, to)') \in Nat
  <1>1. Hits(side, key, from, to)' \subseteq Requests /\ IsFiniteSet(Requests)
    BY SameFinite DEF Hits, Hit, Limits!LimitAssumption
  <1>2. IsFiniteSet(Hits(side, key, from, to)')
    BY <1>1, FS_Subset
  <1> QED
    BY <1>2, FS_CardinalityType

LEMMA Fewer ==
    ASSUME NEW S, IsFiniteSet(S), NEW T, T \subseteq S
    PROVE  Cardinality(T) <= Cardinality(S)
BY FS_Subset

LEMMA OneMore ==
    ASSUME NEW S, IsFiniteSet(S), NEW T, NEW x, T \subseteq S \union {x}
    PROVE  Cardinality(T) <= Cardinality(S) + 1
  <1>0. Cardinality(S) \in Nat
    BY FS_CardinalityType
  <1>1. /\ IsFiniteSet(S \union {x})
        /\ Cardinality(S \union {x}) <= Cardinality(S) + 1
    BY <1>0, FS_AddElement
  <1>2. Cardinality(T) <= Cardinality(S \union {x}) /\ Cardinality(T) \in Nat /\ Cardinality(S \union {x}) \in Nat
    BY <1>1, FS_Subset, FS_CardinalityType
  <1> QED
    BY <1>0, <1>1, <1>2

LEMMA Together ==
    ASSUME NEW S, IsFiniteSet(S), NEW T, IsFiniteSet(T), NEW U, U \subseteq S \union T
    PROVE  Cardinality(U) <= Cardinality(S) + Cardinality(T)
  <1>1. /\ IsFiniteSet(S \union T) /\ IsFiniteSet(S \cap T)
        /\ Cardinality(S \union T) = Cardinality(S) + Cardinality(T) - Cardinality(S \cap T)
    BY FS_Union, FS_Subset
  <1>2. Cardinality(S \cap T) \in Nat /\ Cardinality(S) \in Nat /\ Cardinality(T) \in Nat /\ Cardinality(S \union T) \in Nat
    BY <1>1, FS_CardinalityType
  <1>3. Cardinality(U) <= Cardinality(S \union T) /\ Cardinality(U) \in Nat
    BY <1>1, FS_Subset, FS_CardinalityType
  <1> QED
    BY <1>1, <1>2, <1>3

-----------------------------------------------------------------------------

LEMMA LimitInitIInv == ASSUME Limits!LimitAssumption PROVE Limits!Init => LimitIInv
  <1> SUFFICES ASSUME Limits!Init PROVE LimitIInv
    OBVIOUS
  <1>1. LimitTypesOK
    BY DEF Limits!Init, LimitTypesOK, RequestType, Times, Sides, Limits!NoTimes, At
  <1>2. ASSUME NEW side \in Sides, NEW key \in Limits!Keys PROVE KeyOK(side, key)
    <2>1. Hit(side, key) = {}
      BY DEF Limits!Init, Hit, At, Sides, Limits!NoTimes
    <2>2. \A from, to : Cardinality(Hits(side, key, from, to)) = 0
      BY <2>1, FS_EmptySet DEF Hits
    <2>3. bucket[key] = NULL
      BY DEF Limits!Init
    <2>4. Limits!LimitOf(key) \in Nat \ {0}
      BY DEF Limits!LimitOf, Limits!LimitAssumption
    <2> QED
      BY <2>1, <2>2, <2>3, <2>4 DEF KeyOK, EmptyOK
  <1> QED
    BY <1>1, <1>2 DEF LimitIInv, KeysOK

-----------------------------------------------------------------------------

\* What a request counted under a key may add to those not refused.
Added(side, key, r) ==
    \A q \in Hit(side, key)' :
       \/ q \in Hit(side, key) /\ At(q, side)' = At(q, side)
       \/ q = r /\ At(q, side)' = now /\ Limits!Counted(key).count <= Limits!LimitOf(key)

LEMMA AddedHits ==
    ASSUME Limits!LimitAssumption, LimitTypesOK, NEW side \in Sides, NEW key \in Limits!Keys, NEW r,
           Added(side, key, r), NEW from \in Int, NEW to \in Int
    PROVE  /\ Cardinality(Hits(side, key, from, to)') <= Cardinality(Hits(side, key, from, to)) + 1
           /\ ~(from <= now /\ now <= to /\ Limits!Counted(key).count <= Limits!LimitOf(key))
                => Cardinality(Hits(side, key, from, to)') <= Cardinality(Hits(side, key, from, to))
  <1>1. Hits(side, key, from, to)' \subseteq Hits(side, key, from, to) \union {r}
    BY DEF Added, Hits
  <1>2. ASSUME ~(from <= now /\ now <= to /\ Limits!Counted(key).count <= Limits!LimitOf(key))
        PROVE  Hits(side, key, from, to)' \subseteq Hits(side, key, from, to)
    BY <1>2 DEF Added, Hits
  <1>3. IsFiniteSet(Hits(side, key, from, to))
    BY HitsFinite
  <1>4. Cardinality(Hits(side, key, from, to)') <= Cardinality(Hits(side, key, from, to)) + 1
    BY <1>1, <1>3, OneMore
  <1>5. ASSUME ~(from <= now /\ now <= to /\ Limits!Counted(key).count <= Limits!LimitOf(key))
        PROVE  Cardinality(Hits(side, key, from, to)') <= Cardinality(Hits(side, key, from, to))
    BY <1>2, <1>3, <1>5, Fewer
  <1> QED
    BY <1>4, <1>5

LEMMA Numbers ==
    ASSUME Limits!LimitAssumption, LimitTypesOK, NEW key \in Limits!Keys
    PROVE  /\ Limits!LimitOf(key) \in Nat \ {0} /\ Window \in Nat \ {0} /\ now \in Int
           /\ bucket[key] # NULL => bucket[key] \in Limits!Bucket
           /\ Limits!Counted(key) \in Limits!Bucket
  <1>1. Limits!LimitOf(key) \in Nat \ {0} /\ Window \in Nat \ {0} /\ now \in Int
    BY DEF Limits!LimitAssumption, Limits!LimitOf, LimitTypesOK, RequestType
  <1>2. bucket[key] # NULL => bucket[key] \in Limits!Bucket
    BY DEF LimitTypesOK, RequestType
  <1>3. Limits!Counted(key) \in Limits!Bucket
    <2>1. CASE bucket[key] = NULL \/ Limits!Over(bucket[key])
      BY <1>1, <2>1 DEF Limits!Counted, Limits!Bucket
    <2>2. CASE ~(bucket[key] = NULL \/ Limits!Over(bucket[key]))
      <3>1. Limits!Counted(key) = [bucket[key] EXCEPT !.count = @ + 1, !.updated = now]
        BY <2>2 DEF Limits!Counted
      <3>2. bucket[key] \in Limits!Bucket
        BY <1>2, <2>2
      <3>3. Limits!Counted(key) = [start |-> bucket[key].start, count |-> bucket[key].count + 1, updated |-> now]
        BY <3>1, <3>2 DEF Limits!Bucket
      <3>4. bucket[key].start \in Int /\ bucket[key].count + 1 \in Int
        BY <3>2 DEF Limits!Bucket
      <3> QED
        BY <1>1, <3>3, <3>4 DEF Limits!Bucket
    <2> QED
      BY <2>1, <2>2
  <1> QED
    BY <1>1, <1>2, <1>3

LEMMA CountedKey ==
    ASSUME Limits!LimitAssumption, LimitTypesOK, NEW side \in Sides, NEW key \in Limits!Keys, KeyOK(side, key), NEW r,
           now' = now, bucket'[key] = Limits!Counted(key), Added(side, key, r)
    PROVE  KeyOK(side, key)'
  <1> DEFINE L == Limits!LimitOf(key)
             W == Window
             N(from, to) == Cardinality(Hits(side, key, from, to))
             M(from, to) == Cardinality(Hits(side, key, from, to)')
  <1>a. PICK n : n = now
    OBVIOUS
  <1>b. PICK b : b = bucket[key]
    OBVIOUS
  <1>c. PICK c : c = Limits!Counted(key)
    OBVIOUS
  <1>1. /\ L \in Nat \ {0} /\ W \in Nat \ {0} /\ n \in Int
        /\ b # NULL => b \in Limits!Bucket
        /\ c \in Limits!Bucket
    BY Numbers, <1>a, <1>b, <1>c
  <1>2. \A from, to \in Int :
           /\ N(from, to) \in Nat /\ M(from, to) \in Nat
           /\ M(from, to) <= N(from, to) + 1
           /\ ~(from <= n /\ n <= to /\ c.count <= L) => M(from, to) <= N(from, to)
    <2>1. \A from, to \in Int : N(from, to) \in Nat /\ M(from, to) \in Nat
      BY HitsFinite, HitsFinitePrime
    <2>2. \A from, to \in Int :
           /\ M(from, to) <= N(from, to) + 1
           /\ ~(from <= n /\ n <= to /\ c.count <= L) => M(from, to) <= N(from, to)
      BY AddedHits, <1>a, <1>c
    <2> QED
      BY <2>1, <2>2
  <1>3. \A t \in Int : N(t, t + W - 1) <= 2 * L - 1
    BY DEF KeyOK
  <1>4. c # NULL /\ c.start \in Int /\ c.count \in Int /\ c.updated \in Int
    BY <1>1 DEF Limits!Bucket, Limits!LimitAssumption
  <1>5. /\ c.start <= c.updated /\ c.updated = n /\ c.count >= 1
        /\ c.start > n - W
        /\ \A q \in Hit(side, key) : At(q, side) <= n /\ At(q, side) < c.start + W
        /\ \A to \in Int :
             /\ M(c.start, to) <= c.count /\ M(c.start, to) <= L
             /\ M(c.start + 1, to) <= c.count - 1 /\ M(c.start + 1, to) <= L - 1
        /\ M(c.start - W + 1, c.start - 1) <= L - 1
    <2>1. CASE b = NULL \/ Limits!Over(b)
      <3>1. c.start = n /\ c.count = 1 /\ c.updated = n
        BY <1>a, <1>b, <1>c, <2>1 DEF Limits!Counted
      <3>2. \A q \in Hit(side, key) : At(q, side) \in Int /\ At(q, side) < n
        <4>1. \A q \in Hit(side, key) : At(q, side) \in Int
          BY DEF Hit, At, LimitTypesOK, RequestType, Times
        <4>2. CASE b = NULL
          BY <1>a, <1>b, <1>1, <4>1, <4>2 DEF KeyOK, EmptyOK
        <4>3. CASE b # NULL /\ Limits!Over(b)
          <5>1. b.start \in Int /\ b.start <= n - W
            BY <1>1, <4>3, <1>a, <1>b DEF Limits!Bucket, Limits!Over
          <5> QED
            BY <1>a, <1>b, <1>1, <4>1, <4>3, <5>1 DEF KeyOK, RunningOK
        <4> QED
          BY <2>1, <4>2, <4>3
      <3>3. \A from, to \in Int : from >= n => N(from, to) = 0
        <4> SUFFICES ASSUME NEW from \in Int, NEW to \in Int, from >= n PROVE N(from, to) = 0
          OBVIOUS
        <4>1. Hits(side, key, from, to) = {}
          BY <1>1, <3>2 DEF Hits
        <4> QED
          BY <4>1, FS_EmptySet
      <3>4. N(n - W + 1, n - 1) <= L - 1
        <4>1. CASE b = NULL
          <5>1. Hits(side, key, n - W + 1, n - 1) = {}
            BY <1>a, <1>b, <1>1, <3>2, <4>1 DEF Hits, KeyOK, EmptyOK
          <5>2. N(n - W + 1, n - 1) = 0
            BY <5>1, FS_EmptySet
          <5> HIDE DEF N
          <5> QED
            BY <1>1, <5>2
        <4>2. CASE b # NULL /\ Limits!Over(b)
          <5>1. b.start \in Int /\ b.start <= n - W
            BY <1>1, <4>2, <1>a DEF Limits!Bucket, Limits!Over
          <5>2. Hits(side, key, n - W + 1, n - 1) \subseteq Hits(side, key, b.start + 1, n - 1)
            BY <1>1, <3>2, <5>1 DEF Hits
          <5>3. N(n - W + 1, n - 1) <= N(b.start + 1, n - 1)
            BY <5>2, HitsFinite, Fewer
          <5>4. N(b.start + 1, n - 1) <= L - 1
            BY <1>1, <1>a, <1>b, <4>2 DEF KeyOK, RunningOK
          <5>5. N(n - W + 1, n - 1) \in Nat /\ N(b.start + 1, n - 1) \in Nat
            BY HitsFinite
          <5> HIDE DEF N
          <5> QED
            BY <1>1, <5>3, <5>4, <5>5
        <4> QED
          BY <2>1, <4>1, <4>2
      <3>5. \A to \in Int : N(n, to) = 0 /\ N(n + 1, to) = 0
        BY <1>1, <3>3
      <3>6. \A to \in Int : M(n, to) <= 1 /\ M(n + 1, to) <= 0
        <4> SUFFICES ASSUME NEW to \in Int PROVE M(n, to) <= 1 /\ M(n + 1, to) <= 0
          OBVIOUS
        <4> HIDE DEF N, M
        <4>1. M(n, to) <= N(n, to) + 1
          BY <1>1, <1>2
        <4>2. n + 1 \in Int /\ ~(n + 1 <= n)
          BY <1>1
        <4>3. M(n + 1, to) <= N(n + 1, to)
          BY <1>2, <4>2
        <4> QED
          BY <3>5, <4>1, <4>3
      <3>7. M(n - W + 1, n - 1) <= L - 1
        <4> HIDE DEF N, M
        <4>1. n - W + 1 \in Int /\ n - 1 \in Int /\ ~(n <= n - 1)
          BY <1>1
        <4>2. /\ M(n - W + 1, n - 1) <= N(n - W + 1, n - 1)
              /\ M(n - W + 1, n - 1) \in Nat /\ N(n - W + 1, n - 1) \in Nat
          BY <1>2, <4>1
        <4> QED
          BY <1>1, <3>4, <4>2
      <3>8. \A to \in Int : M(n, to) \in Nat /\ M(n + 1, to) \in Nat
        BY HitsFinitePrime
      <3> HIDE DEF N, M, L, W
      <3> QED
        BY <1>1, <3>1, <3>2, <3>6, <3>7, <3>8
    <2>2. CASE b # NULL /\ ~Limits!Over(b)
      <3>1. c.start = b.start /\ c.count = b.count + 1 /\ c.updated = n
        BY <1>a, <1>b, <1>c, <1>1, <2>2 DEF Limits!Counted, Limits!Bucket
      <3>2. b.start \in Int /\ b.count \in Int /\ b.updated \in Int /\ b.start > n - W
        BY <1>1, <2>2, <1>a DEF Limits!Bucket, Limits!Over
      <3>3. /\ b.start <= b.updated /\ b.updated <= n /\ b.count >= 1
            /\ \A q \in Hit(side, key) : At(q, side) <= b.updated /\ At(q, side) < b.start + W
            /\ \A to \in Int :
                 /\ N(b.start, to) <= b.count /\ N(b.start, to) <= L
                 /\ N(b.start + 1, to) <= b.count - 1 /\ N(b.start + 1, to) <= L - 1
            /\ N(b.start - W + 1, b.start - 1) <= L - 1
        BY <1>a, <1>b, <2>2 DEF KeyOK, RunningOK
      <3>4. \A q \in Hit(side, key) : At(q, side) \in Int
        BY DEF Hit, At, LimitTypesOK, RequestType, Times
      <3>5. \A q \in Hit(side, key) : At(q, side) <= n /\ At(q, side) < c.start + W
        BY <1>1, <3>1, <3>2, <3>3, <3>4
      <3>6. ASSUME NEW to \in Int
            PROVE  /\ M(c.start, to) <= c.count /\ M(c.start, to) <= L
                   /\ M(c.start + 1, to) <= c.count - 1 /\ M(c.start + 1, to) <= L - 1
        <4> HIDE DEF N, M, L, W
        <4>0. b.start \in Int /\ to \in Int
          BY <3>2
        <4>1. /\ M(b.start, to) <= N(b.start, to) + 1
              /\ ~(c.count <= L) => M(b.start, to) <= N(b.start, to)
              /\ M(b.start, to) \in Nat /\ N(b.start, to) \in Nat
          BY <1>2, <4>0
        <4>2. b.start + 1 \in Int
          BY <3>2
        <4>3. /\ M(b.start + 1, to) <= N(b.start + 1, to) + 1
              /\ ~(c.count <= L) => M(b.start + 1, to) <= N(b.start + 1, to)
              /\ M(b.start + 1, to) \in Nat /\ N(b.start + 1, to) \in Nat
          BY <1>2, <4>0, <4>2
        <4> QED
          BY <1>1, <1>4, <3>1, <3>2, <3>3, <4>1, <4>3
      <3>7. M(c.start - W + 1, c.start - 1) <= L - 1
        <4> HIDE DEF N, M, L, W
        <4>1. b.start - W + 1 \in Int /\ b.start - 1 \in Int /\ ~(n <= b.start - 1)
          BY <1>1, <3>2, <3>3
        <4>2. /\ M(b.start - W + 1, b.start - 1) <= N(b.start - W + 1, b.start - 1)
              /\ M(b.start - W + 1, b.start - 1) \in Nat /\ N(b.start - W + 1, b.start - 1) \in Nat
          BY <1>2, <4>1
        <4> QED
          BY <1>1, <3>1, <3>3, <4>2
      <3> HIDE DEF N, M, L, W
      <3> QED
        BY <1>1, <3>1, <3>2, <3>3, <3>5, <3>6, <3>7
    <2> QED
      BY <2>1, <2>2
  <1>6. \A q \in Hit(side, key)' : At(q, side)' <= c.updated /\ At(q, side)' < c.start + W
    BY <1>a, <1>c, <1>1, <1>4, <1>5 DEF Added
  <1>7. ASSUME NEW t \in Int PROVE M(t, t + W - 1) <= 2 * L - 1
    <2>1. t + W - 1 \in Int
      BY <1>1
    <2>2. CASE ~(t <= n /\ n <= t + W - 1)
      <3> HIDE DEF N, M, L, W
      <3>1. /\ M(t, t + W - 1) <= N(t, t + W - 1)
            /\ M(t, t + W - 1) \in Nat /\ N(t, t + W - 1) \in Nat
        BY <1>2, <2>1, <2>2
      <3> QED
        BY <1>1, <1>3, <3>1
    <2>3. CASE t <= n /\ n <= t + W - 1
      <3>1. /\ c.start - W + 1 \in Int /\ c.start - 1 \in Int /\ c.start \in Int
            /\ t >= c.start - W + 1 /\ t <= n
        <4> HIDE DEF L, W
        <4> QED
          BY <1>1, <1>4, <1>5, <2>3
      <3>2. \A q \in Hit(side, key)' : At(q, side)' \in Int
        BY <1>a, <1>1 DEF Added, Hit, At, LimitTypesOK, RequestType, Times
      <3>3. Hits(side, key, t, t + W - 1)' \subseteq
              Hits(side, key, c.start - W + 1, c.start - 1)' \union Hits(side, key, c.start, t + W - 1)'
        <4>9. ASSUME NEW q \in Hit(side, key)', t <= At(q, side)', At(q, side)' <= t + W - 1
              PROVE  \/ c.start - W + 1 <= At(q, side)' /\ At(q, side)' <= c.start - 1
                     \/ c.start <= At(q, side)' /\ At(q, side)' <= t + W - 1
          <5> HIDE DEF L, W
          <5>1. PICK g : g = At(q, side)'
            OBVIOUS
          <5>2. g \in Int /\ t <= g /\ g <= t + W - 1
            BY <3>2, <4>9, <5>1
          <5>3. \/ c.start - W + 1 <= g /\ g <= c.start - 1
                \/ c.start <= g /\ g <= t + W - 1
            BY <1>1, <3>1, <5>2
          <5> QED
            BY <5>1, <5>3
        <4>10. Hits(side, key, t, t + W - 1)' = {q \in Hit(side, key)' : t <= At(q, side)' /\ At(q, side)' <= t + W - 1}
          BY DEF Hits
        <4>11. Hits(side, key, c.start - W + 1, c.start - 1)' =
                 {q \in Hit(side, key)' : c.start - W + 1 <= At(q, side)' /\ At(q, side)' <= c.start - 1}
          BY DEF Hits
        <4>12. Hits(side, key, c.start, t + W - 1)' =
                 {q \in Hit(side, key)' : c.start <= At(q, side)' /\ At(q, side)' <= t + W - 1}
          BY DEF Hits
        <4> QED
          BY <4>9, <4>10, <4>11, <4>12
      <3>4. M(t, t + W - 1) <= M(c.start - W + 1, c.start - 1) + M(c.start, t + W - 1)
        BY <3>3, HitsFinitePrime, Together
      <3> HIDE DEF N, M, L, W
      <3>5. /\ M(t, t + W - 1) \in Nat /\ M(c.start - W + 1, c.start - 1) \in Nat
            /\ M(c.start, t + W - 1) \in Nat
            /\ M(c.start - W + 1, c.start - 1) <= L - 1 /\ M(c.start, t + W - 1) <= L
        BY <1>2, <1>5, <2>1, <3>1
      <3> QED
        BY <1>1, <3>4, <3>5
    <2> QED
      BY <2>2, <2>3
  <1>8. bucket'[key] = c /\ c # NULL /\ now' = n
    BY <1>a, <1>c, <1>4
  <1>9. RunningOK(side, key)'
    <2>1. /\ c.start <= c.updated /\ c.updated <= n /\ c.count >= 1
          /\ \A q \in Hit(side, key)' : At(q, side)' <= c.updated /\ At(q, side)' < c.start + W
      BY <1>1, <1>4, <1>5, <1>6
    <2> QED
      BY <1>5, <1>8, <2>1 DEF RunningOK, Limits!LimitOf, Limits!IpKeys
  <1> QED
    BY <1>7, <1>8, <1>9 DEF KeyOK

-----------------------------------------------------------------------------

LEMMA KeysOf ==
    ASSUME NEW r \in Requests, NEW step \in Limits!Steps, request[r].client \in Clients
    PROVE  Limits!KeyOf(r, step) \in Limits!Keys
BY DEF Limits!KeyOf, Limits!Keys, Limits!IpKeys, Limits!NameKeys, Limits!PairKeys, Limits!Steps

\* A bucket that is not touched, while nothing is added to its requests.
LEMMA SameKey ==
    ASSUME Limits!LimitAssumption, LimitTypesOK, NEW side \in Sides, NEW key \in Limits!Keys, KeyOK(side, key),
           now' \in Int, now' >= now, bucket'[key] = bucket[key],
           \A q \in Hit(side, key)' : q \in Hit(side, key) /\ At(q, side)' = At(q, side)
    PROVE  KeyOK(side, key)'
  <1> DEFINE N(from, to) == Cardinality(Hits(side, key, from, to))
             M(from, to) == Cardinality(Hits(side, key, from, to)')
  <1>a. PICK b : b = bucket[key]
    OBVIOUS
  <1>1. /\ Limits!LimitOf(key) \in Nat \ {0} /\ Window \in Nat \ {0} /\ now \in Int
        /\ b # NULL => b \in Limits!Bucket
    BY Numbers, <1>a
  <1>2. \A from, to : N(from, to) \in Nat /\ M(from, to) \in Nat /\ M(from, to) <= N(from, to)
    <2> SUFFICES ASSUME NEW from, NEW to
                 PROVE  N(from, to) \in Nat /\ M(from, to) \in Nat /\ M(from, to) <= N(from, to)
      OBVIOUS
    <2>1. Hits(side, key, from, to)' \subseteq Hits(side, key, from, to)
      BY DEF Hits
    <2> QED
      BY <2>1, HitsFinite, HitsFinitePrime, Fewer
  <1>3. \A q \in Hit(side, key) : At(q, side) \in Int
    BY DEF Hit, At, LimitTypesOK, RequestType, Times
  <1>4. Limits!LimitOf(key)' = Limits!LimitOf(key)
    BY DEF Limits!LimitOf, Limits!IpKeys
  <1>5. EmptyOK(side, key) => EmptyOK(side, key)'
    BY <1>1, <1>3 DEF EmptyOK
  <1>6. ASSUME b # NULL, RunningOK(side, key) PROVE RunningOK(side, key)'
    <2>1. b.start \in Int /\ b.count \in Int /\ b.updated \in Int
      BY <1>1, <1>6 DEF Limits!Bucket
    <2>2. /\ b.start <= b.updated /\ b.updated <= now' /\ b.count >= 1
          /\ \A q \in Hit(side, key)' : At(q, side)' <= b.updated /\ At(q, side)' < b.start + Window
      BY <1>a, <1>1, <1>6, <2>1 DEF RunningOK
    <2>3. /\ \A to \in Int :
              /\ N(b.start, to) <= b.count /\ N(b.start, to) <= Limits!LimitOf(key)
              /\ N(b.start + 1, to) <= b.count - 1 /\ N(b.start + 1, to) <= Limits!LimitOf(key) - 1
          /\ N(b.start - Window + 1, b.start - 1) <= Limits!LimitOf(key) - 1
      BY <1>a, <1>6 DEF RunningOK
    <2>4. /\ \A to \in Int :
              /\ M(b.start, to) <= b.count /\ M(b.start, to) <= Limits!LimitOf(key)
              /\ M(b.start + 1, to) <= b.count - 1 /\ M(b.start + 1, to) <= Limits!LimitOf(key) - 1
          /\ M(b.start - Window + 1, b.start - 1) <= Limits!LimitOf(key) - 1
      <3> HIDE DEF N, M
      <3> QED
        BY <1>1, <1>2, <2>1, <2>3
    <2> QED
      BY <1>a, <1>4, <2>2, <2>4 DEF RunningOK
  <1>7. ASSUME NEW t \in Int PROVE M(t, t + Window - 1) <= 2 * Limits!LimitOf(key) - 1
    <2>1. N(t, t + Window - 1) <= 2 * Limits!LimitOf(key) - 1
      BY DEF KeyOK
    <2> HIDE DEF N, M
    <2> QED
      BY <1>1, <1>2, <2>1
  <1> QED
    BY <1>a, <1>4, <1>5, <1>6, <1>7 DEF KeyOK

LEMMA ArriveIInv ==
    ASSUME Limits!LimitAssumption, LimitIInv, NEW r \in Requests, NEW client \in Clients, Limits!Arrive(r, client)
    PROVE  LimitIInv'
  <1> USE DEF LimitIInv
  <1>1. /\ request' = [request EXCEPT ![r].pc = "ip", ![r].client = client]
        /\ now' = now /\ bucket' = bucket /\ request[r].pc = "new" /\ now \in Int
    BY DEF Limits!Arrive, LimitTypesOK, RequestType
  <1>2. request[r].at \in Times /\ request[r].refused \in BOOLEAN
    BY DEF LimitTypesOK, RequestType
  <1>3. \A q \in Requests :
           /\ request'[q].pc = IF q = r THEN "ip" ELSE request[q].pc
           /\ request'[q].client = IF q = r THEN client ELSE request[q].client
           /\ request'[q].at = request[q].at
    BY <1>1 DEF LimitTypesOK, RequestType
  <1>4. LimitTypesOK'
    <2>1. request' \in [Requests -> RequestType]
      <3>1. PICK g : g = [request EXCEPT ![r].pc = "ip"]
        OBVIOUS
      <3>2. g \in [Requests -> RequestType]
        BY <3>1 DEF LimitTypesOK, RequestType
      <3>3. request' = [g EXCEPT ![r].client = client]
        BY <1>1, <3>1 DEF LimitTypesOK, RequestType
      <3> QED
        BY <3>2, <3>3 DEF RequestType
    <2>2. ASSUME NEW q \in Requests
          PROVE  /\ request'[q].pc # "new" => request'[q].client \in Clients
                 /\ request'[q].pc \in {"new", "ip"} => request'[q].at["ip"] = NULL
                 /\ request'[q].pc \in {"new", "ip", "id"} => request'[q].at["id"] = NULL
      BY <1>1, <1>3 DEF LimitTypesOK, RequestType, At
    <2> QED
      BY <1>1, <2>1, <2>2 DEF LimitTypesOK, RequestType, At
  <1>5. ASSUME NEW side \in Sides, NEW key \in Limits!Keys PROVE KeyOK(side, key)'
    <2>1. At(r, side) = NULL
      BY <1>1 DEF LimitTypesOK, RequestType, Sides
    <2>2. \A q \in Requests : At(q, side)' = At(q, side)
      BY <1>1 DEF At, LimitTypesOK, RequestType
    <2>3. \A q \in Requests \ {r} : Limits!KeyOf(q, side)' = Limits!KeyOf(q, side)
      BY <1>1 DEF Limits!KeyOf, LimitTypesOK, RequestType
    <2>4. \A q \in Hit(side, key)' : q \in Hit(side, key) /\ At(q, side)' = At(q, side)
      BY <2>1, <2>2, <2>3 DEF Hit
    <2> QED
      BY <1>1, <2>4, SameKey DEF KeysOK
  <1> QED
    BY <1>4, <1>5 DEF KeysOK

LEMMA CountIInv ==
    ASSUME Limits!LimitAssumption, LimitIInv, NEW r \in Requests, Limits!Count(r)
    PROVE  LimitIInv'
  <1> USE DEF LimitIInv
  <1> DEFINE step == request[r].pc
             key == Limits!KeyOf(r, step)
             refused == request[r].refused \/ Limits!OverLimit(Limits!Counted(key).count, key)
             at == IF refused THEN Limits!NoTimes
                   ELSE [k \in DOMAIN request[r].at |-> IF k = step THEN now ELSE request[r].at[k]]
  <1>1. /\ step \in Limits!Steps /\ now' = now /\ now \in Int
        /\ bucket' = [bucket EXCEPT ![key] = Limits!Counted(key)]
        /\ request' = [request EXCEPT ![r].pc = Limits!Following(r), ![r].refused = refused, ![r].at = at]
    BY DEF Limits!Count, LimitTypesOK, RequestType
  <1>2. request[r].client \in Clients /\ key \in Limits!Keys
    BY <1>1, KeysOf DEF LimitTypesOK, RequestType, Limits!Steps
  <1>3. request[r].at \in Times /\ request[r].refused \in BOOLEAN
    BY DEF LimitTypesOK, RequestType
  <1>4. at \in Times /\ refused \in BOOLEAN
    <2>1. Limits!NoTimes \in Times
      BY DEF Limits!NoTimes, Times, Sides
    <2>2. [k \in DOMAIN request[r].at |-> IF k = step THEN now ELSE request[r].at[k]] \in Times
      BY <1>1, <1>3 DEF Times
    <2>3. refused \in BOOLEAN
      BY <1>3 DEF Limits!OverLimit
    <2> QED
      BY <2>1, <2>2, <2>3
  <1>5. Limits!Following(r) \in {"id", "ip-id", "done"} /\ (step # "ip" => Limits!Following(r) # "id")
    BY DEF Limits!Following
  <1>6. \A side \in Sides : /\ at[side] # NULL =>
                                \/ at[side] = request[r].at[side] /\ side # step
                                \/ side = step /\ at[side] = now /\ ~refused
    BY <1>3 DEF Limits!NoTimes, Times, Sides
  <1> HIDE DEF at, refused
  <1>8. \A q \in Requests :
           /\ request'[q].pc = IF q = r THEN Limits!Following(r) ELSE request[q].pc
           /\ request'[q].client = request[q].client
           /\ request'[q].at = IF q = r THEN at ELSE request[q].at
    BY <1>1 DEF LimitTypesOK, RequestType
  <1>7. request' \in [Requests -> RequestType]
    <2>1. PICK g : g = [request EXCEPT ![r].pc = Limits!Following(r)]
      OBVIOUS
    <2>2. g \in [Requests -> RequestType]
      BY <1>5, <2>1 DEF LimitTypesOK, RequestType
    <2>3. PICK h : h = [g EXCEPT ![r].refused = refused]
      OBVIOUS
    <2>4. h \in [Requests -> RequestType]
      BY <1>4, <2>2, <2>3 DEF RequestType
    <2>5. request' = [h EXCEPT ![r].at = at]
      BY <1>1, <2>1, <2>3 DEF LimitTypesOK, RequestType
    <2> QED
      BY <1>4, <2>4, <2>5 DEF RequestType
  <1>9. LimitTypesOK'
    <2>1. bucket' \in [Limits!Keys -> Limits!Bucket \union {NULL}]
      BY <1>1, <1>2, Numbers DEF LimitTypesOK, RequestType
    <2>2. request' \in [Requests -> RequestType]
      BY <1>7
    <2>3. ASSUME NEW q \in Requests
          PROVE  /\ request'[q].pc # "new" => request'[q].client \in Clients
                 /\ request'[q].pc \in {"new", "ip"} => request'[q].at["ip"] = NULL
                 /\ request'[q].pc \in {"new", "ip", "id"} => request'[q].at["id"] = NULL
      <3>1. CASE q # r
        BY <1>8, <3>1 DEF LimitTypesOK, RequestType, At
      <3>2. CASE q = r
        <4>1. Limits!Following(r) = "id" => at["id"] = NULL
          <5>1. Limits!Following(r) = "id" => step = "ip" /\ request[r].at["id"] = NULL
            BY <1>1, <1>5 DEF LimitTypesOK, RequestType, At, Limits!Steps
          <5> QED
            BY <1>6, <5>1 DEF Sides
        <4> QED
          BY <1>2, <1>5, <1>8, <3>2, <4>1
      <3> QED
        BY <3>1, <3>2
    <2> QED
      BY <1>1, <2>1, <2>2, <2>3 DEF LimitTypesOK, RequestType, At
  <1>10. ASSUME NEW side \in Sides, NEW k \in Limits!Keys PROVE KeyOK(side, k)'
    <2>0. \A q \in Requests : request'[q].client = request[q].client
      BY <1>8
    <2>1. \A q \in Requests : Limits!KeyOf(q, side)' = Limits!KeyOf(q, side)
      BY <2>0 DEF Limits!KeyOf
    <2>2. \A q \in Requests \ {r} : At(q, side)' = At(q, side)
      BY <1>8 DEF At
    <2>3. At(r, side)' = at[side] /\ At(r, side) = request[r].at[side]
      BY <1>8 DEF At
    <2>4. \A q \in Hit(side, k)' :
             \/ q \in Hit(side, k) /\ At(q, side)' = At(q, side)
             \/ q = r /\ At(q, side)' = now /\ ~refused /\ k = key
      BY <1>6, <2>1, <2>2, <2>3 DEF Hit
    <2>5. ~refused => Limits!Counted(key).count <= Limits!LimitOf(key)
      <3>1. Limits!Counted(key) \in Limits!Bucket /\ Limits!LimitOf(key) \in Nat
        BY <1>2, Numbers
      <3>2. Limits!Counted(key).count \in Int
        BY <3>1 DEF Limits!Bucket
      <3> QED
        BY <3>1, <3>2 DEF Limits!OverLimit, refused
    <2>6. KeyOK(side, k)
      BY DEF KeysOK
    <2>7. CASE k = key
      <3>1. bucket'[k] = Limits!Counted(k)
        BY <1>1, <1>2, <2>7 DEF LimitTypesOK, RequestType
      <3>2. Added(side, k, r)
        BY <2>4, <2>5, <2>7 DEF Added
      <3> QED
        BY <1>1, <2>6, <3>1, <3>2, CountedKey
    <2>8. CASE k # key
      <3>1. bucket'[k] = bucket[k]
        BY <1>1, <1>2, <2>8 DEF LimitTypesOK, RequestType
      <3>2. \A q \in Hit(side, k)' : q \in Hit(side, k) /\ At(q, side)' = At(q, side)
        BY <2>4, <2>8
      <3> QED
        BY <1>1, <2>6, <3>1, <3>2, SameKey
    <2> QED
      BY <2>7, <2>8
  <1> QED
    BY <1>9, <1>10 DEF KeysOK

LEMMA FailOpenIInv ==
    ASSUME Limits!LimitAssumption, LimitIInv, NEW r \in Requests, Limits!FailOpen(r)
    PROVE  LimitIInv'
  <1> USE DEF LimitIInv
  <1>1. /\ request[r].pc \in Limits!Steps /\ now' = now /\ now \in Int /\ bucket' = bucket
        /\ request' = [request EXCEPT ![r].pc = Limits!Following(r)]
    BY DEF Limits!FailOpen, LimitTypesOK, RequestType
  <1>2. Limits!Following(r) \in {"id", "ip-id", "done"} /\ (request[r].pc # "ip" => Limits!Following(r) # "id")
    BY DEF Limits!Following
  <1>3. \A q \in Requests : request'[q].at = request[q].at /\ request'[q].client = request[q].client
                             /\ request'[q].pc = IF q = r THEN Limits!Following(r) ELSE request[q].pc
    BY <1>1 DEF LimitTypesOK, RequestType
  <1>4. request' \in [Requests -> RequestType]
    BY <1>1, <1>2 DEF LimitTypesOK, RequestType
  <1>5. LimitTypesOK'
    BY <1>1, <1>2, <1>3, <1>4 DEF LimitTypesOK, RequestType, At, Limits!Steps
  <1>6. ASSUME NEW side \in Sides, NEW key \in Limits!Keys PROVE KeyOK(side, key)'
    <2>1. \A q \in Requests : At(q, side)' = At(q, side) /\ Limits!KeyOf(q, side)' = Limits!KeyOf(q, side)
      BY <1>3 DEF At, Limits!KeyOf
    <2>2. \A q \in Hit(side, key)' : q \in Hit(side, key) /\ At(q, side)' = At(q, side)
      BY <2>1 DEF Hit
    <2> QED
      BY <1>1, <2>2, SameKey DEF KeysOK
  <1> QED
    BY <1>5, <1>6 DEF KeysOK

LEMMA CleanupIInv ==
    ASSUME Limits!LimitAssumption, LimitIInv, Limits!Cleanup
    PROVE  LimitIInv'
  <1> USE DEF LimitIInv
  <1>1. /\ bucket' = [key \in Limits!Keys |-> IF bucket[key] # NULL /\ Limits!Stale(bucket[key]) THEN NULL ELSE bucket[key]]
        /\ now' = now /\ now \in Int /\ request' = request
    BY DEF Limits!Cleanup, LimitTypesOK, RequestType
  <1>2. LimitTypesOK'
    BY <1>1 DEF LimitTypesOK, RequestType, At
  <1>3. ASSUME NEW side \in Sides, NEW key \in Limits!Keys PROVE KeyOK(side, key)'
    <2>1. \A q \in Requests : At(q, side)' = At(q, side) /\ Limits!KeyOf(q, side)' = Limits!KeyOf(q, side)
      BY <1>1 DEF At, Limits!KeyOf
    <2>2. Hit(side, key)' = Hit(side, key)
      BY <2>1 DEF Hit
    <2>3. KeyOK(side, key)
      BY DEF KeysOK
    <2>4. CASE bucket'[key] = bucket[key]
      <3>1. \A q \in Hit(side, key)' : q \in Hit(side, key) /\ At(q, side)' = At(q, side)
        BY <2>1, <2>2 DEF Hit
      <3>2. now' \in Int /\ now' >= now
        BY <1>1
      <3> QED
        BY <2>3, <2>4, <3>1, <3>2, SameKey
    <2>5. CASE bucket[key] # NULL /\ bucket'[key] = NULL /\ Limits!Stale(bucket[key])
      <3>1. /\ bucket[key] \in Limits!Bucket /\ Window \in Nat \ {0} /\ KeepBuckets \in Nat
            /\ KeepBuckets >= Window - 1
        BY <2>5, Numbers DEF Limits!LimitAssumption
      <3>2. bucket[key].updated \in Int /\ bucket[key].updated < now - KeepBuckets
        BY <2>5, <3>1 DEF Limits!Bucket, Limits!Stale
      <3>3. \A q \in Hit(side, key) : At(q, side) \in Int /\ At(q, side) <= bucket[key].updated
        BY <2>3, <2>5 DEF KeyOK, RunningOK, Hit, At, LimitTypesOK, RequestType, Times
      <3>4. EmptyOK(side, key)
        BY <1>1, <3>1, <3>2, <3>3 DEF EmptyOK
      <3>5. EmptyOK(side, key)'
        <4>1. \A q \in Hit(side, key)' : q \in Hit(side, key) /\ At(q, side)' = At(q, side)
          BY <2>1, <2>2 DEF Hit
        <4> QED
          BY <1>1, <3>4, <4>1 DEF EmptyOK
      <3>6. \A t \in Int : Hits(side, key, t, t + Window - 1)' = Hits(side, key, t, t + Window - 1)
        BY <2>1, <2>2 DEF Hits, Hit
      <3>7. Limits!LimitOf(key)' = Limits!LimitOf(key)
        BY DEF Limits!LimitOf, Limits!IpKeys
      <3> QED
        BY <2>3, <2>5, <3>5, <3>6, <3>7 DEF KeyOK
    <2> QED
      BY <1>1, <2>4, <2>5
  <1> QED
    BY <1>2, <1>3 DEF KeysOK

LEMMA LimitNextIInv ==
    ASSUME Limits!LimitAssumption, LimitIInv, [Limits!Next]_Limits!vars
    PROVE  LimitIInv'
  <1>1. ASSUME request' = request, bucket' = bucket, now' \in Int, now' >= now PROVE LimitIInv'
    <2>1. LimitTypesOK'
      BY <1>1 DEF LimitIInv, LimitTypesOK, RequestType, At
    <2>2. ASSUME NEW side \in Sides, NEW key \in Limits!Keys PROVE KeyOK(side, key)'
      <3>1. \A q \in Requests : At(q, side)' = At(q, side) /\ Limits!KeyOf(q, side)' = Limits!KeyOf(q, side)
        BY <1>1 DEF At, Limits!KeyOf
      <3>2. \A q \in Hit(side, key)' : q \in Hit(side, key) /\ At(q, side)' = At(q, side)
        BY <3>1 DEF Hit
      <3> QED
        BY <1>1, <3>2, SameKey DEF LimitIInv, KeysOK
    <2> QED
      BY <2>1, <2>2 DEF LimitIInv, KeysOK
  <1>2. CASE Limits!Tick
    BY <1>1, <1>2 DEF Limits!Tick, LimitIInv, LimitTypesOK, RequestType
  <1>3. CASE UNCHANGED Limits!vars
    BY <1>1, <1>3 DEF Limits!vars, LimitIInv, LimitTypesOK, RequestType
  <1> QED
    BY <1>2, <1>3, ArriveIInv, CountIInv, FailOpenIInv, CleanupIInv DEF Limits!Next

\* What the bucket of every key says of the requests counted under it.
THEOREM RatesInvariant == ASSUME Limits!LimitAssumption PROVE Limits!Spec => []LimitIInv
  <1>1. Limits!Init => LimitIInv
    BY LimitInitIInv
  <1>2. LimitIInv /\ [Limits!Next]_Limits!vars => LimitIInv'
    BY LimitNextIInv
  <1> QED
    BY <1>1, <1>2, PTL DEF Limits!Spec

LEMMA IInvLimits ==
    ASSUME Limits!LimitAssumption, LimitIInv PROVE Limits!LimitHolds
  <1>1. ASSUME NEW side \in Sides, NEW key \in Limits!Keys, NEW t \in Int
        PROVE  /\ Cardinality(Limits!Admitted(side, key, t)) \in Nat
               /\ Cardinality(Limits!Admitted(side, key, t)) <= 2 * Limits!LimitOf(key) - 1
    <2>1. Limits!Admitted(side, key, t) \subseteq Hits(side, key, t, t + Window - 1)
      BY DEF Limits!Admitted, Hits, Hit, At
    <2>2. /\ IsFiniteSet(Hits(side, key, t, t + Window - 1))
          /\ Cardinality(Hits(side, key, t, t + Window - 1)) \in Nat
      BY HitsFinite
    <2>3. /\ Cardinality(Limits!Admitted(side, key, t)) \in Nat
          /\ Cardinality(Limits!Admitted(side, key, t)) <= Cardinality(Hits(side, key, t, t + Window - 1))
      BY <2>1, <2>2, FS_Subset, FS_CardinalityType
    <2>4. Cardinality(Hits(side, key, t, t + Window - 1)) <= 2 * Limits!LimitOf(key) - 1
      BY DEF LimitIInv, KeysOK, KeyOK
    <2>5. Limits!LimitOf(key) \in Nat
      BY Numbers DEF LimitIInv
    <2> QED
      BY <2>2, <2>3, <2>4, <2>5
  <1>2. ASSUME NEW c \in Clients
        PROVE  /\ <<"id", c[2]>> \in Limits!Keys /\ Limits!LimitOf(<<"id", c[2]>>) = Limit
               /\ <<"ip", c[1]>> \in Limits!Keys /\ Limits!LimitOf(<<"ip", c[1]>>) = IpLimit
    BY DEF Limits!Keys, Limits!NameKeys, Limits!IpKeys, Limits!LimitOf
  <1>3. \A t \in 0..LimitMaxTime : t \in Int
    OBVIOUS
  <1> QED
    BY <1>1, <1>2, <1>3, SameCardinality DEF Limits!LimitHolds, Sides

\* No stretch of time as long as a window lets more through for an identifier or an
\* address than one less than twice the limit: for any clients and requests, any
\* failures of the database, and whenever old buckets are deleted (rateLimiter.ts).
THEOREM LimitHoldsAlways ==
    ASSUME Limits!LimitAssumption PROVE Limits!Spec => []LimitHolds
  <1>1. LimitIInv => LimitHolds
    BY IInvLimits DEF LimitHolds
  <1> QED
    BY <1>1, RatesInvariant, PTL

-----------------------------------------------------------------------------
(***************************************************************************)
(* A card that waits beside a registered wallet is of a collectible, or its *)
(* payment and the registration overlapped (late): with the types, this is *)
(* inductive by itself.                                                    *)
(***************************************************************************)

PageType == [pc : {"closed", "connected", "signed", "verify", "register", "consume"},
             link : Nat, addr : Wallets \union {NULL}, sees : Nat]
LinkType == [status : {"active", "revoked", "expired", "used"}, uses : Nat]
ChallengeType == [addr : Wallets, status : {"open", "expired", "used"}]
CardType == [status : {"none", "wallet_required", "ready_to_issue"}, addr : Wallets \union {NULL}]
FulfilType == [pc : {"unpaid", "paid", "done"}, saw : Wallets \union {NULL}, late : BOOLEAN]

WalletTypesOK ==
    /\ wallet \in Wallets \union {NULL}
    /\ challenges \in Seq(ChallengeType)
    /\ links \in Seq(LinkType)
    /\ page \in [Pages -> PageType]
    /\ \A p \in Pages : page[p].pc # "closed" => page[p].addr \in Wallets
    /\ card \in [Cards -> CardType]
    /\ fulfil \in [Cards -> FulfilType]

\* Only the card of a customer who had no wallet, or of a collectible, waits.
WalletIInv == WalletTypesOK /\ Wallet!WaitingIsExplained

LEMMA Element ==
    ASSUME NEW S, NEW s \in Seq(S), NEW i \in DOMAIN s
    PROVE  s[i] \in S
OBVIOUS

LEMMA Updated ==
    ASSUME NEW S, NEW s \in Seq(S), NEW i, NEW e, i \in DOMAIN s => e \in S
    PROVE  [s EXCEPT ![i] = e] \in Seq(S)
  <1>1. Len(s) \in Nat /\ DOMAIN s = 1..Len(s)
    OBVIOUS
  <1>2. \A j \in 1..Len(s) : s[j] \in S
    BY <1>1, Element
  <1>3. [s EXCEPT ![i] = e] = [j \in 1..Len(s) |-> IF j = i THEN e ELSE s[j]]
    BY <1>1
  <1>4. \A j \in 1..Len(s) : (IF j = i THEN e ELSE s[j]) \in S
    BY <1>1, <1>2
  <1>5. PICK t : t = [j \in 1..Len(s) |-> IF j = i THEN e ELSE s[j]]
    OBVIOUS
  <1>6. t \in [1..Len(s) -> S]
    BY <1>4, <1>5
  <1>7. t \in Seq(S)
    BY <1>1, <1>6
  <1> QED
    BY <1>3, <1>5, <1>7

LEMMA WalletInitIInv == Wallet!Init => WalletIInv
BY DEF Wallet!Init, WalletIInv, WalletTypesOK, Wallet!WaitingIsExplained, Wallet!NoPage, PageType, CardType, FulfilType

PagesOK ==
    /\ page \in [Pages -> PageType]
    /\ \A p \in Pages : page[p].pc # "closed" => page[p].addr \in Wallets

LEMMA GotoPages ==
    ASSUME WalletTypesOK, NEW p \in Pages, NEW pc, Wallet!Goto(p, pc),
           pc \in {"closed", "verify", "register", "consume"}, page[p].pc # "closed"
    PROVE  PagesOK'
BY DEF Wallet!Goto, WalletTypesOK, PageType, PagesOK

LEMMA ClosedPages ==
    ASSUME WalletTypesOK, NEW p \in Pages, page' = [page EXCEPT ![p] = Wallet!NoPage]
    PROVE  PagesOK'
BY DEF WalletTypesOK, PageType, PagesOK, Wallet!NoPage

\* What does not touch the cards, the payments or the wallet.
LEMMA SameRows ==
    ASSUME WalletIInv, card' = card, fulfil' = fulfil, wallet' = wallet,
           challenges' \in Seq(ChallengeType), links' \in Seq(LinkType), PagesOK'
    PROVE  WalletIInv'
BY DEF WalletIInv, WalletTypesOK, Wallet!WaitingIsExplained, PagesOK

LEMMA LinksIInv ==
    ASSUME WalletIInv,
           Wallet!Load \/ Wallet!IssueLink \/ Wallet!RevokeLink \/ (\E i \in DOMAIN links : Wallet!ExpireLink(i))
    PROVE  WalletIInv'
  <1>1. challenges \in Seq(ChallengeType) /\ links \in Seq(LinkType) /\ PagesOK
    BY DEF WalletIInv, WalletTypesOK, PagesOK
  <1>2. [i \in DOMAIN links |-> Wallet!Revoked(links[i])] \in Seq(LinkType)
    <2>1. \A i \in 1..Len(links) : Wallet!Revoked(links[i]) \in LinkType
      <3>1. \A i \in 1..Len(links) : links[i] \in LinkType
        BY <1>1, Element
      <3> QED
        BY <3>1 DEF Wallet!Revoked, LinkType
    <2> QED
      BY <1>1, <2>1
  <1>3. CASE Wallet!Load
    BY <1>1, <1>3, SameRows DEF Wallet!Load, PagesOK
  <1>4. CASE Wallet!IssueLink
    <2>1. links' = Append([i \in DOMAIN links |-> Wallet!Revoked(links[i])], [status |-> "active", uses |-> 0])
      BY <1>4 DEF Wallet!IssueLink
    <2>2. [status |-> "active", uses |-> 0] \in LinkType
      BY DEF LinkType
    <2>3. links' \in Seq(LinkType)
      BY <1>2, <2>1, <2>2
    <2> QED
      BY <1>1, <1>4, <2>3, SameRows DEF Wallet!IssueLink, PagesOK
  <1>5. CASE Wallet!RevokeLink
    BY <1>1, <1>2, <1>5, SameRows DEF Wallet!RevokeLink, PagesOK
  <1>6. CASE \E i \in DOMAIN links : Wallet!ExpireLink(i)
    <2>1. PICK i \in DOMAIN links : Wallet!ExpireLink(i)
      BY <1>6
    <2>2. links' = [links EXCEPT ![i].status = "expired"]
      BY <2>1 DEF Wallet!ExpireLink
    <2>3. links' \in Seq(LinkType)
      <3>1. [links[i] EXCEPT !.status = "expired"] \in LinkType
        <4>1. links[i] \in LinkType
          BY <1>1, <2>1, Element
        <4> QED
          BY <4>1 DEF LinkType
      <3> QED
        BY <1>1, <2>2, <3>1, Updated
    <2> QED
      BY <1>1, <2>1, <2>3, SameRows DEF Wallet!ExpireLink, PagesOK
  <1> QED
    BY <1>3, <1>4, <1>5, <1>6

LEMMA RegisterIInv ==
    ASSUME WalletIInv, NEW p \in Pages, Wallet!Register(p)
    PROVE  WalletIInv'
  <1>1. challenges \in Seq(ChallengeType) /\ links \in Seq(LinkType) /\ page[p].addr \in Wallets
        /\ page[p].pc = "register"
    BY DEF WalletIInv, WalletTypesOK, Wallet!Register
  <1>2. /\ challenges' = [challenges EXCEPT ![page[p].sees].status = "used"]
        /\ wallet' = page[p].addr
        /\ card' = [c \in Cards |-> IF Wallet!WaitsFor(c) THEN Wallet!Ready(page[p].addr) ELSE card[c]]
        /\ fulfil' = fulfil
    BY DEF Wallet!Register
  <1>3. challenges' \in Seq(ChallengeType)
    <2> DEFINE i == page[p].sees
    <2>1. i \in DOMAIN challenges => [challenges[i] EXCEPT !.status = "used"] \in ChallengeType
      <3>1. i \in DOMAIN challenges => challenges[i] \in ChallengeType
        BY <1>1, Element
      <3> QED
        BY <3>1 DEF ChallengeType
    <2>2. challenges' = [challenges EXCEPT ![i] = [challenges[i] EXCEPT !.status = "used"]]
      BY <1>2
    <2> HIDE DEF i
    <2> QED
      BY <1>1, <2>1, <2>2, Updated
  <1>4. links' \in Seq(LinkType) /\ PagesOK'
    <2>1. CASE Wallet!SignedIn(p)
      BY <1>1, <2>1, GotoPages DEF Wallet!Register, WalletIInv
    <2>2. CASE ~Wallet!SignedIn(p)
      <3>1. links' = [links EXCEPT ![page[p].link].uses = @ + 1] /\ Wallet!Goto(p, "consume")
        BY <2>2 DEF Wallet!Register
      <3> DEFINE i == page[p].link
      <3>2. i \in DOMAIN links => [links[i] EXCEPT !.uses = @ + 1] \in LinkType
        <4>1. i \in DOMAIN links => links[i] \in LinkType
          BY <1>1, Element
        <4> QED
          BY <4>1 DEF LinkType
      <3>3. links' = [links EXCEPT ![i] = [links[i] EXCEPT !.uses = @ + 1]]
        BY <3>1
      <3>4. links \in Seq(LinkType)
        BY <1>1
      <3>5. links' \in Seq(LinkType)
        <4> HIDE DEF i
        <4> QED
          BY <3>2, <3>3, <3>4, Updated
      <3> QED
        BY <1>1, <3>1, <3>5, GotoPages DEF WalletIInv
    <2> QED
      BY <2>1, <2>2
  <1>5. card' \in [Cards -> CardType]
    BY <1>1, <1>2 DEF WalletIInv, WalletTypesOK, CardType, Wallet!Ready
  <1>6. \A c \in Cards \ Collectible : card'[c].status # "wallet_required"
    BY <1>2 DEF Wallet!WaitsFor, Wallet!Ready
  <1> QED
    BY <1>1, <1>2, <1>3, <1>4, <1>5, <1>6 DEF WalletIInv, WalletTypesOK, PagesOK, Wallet!WaitingIsExplained

LEMMA PageIInv ==
    ASSUME WalletIInv, NEW p \in Pages,
           \/ Wallet!PageStep(p)
           \/ \E link \in {0} \union DOMAIN links, addr \in Wallets : Wallet!Open(p, link, addr)
    PROVE  WalletIInv'
  <1>1. challenges \in Seq(ChallengeType) /\ links \in Seq(LinkType) /\ PagesOK /\ page[p] \in PageType
        /\ (page[p].pc # "closed" => page[p].addr \in Wallets)
    BY DEF WalletIInv, WalletTypesOK, PagesOK
  <1>2. CASE Wallet!Challenge(p)
    <2>1. CASE Wallet!Admitted(p)
      <3>1. /\ challenges' = Append(challenges, [addr |-> page[p].addr, status |-> "open"])
            /\ page' = [page EXCEPT ![p].pc = "signed", ![p].sees = Len(challenges')]
            /\ page[p].pc = "connected"
        BY <1>2, <2>1 DEF Wallet!Challenge
      <3>2. [addr |-> page[p].addr, status |-> "open"] \in ChallengeType
        BY <1>1, <3>1 DEF ChallengeType
      <3>3. challenges' \in Seq(ChallengeType) /\ Len(challenges') \in Nat
        BY <1>1, <3>1, <3>2
      <3>4. PICK n \in Nat : n = Len(challenges')
        BY <3>3
      <3>5. PagesOK'
        BY <1>1, <3>1, <3>4 DEF PagesOK, PageType
      <3> QED
        BY <1>1, <1>2, <3>3, <3>5, SameRows DEF Wallet!Challenge
    <2>2. CASE ~Wallet!Admitted(p)
      BY <1>1, <1>2, <2>2, SameRows, GotoPages DEF Wallet!Challenge, WalletIInv
    <2> QED
      BY <2>1, <2>2
  <1>3. CASE Wallet!Abandon(p) \/ Wallet!Crash(p)
    BY <1>1, <1>3, SameRows, ClosedPages DEF Wallet!Abandon, Wallet!Crash, WalletIInv
  <1>4. CASE Wallet!Confirm(p)
    BY <1>1, <1>4, SameRows, GotoPages DEF Wallet!Confirm, WalletIInv
  <1>5. CASE Wallet!Verify(p)
    BY <1>1, <1>5, SameRows, GotoPages DEF Wallet!Verify, WalletIInv
  <1>6. CASE Wallet!Consume(p)
    <2>1. links' = [links EXCEPT ![page[p].link].status = "used"] /\ Wallet!Goto(p, "closed")
      BY <1>6 DEF Wallet!Consume
    <2> DEFINE i == page[p].link
    <2>2. i \in DOMAIN links => [links[i] EXCEPT !.status = "used"] \in LinkType
      <3>1. i \in DOMAIN links => links[i] \in LinkType
        BY <1>1, Element
      <3> QED
        BY <3>1 DEF LinkType
    <2>3. links' = [links EXCEPT ![i] = [links[i] EXCEPT !.status = "used"]]
      BY <2>1
    <2>5. links' \in Seq(LinkType)
      <3> HIDE DEF i
      <3> QED
        BY <1>1, <2>2, <2>3, Updated
    <2> QED
      BY <1>1, <1>6, <2>1, <2>5, SameRows, GotoPages DEF Wallet!Consume, WalletIInv
  <1>7. CASE \E link \in {0} \union DOMAIN links, addr \in Wallets : Wallet!Open(p, link, addr)
    <2>1. PICK link \in {0} \union DOMAIN links, addr \in Wallets : Wallet!Open(p, link, addr)
      BY <1>7
    <2>2. link \in Nat
      BY <1>1
    <2>3. page' = [page EXCEPT ![p] = [pc |-> "connected", link |-> link, addr |-> addr, sees |-> 0]]
      BY <2>1 DEF Wallet!Open
    <2>4. PagesOK'
      BY <1>1, <2>2, <2>3 DEF PagesOK, PageType
    <2> QED
      BY <1>1, <2>1, <2>4, SameRows DEF Wallet!Open
  <1> QED
    BY <1>2, <1>3, <1>4, <1>5, <1>6, <1>7, RegisterIInv DEF Wallet!PageStep

LEMMA PaymentIInv ==
    ASSUME WalletIInv, NEW c \in Cards, Wallet!ReadWallet(c) \/ Wallet!CreateCard(c)
    PROVE  WalletIInv'
  <1>1. CASE Wallet!ReadWallet(c)
    <2>1. fulfil' = [fulfil EXCEPT ![c] = [@ EXCEPT !.pc = "paid", !.saw = wallet]]
      BY <1>1 DEF Wallet!ReadWallet
    <2>2. fulfil' \in [Cards -> FulfilType]
      BY <2>1 DEF WalletIInv, WalletTypesOK, FulfilType
    <2>3. \A d \in Cards : fulfil'[d].late = fulfil[d].late
      BY <2>1 DEF WalletIInv, WalletTypesOK, FulfilType
    <2> QED
      BY <1>1, <2>2, <2>3 DEF Wallet!ReadWallet, WalletIInv, WalletTypesOK, Wallet!WaitingIsExplained
  <1>2. CASE Wallet!CreateCard(c)
    <2> DEFINE new == IF fulfil[c].saw # NULL /\ c \notin Collectible THEN Wallet!Ready(fulfil[c].saw)
                      ELSE [status |-> "wallet_required", addr |-> NULL]
               late == fulfil[c].saw = NULL /\ wallet # NULL
    <2>1. /\ card' = [card EXCEPT ![c] = new]
          /\ fulfil' = [fulfil EXCEPT ![c].pc = "done", ![c].late = late]
          /\ wallet' = wallet
      BY <1>2 DEF Wallet!CreateCard
    <2>2. new \in CardType /\ late \in BOOLEAN
      BY DEF WalletIInv, WalletTypesOK, CardType, FulfilType, Wallet!Ready
    <2>3. c \notin Collectible /\ new.status = "wallet_required" /\ wallet # NULL => late
      BY DEF Wallet!Ready
    <2> HIDE DEF new, late
    <2>4. card' \in [Cards -> CardType]
      BY <2>1, <2>2 DEF WalletIInv, WalletTypesOK
    <2>5. fulfil' \in [Cards -> FulfilType]
      <3>1. PICK g : g = [fulfil EXCEPT ![c].pc = "done"]
        OBVIOUS
      <3>2. g \in [Cards -> FulfilType]
        BY <3>1 DEF WalletIInv, WalletTypesOK, FulfilType
      <3>3. fulfil' = [g EXCEPT ![c].late = late]
        BY <2>1, <3>1 DEF WalletIInv, WalletTypesOK
      <3> QED
        BY <2>2, <3>2, <3>3 DEF FulfilType
    <2>6. \A d \in Cards : fulfil'[d].late = IF d = c THEN late ELSE fulfil[d].late
      BY <2>1 DEF WalletIInv, WalletTypesOK, FulfilType
    <2>7. Wallet!WaitingIsExplained'
      BY <2>1, <2>3, <2>6 DEF WalletIInv, WalletTypesOK, Wallet!WaitingIsExplained
    <2> QED
      BY <1>2, <2>4, <2>5, <2>7 DEF Wallet!CreateCard, WalletIInv, WalletTypesOK
  <1> QED
    BY <1>1, <1>2

LEMMA WalletNextIInv ==
    ASSUME WalletIInv, [Wallet!Next]_Wallet!vars
    PROVE  WalletIInv'
  <1>1. CASE \E i \in DOMAIN challenges : Wallet!ExpireChallenge(i)
    <2>1. PICK i \in DOMAIN challenges : Wallet!ExpireChallenge(i)
      BY <1>1
    <2>2. challenges' = [challenges EXCEPT ![i].status = "expired"] /\ challenges \in Seq(ChallengeType)
      BY <2>1 DEF Wallet!ExpireChallenge, WalletIInv, WalletTypesOK
    <2>3. challenges' \in Seq(ChallengeType)
      <3>1. [challenges[i] EXCEPT !.status = "expired"] \in ChallengeType
        <4>1. challenges[i] \in ChallengeType
          BY <2>2, Element
        <4> QED
          BY <4>1 DEF ChallengeType
      <3> QED
        BY <2>2, <3>1, Updated
    <2> QED
      BY <2>1, <2>3, SameRows DEF Wallet!ExpireChallenge, WalletIInv, WalletTypesOK, PagesOK
  <1>2. CASE UNCHANGED Wallet!vars
    BY <1>2 DEF Wallet!vars, WalletIInv, WalletTypesOK, Wallet!WaitingIsExplained
  <1> QED
    BY <1>1, <1>2, LinksIInv, PageIInv, PaymentIInv DEF Wallet!Next

\* Types, and why cards wait.
THEOREM WaitingInvariant == Wallet!Spec => []WalletIInv
  <1>1. WalletIInv /\ [Wallet!Next]_Wallet!vars => WalletIInv'
    BY WalletNextIInv
  <1> QED
    BY <1>1, WalletInitIInv, PTL DEF Wallet!Spec

\* A card that needs no collectible waits beside a registered wallet only if its
\* payment and the registration overlapped: for any pages, links and challenges.
THEOREM WaitingIsExplainedAlways == Wallet!Spec => []WaitingIsExplained
  <1>1. WalletIInv => WaitingIsExplained
    BY DEF WalletIInv, WaitingIsExplained
  <1> QED
    BY <1>1, WaitingInvariant, PTL

-----------------------------------------------------------------------------
(***************************************************************************)
(* The tree of agencies.  RowsInv says what the rows are and what each writer *)
(* has read of them that is still so when it writes.  TreeInv is about the *)
(* parents: a link that has passed the cycle check and is not yet written  *)
(* closes no ring of checked links (LinkOK), whatever the sync and the     *)
(* sign-on do meanwhile.  It holds for one upsert at a time.               *)
(***************************************************************************)

Member(u) == user[u].role \in {"user", "agency"}

AgenciesOK ==
    /\ agency \in [Agencies -> Tree!AgencyRow]
    /\ \A a \in Agencies :
         /\ agency[a].parent # a /\ agency[a].pending # a
         /\ ~Tree!Exists(a) => agency[a] = Tree!NoAgency
         /\ agency[a].parent # None => Tree!Exists(agency[a].parent)
    /\ unchecked \subseteq {a \in Agencies : Tree!Exists(a)}

UsersOK ==
    /\ user \in [Agents -> Tree!UserRow]
    /\ \A u \in Agents :
         /\ user[u].role = "none" => user[u] = Tree!NoUser
         /\ user[u].role = "agency" <=> user[u].agency # None
         /\ user[u].agency # None => Tree!Exists(user[u].agency)
         /\ user[u].referrer # None => Tree!Exists(user[u].referrer)

\* What an upsert has resolved and what it is about to write.
UpsertOK(p) ==
    LET in == upsert[p].in
        set == upsert[p].set
    IN /\ upsert[p] \in Tree!UpsertType
       /\ upsert[p].pc # "idle" =>
            /\ set.parent # in.id /\ set.pending # in.id
            /\ set.parent \in Agencies => Tree!Exists(set.parent)
       /\ upsert[p].pc = "resolved" => (upsert[p].known => Tree!Exists(in.id))
       /\ upsert[p].pc = "saved" =>
            /\ upsert[p].adopted \subseteq {c \in Agencies \ {in.id} : Tree!Exists(c)}
            /\ upsert[p].login # "nothing" => in.login \in Agents
            /\ upsert[p].login = "promote" => Member(in.login)

UpsertsOK == upsert \in [Upserts -> Tree!UpsertType] /\ \A p \in Upserts : UpsertOK(p)

SyncOK ==
    /\ sync \in {Tree!Idle} \cup [pc: {"nodes", "parents", "users"}, tree: task.trees,
                             todo: SUBSET (Agencies \cup Agents)]
    /\ sync.pc = "nodes" => /\ sync.todo \subseteq DOMAIN sync.tree
                            /\ \A a \in DOMAIN sync.tree \ sync.todo : Tree!Exists(a)
    /\ sync.pc \in {"parents", "users"} => \A a \in DOMAIN sync.tree : Tree!Exists(a)
    /\ sync.pc = "parents" => sync.todo \subseteq DOMAIN sync.tree
    /\ sync.pc = "users" => sync.todo \subseteq {u \in Agents : Member(u)}

SsoOK ==
    /\ sso \in {Tree!Idle} \cup [pc: {"create", "login", "promote", "register"},
                            agency: Agencies, email: Tree!Emails, contact: Tree!Emails]
    /\ sso.pc \in {"login", "promote", "register"} => Tree!Exists(sso.agency)
    /\ sso.pc \in {"promote", "register"} => sso.email \in Agents
    /\ sso.pc = "promote" => Member(sso.email)

RowsInv == task \in TreeScopes /\ AgenciesOK /\ UsersOK /\ UpsertsOK /\ SyncOK /\ SsoOK

\* A link that has passed the check closes no ring: whatever joins the new parent
\* to the agency below it goes through a link that was not checked.
Ascends(ring, end, top) ==
    end \in ring /\ top \in ring /\ \A a \in ring \ {end} : agency[a].parent \in ring

LinkOK(p) ==
    LET in == upsert[p].in
        top == upsert[p].set.parent
    IN /\ \/ upsert[p].pc = "resolved" /\ upsert[p].known
          \/ upsert[p].pc = "saved" /\ Tree!Exists(in.id)
       => \A ring \in SUBSET Agencies :
            Ascends(ring, in.id, top) => (ring \ {in.id}) \cap unchecked # {}

TreeInv == Tree!CyclesAreUnchecked /\ \A p \in Upserts : LinkOK(p)

TreeIInv == RowsInv /\ TreeInv

-----------------------------------------------------------------------------

LEMMA RowsInvTypeOK == RowsInv => Tree!TypeOK
BY DEF RowsInv, Tree!TypeOK, AgenciesOK, UsersOK, UpsertsOK, SyncOK, SsoOK

LEMMA Trees ==
    ASSUME Tree!ScopeAssumption, task \in TreeScopes, NEW t \in task.trees
    PROVE  /\ DOMAIN t \subseteq Agencies
           /\ \A a \in DOMAIN t : t[a] \in Tree!NodeType /\ t[a].parent \in (DOMAIN t \ {a}) \cup {None}
BY DEF Tree!ScopeAssumption

LEMMA InitRows == ASSUME Tree!NamesAssumption PROVE Tree!Init => RowsInv
  <1> SUFFICES ASSUME Tree!Init PROVE RowsInv
    OBVIOUS
  <1>1. AgenciesOK
    BY DEF Tree!Init, AgenciesOK, Tree!AgencyRow, Tree!NoAgency, Tree!Ids, Tree!Emails, Tree!Exists, Tree!NamesAssumption
  <1>2. UsersOK
    BY DEF Tree!Init, UsersOK, Tree!UserRow, Tree!NoUser, Tree!Ids
  <1>3. UpsertsOK
    BY DEF Tree!Init, UpsertsOK, UpsertOK, Tree!UpsertType, Tree!Idle
  <1>4. SyncOK /\ SsoOK
    BY DEF Tree!Init, SyncOK, SsoOK, Tree!Idle
  <1> QED
    BY <1>1, <1>2, <1>3, <1>4 DEF RowsInv, Tree!Init

-----------------------------------------------------------------------------
(* What the rows may become. *)

Stable ==
    /\ task' = task
    /\ \A a \in Agencies : Tree!Exists(a) => Tree!Exists(a)'
    /\ \A u \in Agents : Member(u) => Member(u)'

LEMMA UpsertStable ==
    ASSUME NEW p \in Upserts, UpsertOK(p), Stable, upsert'[p] = upsert[p]
    PROVE  UpsertOK(p)'
  <1>1. upsert[p].pc = "saved" => upsert[p].in.id \in Agencies /\ upsert[p].adopted \subseteq Agencies
    BY DEF UpsertOK, Tree!UpsertType, Tree!InputType, Tree!Idle
  <1>2. upsert[p].pc = "resolved" => upsert[p].in.id \in Agencies
    BY DEF UpsertOK, Tree!UpsertType, Tree!InputType, Tree!Idle
  <1> QED
    BY <1>1, <1>2 DEF UpsertOK, Stable

LEMMA UpsertsStable ==
    ASSUME UpsertsOK, Stable, upsert' = upsert
    PROVE  UpsertsOK'
BY UpsertStable DEF UpsertsOK

LEMMA SyncStable ==
    ASSUME Tree!ScopeAssumption, task \in TreeScopes, SyncOK, Stable, sync' = sync
    PROVE  SyncOK'
  <1>1. sync.pc # "idle" => sync.tree \in task.trees
    BY DEF SyncOK, Tree!Idle
  <1>2. sync.pc # "idle" => DOMAIN sync.tree \subseteq Agencies
    BY <1>1, Trees
  <1> QED
    BY <1>2 DEF SyncOK, Stable

LEMMA SsoStable ==
    ASSUME SsoOK, Stable, sso' = sso
    PROVE  SsoOK'
BY DEF SsoOK, Stable, Tree!Idle

LEMMA AgenciesSame ==
    ASSUME AgenciesOK, agency' = agency, unchecked' = unchecked
    PROVE  AgenciesOK'
BY DEF AgenciesOK, Tree!Exists

LEMMA UsersSame ==
    ASSUME UsersOK, user' = user, \A a \in Agencies : Tree!Exists(a) => Tree!Exists(a)'
    PROVE  UsersOK'
BY DEF UsersOK, Tree!UserRow, Tree!Ids

\* A user's row is written.
LEMMA UserWritten ==
    ASSUME UsersOK, \A a \in Agencies : Tree!Exists(a) => Tree!Exists(a)', NEW u \in Agents, NEW row \in Tree!UserRow,
           row.role = "none" => row = Tree!NoUser, row.role = "agency" <=> row.agency # None,
           row.agency # None => Tree!Exists(row.agency)', row.referrer # None => Tree!Exists(row.referrer)',
           user' = [user EXCEPT ![u] = row]
    PROVE  UsersOK'
BY DEF UsersOK, Tree!UserRow, Tree!Ids

LEMMA MembersWritten ==
    ASSUME UsersOK, NEW u \in Agents, NEW row,
           Member(u) => row.role \in {"user", "agency"},
           user' = [user EXCEPT ![u] = row]
    PROVE  \A v \in Agents : Member(v) => Member(v)'
BY DEF UsersOK, Member

\* An account becomes an agency's.
LEMMA PromotedRow ==
    ASSUME Tree!NamesAssumption, UsersOK, NEW u \in Agents, NEW a \in Agencies, NEW row,
           \/ row = Tree!Promoted(user[u], a)
           \/ row = [Tree!Promoted(user[u], a) EXCEPT !.applied = FALSE]
    PROVE  /\ row \in Tree!UserRow
           /\ row.role = "agency" /\ row.agency = a /\ row.referrer = user[u].referrer
           /\ a # None
  <1>1. user[u] \in Tree!UserRow /\ a # None
    BY DEF UsersOK, Tree!NamesAssumption
  <1>2. PICK new : new = Tree!Promoted(user[u], a)
    OBVIOUS
  <1>3. new \in Tree!UserRow /\ new.role = "agency" /\ new.agency = a /\ new.referrer = user[u].referrer
    BY <1>1, <1>2 DEF Tree!Promoted, Tree!UserRow, Tree!Ids
  <1>4. /\ [new EXCEPT !.applied = FALSE] \in Tree!UserRow
        /\ [new EXCEPT !.applied = FALSE].role = "agency"
        /\ [new EXCEPT !.applied = FALSE].agency = a
        /\ [new EXCEPT !.applied = FALSE].referrer = user[u].referrer
    BY <1>3 DEF Tree!UserRow
  <1> QED
    BY <1>1, <1>2, <1>3, <1>4

LEMMA NewLoginRow ==
    ASSUME Tree!NamesAssumption, NEW a \in Agencies
    PROVE  /\ Tree!NewLogin(a) \in Tree!UserRow /\ Tree!NewLogin(a).role = "agency" /\ Tree!NewLogin(a).agency = a
           /\ Tree!NewLogin(a).referrer = None /\ a # None
BY DEF Tree!NewLogin, Tree!NoUser, Tree!UserRow, Tree!Ids, Tree!NamesAssumption

-----------------------------------------------------------------------------
(* The upserts. *)

LEMMA StableSame ==
    ASSUME task' = task, agency' = agency, user' = user
    PROVE  Stable
BY DEF Stable, Tree!Exists, Member

\* An upsert's transaction moves on, or is forgotten.
LEMMA UpsertMoves ==
    ASSUME RowsInv, Tree!ScopeAssumption, NEW p \in Upserts, NEW row \in Tree!UpsertType,
           upsert' = [upsert EXCEPT ![p] = row], UpsertOK(p)',
           UNCHANGED <<task, agency, user, sync, sso, unchecked>>
    PROVE  RowsInv'
  <1>1. Stable
    BY StableSame
  <1>2. AgenciesOK' /\ UsersOK' /\ SyncOK' /\ SsoOK'
    BY <1>1, AgenciesSame, UsersSame, SyncStable, SsoStable DEF RowsInv, Stable
  <1>3. \A q \in Upserts \ {p} : UpsertOK(q)'
    BY <1>1, UpsertStable DEF RowsInv, UpsertsOK
  <1> QED
    BY <1>2, <1>3 DEF RowsInv, UpsertsOK

LEMMA RollBackRows ==
    ASSUME RowsInv, Tree!ScopeAssumption, NEW p \in Upserts, Tree!RollBack(p),
           UNCHANGED <<task, agency, user, sync, sso, unchecked>>
    PROVE  RowsInv'
  <1>1. upsert' = [upsert EXCEPT ![p] = Tree!Idle] /\ Tree!Idle \in Tree!UpsertType
    BY DEF Tree!RollBack, Tree!UpsertType
  <1>2. upsert'[p] = Tree!Idle
    BY <1>1 DEF RowsInv, UpsertsOK
  <1>3. UpsertOK(p)'
    BY <1>1, <1>2 DEF UpsertOK, Tree!Idle
  <1> QED
    BY <1>1, <1>3, UpsertMoves

LEMMA ResolveRows ==
    ASSUME Tree!NamesAssumption, Tree!ScopeAssumption, RowsInv, NEW p \in Upserts, Tree!Resolve(p)
    PROVE  RowsInv'
  <1>1. PICK in \in task.inputs :
           /\ Tree!Accepted(in)
           /\ upsert' = [upsert EXCEPT ![p] =
                [pc |-> "resolved", in |-> in, known |-> Tree!Exists(in.id), set |-> Tree!Assignment(in)]]
    BY DEF Tree!Resolve
  <1>2. in \in Tree!InputType
    BY DEF RowsInv, Tree!ScopeAssumption
  <1>3. in.id \in Agencies /\ in.parent \in Tree!Ids \cup {Keep} /\ in.login \in Tree!Emails
    BY <1>2 DEF Tree!InputType
  <1>4. in.login # None => user[in.login].referrer \in Tree!Ids
    BY <1>3 DEF RowsInv, UsersOK, Tree!UserRow, Tree!Emails
  <1> DEFINE set == Tree!Assignment(in)
  <1>5. /\ set \in Tree!AssignmentType /\ set.parent # in.id /\ set.pending # in.id
        /\ set.parent \in Agencies => Tree!Exists(set.parent)
    <2>1. in.parent # in.id
      BY <1>1 DEF Tree!Accepted
    <2>2. None \notin Agencies /\ Keep \notin Agencies /\ None # Keep
      BY DEF Tree!NamesAssumption
    <2>3. CASE in.parent = None
      <3>1. set = [parent |-> None, pending |-> None]
        BY <2>2, <2>3 DEF Tree!Assignment
      <3> HIDE DEF set
      <3> QED
        BY <1>3, <2>2, <3>1 DEF Tree!AssignmentType, Tree!Ids
    <2>4. CASE in.parent \in Agencies /\ Tree!Exists(in.parent)
      <3>1. set = [parent |-> in.parent, pending |-> None]
        BY <2>2, <2>4 DEF Tree!Assignment
      <3> HIDE DEF set
      <3> QED
        BY <1>3, <2>1, <2>2, <2>4, <3>1 DEF Tree!AssignmentType, Tree!Ids
    <2>5. CASE in.parent \in Agencies /\ ~Tree!Exists(in.parent)
      <3>1. set = [parent |-> None, pending |-> in.parent]
        BY <2>2, <2>5 DEF Tree!Assignment
      <3> HIDE DEF set
      <3> QED
        BY <1>3, <2>1, <2>2, <2>5, <3>1 DEF Tree!AssignmentType, Tree!Ids
    <2>6. CASE in.parent = Keep
      <3> DEFINE referrer == IF in.login = None THEN None ELSE user[in.login].referrer
                 parent == IF Tree!Exists(in.id) \/ referrer = None THEN Keep ELSE referrer
      <3>1. set = [parent |-> parent, pending |-> Keep]
        BY <2>2, <2>6 DEF Tree!Assignment
      <3>2. referrer \in Tree!Ids /\ (referrer # None => Tree!Exists(referrer))
        BY <1>3, <1>4 DEF Tree!Ids, RowsInv, UsersOK, Tree!Emails
      <3>3. /\ parent \in Tree!Ids \cup {Keep} /\ parent # in.id
            /\ parent \in Agencies => Tree!Exists(parent)
        BY <1>3, <2>2, <3>2
      <3> HIDE DEF set, parent
      <3> QED
        BY <1>3, <2>2, <3>1, <3>3 DEF Tree!AssignmentType
    <2> QED
      BY <1>3, <2>3, <2>4, <2>5, <2>6 DEF Tree!Ids
  <1>6. Tree!Exists(in.id) \in BOOLEAN
    BY <1>3 DEF RowsInv, AgenciesOK, Tree!AgencyRow, Tree!Exists
  <1> DEFINE row == [pc |-> "resolved", in |-> in, known |-> Tree!Exists(in.id), set |-> set]
  <1> HIDE DEF set
  <1>7. row \in Tree!UpsertType
    BY <1>2, <1>5, <1>6 DEF Tree!UpsertType
  <1>8. upsert'[p] = row
    BY <1>1 DEF RowsInv, UpsertsOK, set
  <1>9. agency' = agency
    BY DEF Tree!Resolve
  <1>10. UpsertOK(p)'
    BY <1>5, <1>7, <1>8, <1>9 DEF UpsertOK, Tree!Exists
  <1> QED
    BY <1>1, <1>7, <1>10, UpsertMoves DEF Tree!Resolve, set

LEMMA SaveRows ==
    ASSUME Tree!NamesAssumption, Tree!ScopeAssumption, RowsInv, NEW p \in Upserts, Tree!Save(p)
    PROVE  RowsInv'
  <1> DEFINE in == upsert[p].in
             adopted == {c \in Agencies \ {in.id} : agency[c].pending = in.id}
             row == [pc |-> "saved", in |-> in, set |-> upsert[p].set,
                     adopted |-> adopted, login |-> Tree!Provision(in)]
  <1>1. UNCHANGED <<task, agency, user, sync, sso, unchecked>> /\ upsert[p].pc = "resolved"
    BY DEF Tree!Save
  <1>2. CASE Tree!RollBack(p)
    BY <1>1, <1>2, RollBackRows
  <1>3. CASE Tree!Provision(in) # "conflict" /\ upsert' = [upsert EXCEPT ![p] = row]
    <2>1. /\ UpsertOK(p) /\ upsert[p] \in Tree!UpsertType
      BY DEF RowsInv, UpsertsOK
    <2>2. in \in Tree!InputType /\ upsert[p].set \in Tree!AssignmentType
      BY <1>1, <2>1 DEF Tree!UpsertType, Tree!Idle
    <2>3. in.id \in Agencies /\ in.id # None /\ in.login \in Tree!Emails
      BY <2>2 DEF Tree!InputType, Tree!NamesAssumption
    <2>4. \A c \in adopted : Tree!Exists(c)
      BY <2>3 DEF RowsInv, AgenciesOK, Tree!NoAgency
    <2>5. /\ Tree!Provision(in) \in {"nothing", "promote", "create"}
          /\ Tree!Provision(in) # "nothing" => in.login \in Agents
          /\ Tree!Provision(in) = "promote" => Member(in.login)
      BY <1>3, <2>3 DEF Tree!Provision, Tree!Emails, Member
    <2>6. PICK does : does = Tree!Provision(in)
      OBVIOUS
    <2>7. PICK got : got = adopted
      OBVIOUS
    <2>8. got \in SUBSET Agencies /\ \A c \in got : Tree!Exists(c) /\ c # in.id
      BY <2>4, <2>7
    <2>9. row = [pc |-> "saved", in |-> in, set |-> upsert[p].set, adopted |-> got, login |-> does]
      BY <2>6, <2>7
    <2> HIDE DEF adopted, row
    <2>10. row \in Tree!UpsertType
      BY <2>2, <2>5, <2>6, <2>8, <2>9 DEF Tree!UpsertType
    <2>11. upsert'[p] = row
      BY <1>3 DEF RowsInv, UpsertsOK
    <2>12. /\ row.in = in /\ row.set = upsert[p].set /\ row.adopted = got /\ row.login = does
           /\ row.pc = "saved"
      BY <2>9
    <2>13. /\ upsert[p].set.parent # in.id /\ upsert[p].set.pending # in.id
           /\ upsert[p].set.parent \in Agencies => Tree!Exists(upsert[p].set.parent)
      BY <1>1, <2>1 DEF UpsertOK
    <2>14. UpsertOK(p)'
      BY <1>1, <2>3, <2>5, <2>6, <2>8, <2>10, <2>11, <2>12, <2>13 DEF UpsertOK, Tree!Exists, Member
    <2> QED
      BY <1>1, <1>3, <2>10, <2>14, UpsertMoves
  <1> QED
    BY <1>2, <1>3 DEF Tree!Save

LEMMA CommitRows ==
    ASSUME Tree!NamesAssumption, Tree!ScopeAssumption, RowsInv, NEW p \in Upserts, Tree!Commit(p)
    PROVE  RowsInv'
  <1>0. PICK in, set, adopted, does :
           /\ in = upsert[p].in /\ set = upsert[p].set
           /\ adopted = upsert[p].adopted /\ does = upsert[p].login
    OBVIOUS
  <1>1. /\ UpsertOK(p) /\ upsert[p] \in Tree!UpsertType /\ upsert[p].pc = "saved"
    BY DEF RowsInv, UpsertsOK, Tree!Commit
  <1>2. /\ in \in Tree!InputType /\ set \in Tree!AssignmentType
        /\ adopted \subseteq Agencies /\ does \in {"nothing", "promote", "create"}
    BY <1>0, <1>1 DEF Tree!UpsertType, Tree!Idle
  <1>3. /\ set.parent # in.id /\ set.pending # in.id
        /\ set.parent \in Agencies => Tree!Exists(set.parent)
        /\ \A c \in adopted : Tree!Exists(c) /\ c # in.id
        /\ does # "nothing" => in.login \in Agents
        /\ does = "promote" => Member(in.login)
    BY <1>0, <1>1 DEF UpsertOK
  <1>4. /\ does = "create" => user[in.login].role = "none"
        /\ agency' = [a \in Agencies |->
            IF a = in.id THEN Tree!Written(in, set, agency[a])
            ELSE IF a \in adopted
                 THEN [agency[a] EXCEPT !.parent = in.id, !.pending = None]
            ELSE agency[a]]
        /\ unchecked' = (IF set.parent = Keep THEN unchecked
                        ELSE unchecked \ {in.id}) \cup adopted
        /\ user' = CASE does = "nothing" -> user
                    [] does = "promote" ->
                         [user EXCEPT ![in.login] = Tree!Promoted(@, in.id)]
                    [] does = "create" ->
                         [user EXCEPT ![in.login] = Tree!NewLogin(in.id)]
        /\ upsert' = [upsert EXCEPT ![p] = Tree!Idle] /\ task' = task /\ sync' = sync /\ sso' = sso
    BY <1>0 DEF Tree!Commit, Tree!RollBack
  <1>5. /\ in.id \in Agencies /\ in.id # None /\ in.contact \in Tree!Emails /\ in.active \in BOOLEAN \cup {Keep}
    BY <1>2 DEF Tree!InputType, Tree!NamesAssumption
  <1>6. /\ set.parent \in Tree!Ids \cup {Keep} /\ set.pending \in Tree!Ids \cup {Keep}
        /\ None \notin Agencies /\ Keep \notin Agencies /\ None # Keep
    BY <1>2 DEF Tree!AssignmentType, Tree!NamesAssumption
  <1>7. PICK w : w = Tree!Written(in, set, agency[in.id])
    OBVIOUS
  <1>8. /\ w \in Tree!AgencyRow /\ w.exists = TRUE
        /\ w.parent # in.id /\ w.pending # in.id
        /\ w.parent \in Agencies => Tree!Exists(w.parent)
    <2>1. PICK old : old = agency[in.id]
      OBVIOUS
    <2>2. /\ old \in Tree!AgencyRow /\ old.parent # in.id /\ old.pending # in.id
          /\ old.parent # None => Tree!Exists(old.parent)
      BY <1>5, <2>1 DEF RowsInv, AgenciesOK
    <2>3. /\ old.parent \in Tree!Ids /\ old.pending \in Tree!Ids /\ old.active \in BOOLEAN /\ old.contact \in Tree!Emails
          /\ old.exists \in BOOLEAN
      BY <2>2 DEF Tree!AgencyRow
    <2>4. PICK parent, pending, active, contact :
             /\ parent = Tree!Given(set.parent, old.parent)
             /\ pending = Tree!Given(set.pending, old.pending)
             /\ active = Tree!Given(in.active, IF old.exists THEN old.active ELSE TRUE)
             /\ contact = (IF in.contact = None THEN old.contact ELSE in.contact)
      OBVIOUS
    <2>5. w = [exists |-> TRUE, parent |-> parent, pending |-> pending, active |-> active, contact |-> contact]
      BY <1>7, <2>1, <2>4 DEF Tree!Written
    <2>6. /\ parent \in Tree!Ids /\ pending \in Tree!Ids /\ active \in BOOLEAN /\ contact \in Tree!Emails
          /\ parent # in.id /\ pending # in.id
      BY <1>3, <1>5, <1>6, <2>2, <2>3, <2>4 DEF Tree!Given
    <2>7. parent \in Agencies => Tree!Exists(parent)
      BY <1>3, <1>6, <2>2, <2>4 DEF Tree!Given
    <2> QED
      BY <2>5, <2>6, <2>7 DEF Tree!AgencyRow
  <1>9. \A a \in adopted : /\ agency'[a] \in Tree!AgencyRow /\ agency'[a].exists = TRUE
                             /\ agency'[a].parent = in.id /\ agency'[a].pending = None
    <2> SUFFICES ASSUME NEW a \in adopted
                 PROVE  /\ agency'[a] \in Tree!AgencyRow /\ agency'[a].exists = TRUE
                        /\ agency'[a].parent = in.id /\ agency'[a].pending = None
      OBVIOUS
    <2>1. agency[a] \in Tree!AgencyRow /\ agency[a].exists = TRUE
      BY <1>2, <1>3 DEF RowsInv, AgenciesOK, Tree!Exists, Tree!AgencyRow
    <2>2. agency'[a] = [agency[a] EXCEPT !.parent = in.id, !.pending = None]
      BY <1>2, <1>3, <1>4
    <2> QED
      BY <1>5, <2>1, <2>2 DEF Tree!AgencyRow, Tree!Ids
  <1>10. agency'[in.id] = w /\ \A a \in Agencies \ (adopted \cup {in.id}) : agency'[a] = agency[a]
    BY <1>4, <1>5, <1>7
  <1>11. \A a \in Agencies : Tree!Exists(a) => Tree!Exists(a)'
    BY <1>8, <1>9, <1>10 DEF Tree!Exists
  <1>12. AgenciesOK'
    <2>1. \A a \in Agencies : agency'[a] \in Tree!AgencyRow
      BY <1>8, <1>9, <1>10 DEF RowsInv, AgenciesOK
    <2>2. agency' \in [Agencies -> Tree!AgencyRow]
      BY <1>4, <2>1
    <2>3. ASSUME NEW a \in Agencies
          PROVE  /\ agency'[a].parent # a /\ agency'[a].pending # a
                 /\ ~Tree!Exists(a)' => agency'[a] = Tree!NoAgency
                 /\ agency'[a].parent # None => Tree!Exists(agency[a].parent)'
      <3>1. CASE a = in.id
        <4>1. w.parent \in Tree!Ids
          BY <1>8 DEF Tree!AgencyRow
        <4> QED
          BY <1>6, <1>8, <1>10, <1>11, <3>1, <4>1 DEF Tree!Ids, Tree!Exists
      <3>2. CASE a \in adopted
        BY <1>3, <1>5, <1>6, <1>8, <1>9, <1>10, <3>2 DEF Tree!Exists
      <3>3. CASE a \notin adopted \cup {in.id}
        <4>1. agency'[a] = agency[a] /\ agency[a].parent \in Tree!Ids
          BY <1>10, <3>3 DEF RowsInv, AgenciesOK, Tree!AgencyRow
        <4> QED
          BY <1>11, <4>1 DEF RowsInv, AgenciesOK, Tree!Exists, Tree!Ids
      <3> QED
        BY <3>1, <3>2, <3>3
    <2>4. unchecked' \subseteq {a \in Agencies : Tree!Exists(a)'}
      BY <1>2, <1>3, <1>4, <1>11 DEF RowsInv, AgenciesOK
    <2> QED
      BY <2>2, <2>3, <2>4 DEF AgenciesOK
  <1>13. UsersOK' /\ \A v \in Agents : Member(v) => Member(v)'
    <2>1. CASE does = "nothing"
      <3>1. user' = user
        BY <1>4, <2>1
      <3> QED
        BY <1>11, <3>1, UsersSame DEF RowsInv, Member
    <2>2. CASE does # "nothing"
      <3>1. PICK u \in Agents : u = in.login
        BY <1>3, <2>2
      <3>2. PICK row : \/ does = "promote" /\ row = Tree!Promoted(user[u], in.id)
                       \/ does = "create" /\ row = Tree!NewLogin(in.id)
        BY <1>2, <2>2
      <3>3. user' = [user EXCEPT ![u] = row]
        BY <1>4, <2>2, <3>1, <3>2
      <3>4. /\ row \in Tree!UserRow /\ row.role = "agency" /\ row.agency = in.id /\ in.id # None
            /\ row.referrer # None => Tree!Exists(row.referrer)
        <4>1. row \in Tree!UserRow /\ row.role = "agency" /\ row.agency = in.id /\ in.id # None
              /\ row.referrer \in {None, user[u].referrer}
          BY <1>5, <3>2, PromotedRow, NewLoginRow DEF RowsInv
        <4> QED
          BY <4>1 DEF RowsInv, UsersOK
      <3>5. row.referrer \in Tree!Ids
        BY <3>4 DEF Tree!UserRow
      <3>6. Tree!Exists(in.id)'
        BY <1>8, <1>10 DEF Tree!Exists
      <3>7. row.agency # None => Tree!Exists(row.agency)'
        BY <3>4, <3>6
      <3>8. row.referrer # None => Tree!Exists(row.referrer)'
        BY <1>11, <3>4, <3>5 DEF Tree!Ids
      <3>9. UsersOK'
        BY <1>11, <3>3, <3>4, <3>7, <3>8, UserWritten DEF RowsInv
      <3>10. \A v \in Agents : Member(v) => Member(v)'
        BY <3>3, <3>4, MembersWritten DEF RowsInv
      <3> QED
        BY <3>9, <3>10
    <2> QED
      BY <2>1, <2>2
  <1>14. Stable
    BY <1>4, <1>11, <1>13 DEF Stable
  <1>15. SyncOK' /\ SsoOK'
    BY <1>4, <1>14, SyncStable, SsoStable DEF RowsInv
  <1>16. UpsertsOK'
    <2>1. Tree!Idle \in Tree!UpsertType /\ upsert'[p] = Tree!Idle /\ upsert' \in [Upserts -> Tree!UpsertType]
      BY <1>4 DEF Tree!UpsertType, RowsInv, UpsertsOK
    <2>2. UpsertOK(p)'
      BY <2>1 DEF UpsertOK, Tree!Idle
    <2>3. \A q \in Upserts \ {p} : UpsertOK(q)'
      BY <1>4, <1>14, UpsertStable DEF RowsInv, UpsertsOK
    <2> QED
      BY <2>1, <2>2, <2>3 DEF UpsertsOK
  <1> QED
    BY <1>4, <1>12, <1>13, <1>15, <1>16 DEF RowsInv

-----------------------------------------------------------------------------
(* The sync. *)

LEMMA SyncRow ==
    ASSUME RowsInv, Tree!ScopeAssumption, sync.pc # "idle"
    PROVE  /\ sync \in [pc: {"nodes", "parents", "users"}, tree: task.trees,
                         todo: SUBSET (Agencies \cup Agents)]
           /\ DOMAIN sync.tree \subseteq Agencies
           /\ \A a \in DOMAIN sync.tree :
                /\ sync.tree[a].parent \in (DOMAIN sync.tree \ {a}) \cup {None}
                /\ sync.tree[a].active \in BOOLEAN /\ sync.tree[a].contact \in Tree!Emails
  <1>1. sync \in [pc: {"nodes", "parents", "users"}, tree: task.trees,
                         todo: SUBSET (Agencies \cup Agents)]
    BY DEF RowsInv, SyncOK, Tree!Idle
  <1>2. sync.tree \in task.trees /\ task \in TreeScopes
    BY <1>1 DEF RowsInv
  <1> QED
    BY <1>1, <1>2, Trees DEF Tree!NodeType

\* What a step does to no account and no upsert.
LEMMA RowsStep ==
    ASSUME RowsInv, task' = task, AgenciesOK', UsersOK', SyncOK', SsoOK',
           \A a \in Agencies : Tree!Exists(a) => Tree!Exists(a)', \A u \in Agents : Member(u) => Member(u)',
           upsert' = upsert
    PROVE  RowsInv'
BY UpsertsStable DEF RowsInv, Stable

LEMMA SyncRows ==
    ASSUME Tree!NamesAssumption, Tree!ScopeAssumption, RowsInv,
           Tree!SyncStart \/ Tree!SyncNodesDone \/ Tree!SyncList \/ Tree!SyncStop
    PROVE  RowsInv'
  <1>1. UNCHANGED <<task, agency, user, upsert, sso, unchecked>>
    BY DEF Tree!SyncStart, Tree!SyncNodesDone, Tree!SyncList, Tree!SyncStop
  <1>2. Stable
    BY <1>1, StableSame
  <1>3. AgenciesOK' /\ UsersOK' /\ SsoOK'
    BY <1>1, <1>2, AgenciesSame, UsersSame, SsoStable DEF RowsInv, Stable
  <1>4. CASE Tree!SyncStart
    <2>1. PICK t \in task.trees : sync' = [pc |-> "nodes", tree |-> t, todo |-> DOMAIN t]
      BY <1>4 DEF Tree!SyncStart
    <2>2. DOMAIN t \subseteq Agencies
      BY Trees DEF RowsInv
    <2>3. SyncOK'
      BY <1>1, <2>1, <2>2 DEF SyncOK
    <2> QED
      BY <1>1, <1>2, <1>3, <2>3, RowsStep DEF Stable
  <1>5. CASE Tree!SyncNodesDone
    <2>1. /\ sync.pc = "nodes" /\ sync.todo = {}
          /\ sync' = [sync EXCEPT !.pc = "parents",
                 !.todo = {a \in DOMAIN sync.tree : sync.tree[a].parent # None}]
      BY <1>5 DEF Tree!SyncNodesDone
    <2>2. PICK todo : todo = {a \in DOMAIN sync.tree : sync.tree[a].parent # None}
      OBVIOUS
    <2>3. todo \subseteq DOMAIN sync.tree /\ DOMAIN sync.tree \subseteq Agencies
      BY <2>1, <2>2, SyncRow
    <2>4. sync' = [pc |-> "parents", tree |-> sync.tree, todo |-> todo]
      BY <2>1, <2>2, SyncRow
    <2>5. \A a \in DOMAIN sync.tree : Tree!Exists(a)
      BY <2>1 DEF RowsInv, SyncOK
    <2>6. SyncOK'
      BY <1>1, <2>1, <2>3, <2>4, <2>5, SyncRow, ZenonT(30) DEF SyncOK, Tree!Exists
    <2> QED
      BY <1>1, <1>2, <1>3, <2>6, RowsStep DEF Stable
  <1>6. CASE Tree!SyncList
    <2>1. /\ sync.pc = "parents"
          /\ sync' = [sync EXCEPT !.pc = "users",
                 !.todo = {u \in Agents : user[u].role = "user" /\ user[u].applied}]
      BY <1>6 DEF Tree!SyncList
    <2>2. PICK todo : todo = {u \in Agents : user[u].role = "user" /\ user[u].applied}
      OBVIOUS
    <2>3. todo \subseteq {u \in Agents : Member(u)}
      BY <2>2 DEF Member
    <2>4. sync' = [pc |-> "users", tree |-> sync.tree, todo |-> todo]
      BY <2>1, <2>2, SyncRow
    <2>5. \A a \in DOMAIN sync.tree : Tree!Exists(a)
      BY <2>1 DEF RowsInv, SyncOK
    <2>6. SyncOK'
      BY <1>1, <2>1, <2>3, <2>4, <2>5, SyncRow, ZenonT(30) DEF SyncOK, Tree!Exists, Member
    <2> QED
      BY <1>1, <1>2, <1>3, <2>6, RowsStep DEF Stable
  <1>7. CASE Tree!SyncStop
    <2>1. SyncOK'
      BY <1>7 DEF Tree!SyncStop, SyncOK, Tree!Idle
    <2> QED
      BY <1>1, <1>2, <1>3, <2>1, RowsStep DEF Stable
  <1> QED
    BY <1>4, <1>5, <1>6, <1>7

\* An agency's row is written by a path that leaves its parent alone.
LEMMA AgencyWritten ==
    ASSUME Tree!NamesAssumption, AgenciesOK, NEW a \in Agencies, NEW runs \in BOOLEAN, NEW mail \in Tree!Emails,
           agency' = [agency EXCEPT ![a].exists = TRUE, ![a].active = runs, ![a].contact = mail],
           unchecked' = unchecked
    PROVE  /\ AgenciesOK' /\ Tree!Exists(a)' /\ \A b \in Agencies : Tree!Exists(b) => Tree!Exists(b)'
           /\ \A b \in Agencies : agency'[b].parent = agency[b].parent
  <1>1. PICK g : g = [agency EXCEPT ![a].exists = TRUE]
    OBVIOUS
  <1>2. g \in [Agencies -> Tree!AgencyRow]
    BY <1>1 DEF AgenciesOK, Tree!AgencyRow
  <1>3. PICK h : h = [g EXCEPT ![a].active = runs]
    OBVIOUS
  <1>4. h \in [Agencies -> Tree!AgencyRow]
    BY <1>2, <1>3 DEF Tree!AgencyRow
  <1>5. agency' = [h EXCEPT ![a].contact = mail]
    BY <1>1, <1>3 DEF AgenciesOK
  <1>6. agency' \in [Agencies -> Tree!AgencyRow]
    <2>1. [h[a] EXCEPT !.contact = mail] \in Tree!AgencyRow
      BY <1>4 DEF Tree!AgencyRow
    <2> QED
      BY <1>4, <1>5, <2>1
  <1>7. /\ agency'[a].exists = TRUE
        /\ \A b \in Agencies :
             /\ agency'[b].parent = agency[b].parent
             /\ agency'[b].pending = agency[b].pending
             /\ b # a => agency'[b] = agency[b]
    BY <1>1, <1>2, <1>3, <1>4, <1>5 DEF AgenciesOK, Tree!AgencyRow
  <1>9. Tree!Exists(a)'
    BY <1>7 DEF Tree!Exists
  <1>8. ASSUME NEW b \in Agencies, Tree!Exists(b) PROVE Tree!Exists(b)'
    <2>1. CASE b = a
      BY <1>9, <2>1
    <2>2. CASE b # a
      <3>1. agency'[b] = agency[b]
        BY <1>7, <2>2
      <3> QED
        BY <1>8, <3>1 DEF Tree!Exists
    <2> QED
      BY <2>1, <2>2
  <1>10. ASSUME NEW b \in Agencies
         PROVE  /\ agency'[b].parent # b /\ agency'[b].pending # b
                /\ ~Tree!Exists(b)' => agency'[b] = Tree!NoAgency
                /\ agency'[b].parent # None => Tree!Exists(agency[b].parent)'
    <2>1. agency[b].parent \in Tree!Ids
      BY DEF AgenciesOK, Tree!AgencyRow
    <2>3. agency'[b].parent = agency[b].parent /\ agency'[b].pending = agency[b].pending
      BY <1>7
    <2>4. ~Tree!Exists(b)' => b # a /\ agency'[b] = agency[b]
      BY <1>7, <1>9
    <2>2. agency[b].parent # None => Tree!Exists(agency[b].parent)'
      <3>1. PICK q : q = agency[b].parent
        OBVIOUS
      <3>2. q # None => Tree!Exists(q)'
        BY <1>8, <2>1, <3>1 DEF AgenciesOK, Tree!Ids
      <3>3. agency'[b].parent = q
        BY <2>3, <3>1
      <3> QED
        BY <3>1, <3>2, <3>3
    <2>5. ~Tree!Exists(b)' => agency'[b] = Tree!NoAgency
      <3>1. ~Tree!Exists(b)' => ~Tree!Exists(b)
        BY <1>8
      <3> QED
        BY <2>4, <3>1 DEF AgenciesOK
    <2> QED
      BY <2>2, <2>3, <2>5 DEF AgenciesOK
  <1>11. unchecked' \subseteq {b \in Agencies : Tree!Exists(b)'}
    BY <1>8 DEF AgenciesOK
  <1> QED
    BY <1>6, <1>7, <1>8, <1>9, <1>10, <1>11 DEF AgenciesOK

LEMMA SyncNodeRows ==
    ASSUME Tree!NamesAssumption, Tree!ScopeAssumption, RowsInv, NEW a \in Agencies, Tree!SyncNode(a)
    PROVE  /\ RowsInv' /\ \A b \in Agencies : agency'[b].parent = agency[b].parent
  <1>1. /\ sync.pc = "nodes" /\ a \in sync.todo /\ a \in DOMAIN sync.tree
        /\ agency' = [agency EXCEPT
                    ![a].exists = TRUE,
                    ![a].active = sync.tree[a].active,
                    ![a].contact = sync.tree[a].contact]
        /\ sync' = [sync EXCEPT !.todo = @ \ {a}]
        /\ UNCHANGED <<task, user, upsert, sso, unchecked>>
    BY DEF Tree!SyncNode, RowsInv, SyncOK
  <1>2. sync.tree[a].active \in BOOLEAN /\ sync.tree[a].contact \in Tree!Emails
    BY <1>1, SyncRow
  <1>3. /\ AgenciesOK' /\ Tree!Exists(a)' /\ \A b \in Agencies : Tree!Exists(b) => Tree!Exists(b)'
        /\ \A b \in Agencies : agency'[b].parent = agency[b].parent
    BY <1>1, <1>2, AgencyWritten DEF RowsInv
  <1>4. Stable /\ UsersOK'
    BY <1>1, <1>3, UsersSame DEF Stable, Member, RowsInv
  <1>5. SyncOK'
    <2>1. /\ sync'.pc = "nodes" /\ sync'.tree = sync.tree /\ sync'.todo = sync.todo \ {a}
          /\ sync' \in [pc: {"nodes", "parents", "users"}, tree: task.trees,
                         todo: SUBSET (Agencies \cup Agents)]
      BY <1>1, SyncRow
    <2>2. DOMAIN sync.tree \subseteq Agencies
      BY <1>1, SyncRow
    <2>3. \A b \in DOMAIN sync.tree \ (sync.todo \ {a}) : Tree!Exists(b)'
      BY <1>1, <1>3, <2>2 DEF RowsInv, SyncOK
    <2> QED
      BY <1>1, <2>1, <2>3 DEF SyncOK, RowsInv
  <1>6. SsoOK'
    BY <1>1, <1>4, SsoStable DEF RowsInv
  <1> QED
    BY <1>1, <1>3, <1>4, <1>5, <1>6, RowsStep DEF Stable

LEMMA SyncParentRows ==
    ASSUME Tree!NamesAssumption, Tree!ScopeAssumption, RowsInv, NEW a \in Agencies, Tree!SyncParent(a)
    PROVE  /\ RowsInv' /\ unchecked \subseteq unchecked'
           /\ \A b \in Agencies : agency'[b].parent = agency[b].parent \/ b \in unchecked'
           /\ \A b \in Agencies : Tree!Exists(b)' = Tree!Exists(b)
  <1>1. /\ sync.pc = "parents" /\ a \in sync.todo /\ a \in DOMAIN sync.tree
        /\ sync' = [sync EXCEPT !.todo = @ \ {a}]
        /\ UNCHANGED <<task, user, upsert, sso>>
    BY DEF Tree!SyncParent, RowsInv, SyncOK
  <1>2. \/ agency' = agency /\ unchecked' = unchecked
        \/ /\ agency' = [agency EXCEPT ![a].parent = sync.tree[a].parent]
           /\ unchecked' = unchecked \cup {a}
    BY DEF Tree!SyncParent
  <1>3. PICK q : q = sync.tree[a].parent
    OBVIOUS
  <1>4. /\ q \in Tree!Ids /\ q # a /\ (q # None => Tree!Exists(q)) /\ Tree!Exists(a)
    BY <1>1, <1>3, SyncRow DEF RowsInv, SyncOK, Tree!Ids, Tree!NamesAssumption
  <1>7. /\ AgenciesOK' /\ \A b \in Agencies : Tree!Exists(b)' = Tree!Exists(b)
        /\ unchecked \subseteq unchecked'
        /\ \A b \in Agencies : agency'[b].parent = agency[b].parent \/ b \in unchecked'
    <2>1. CASE agency' = agency /\ unchecked' = unchecked
      BY <2>1, AgenciesSame DEF RowsInv, Tree!Exists
    <2>2. CASE agency' = [agency EXCEPT ![a].parent = q] /\ unchecked' = unchecked \cup {a}
      <3>1. \A b \in Agencies \ {a} : agency'[b] = agency[b]
        BY <2>2 DEF RowsInv, AgenciesOK
      <3>2. \A b \in Agencies : agency'[b].exists = agency[b].exists
        BY <2>2 DEF RowsInv, AgenciesOK, Tree!AgencyRow
      <3>3. AgenciesOK'
        <4>1. agency' \in [Agencies -> Tree!AgencyRow]
          BY <1>4, <2>2 DEF RowsInv, AgenciesOK, Tree!AgencyRow
        <4>2. /\ agency'[a].pending = agency[a].pending /\ agency'[a].parent = q
          BY <2>2 DEF RowsInv, AgenciesOK, Tree!AgencyRow
        <4>3. ASSUME NEW b \in Agencies
              PROVE  /\ agency'[b].parent # b /\ agency'[b].pending # b
                     /\ ~Tree!Exists(b)' => agency'[b] = Tree!NoAgency
                     /\ agency'[b].parent # None => Tree!Exists(agency[b].parent)'
          <5>1. CASE b = a
            BY <1>4, <3>2, <4>2, <5>1 DEF RowsInv, AgenciesOK, Tree!Exists, Tree!Ids
          <5>2. CASE b # a
            <6>1. agency'[b] = agency[b] /\ agency[b].parent \in Tree!Ids
              BY <3>1, <5>2 DEF RowsInv, AgenciesOK, Tree!AgencyRow
            <6> QED
              BY <3>2, <6>1 DEF RowsInv, AgenciesOK, Tree!Exists, Tree!Ids
          <5> QED
            BY <5>1, <5>2
        <4>4. unchecked' \subseteq {b \in Agencies : Tree!Exists(b)'}
          BY <1>4, <2>2, <3>2 DEF RowsInv, AgenciesOK, Tree!Exists
        <4> QED
          BY <4>1, <4>3, <4>4 DEF AgenciesOK
      <3> QED
        BY <2>2, <3>1, <3>2, <3>3 DEF Tree!Exists
    <2> QED
      BY <1>2, <1>3, <2>1, <2>2
  <1>8. Stable /\ UsersOK'
    BY <1>1, <1>7, UsersSame DEF Stable, Member, RowsInv
  <1>9. SyncOK'
    <2>1. /\ sync'.pc = "parents" /\ sync'.tree = sync.tree /\ sync'.todo = sync.todo \ {a}
          /\ sync' \in [pc: {"nodes", "parents", "users"}, tree: task.trees,
                         todo: SUBSET (Agencies \cup Agents)]
      BY <1>1, SyncRow
    <2>2. DOMAIN sync.tree \subseteq Agencies
      BY <1>1, SyncRow
    <2>3. \A b \in DOMAIN sync.tree : Tree!Exists(b)'
      BY <1>1, <1>7, <2>2 DEF RowsInv, SyncOK
    <2> QED
      BY <1>1, <2>1, <2>3 DEF SyncOK, RowsInv
  <1>10. SsoOK'
    BY <1>1, <1>8, SsoStable DEF RowsInv
  <1> QED
    BY <1>1, <1>7, <1>8, <1>9, <1>10, RowsStep DEF Stable

-----------------------------------------------------------------------------
(* The accounts. *)

\* An account is written, and nothing else of the rows.
LEMMA AccountStep ==
    ASSUME RowsInv, Tree!ScopeAssumption, NEW u \in Agents, NEW row \in Tree!UserRow,
           row.role = "none" => row = Tree!NoUser, row.role = "agency" <=> row.agency # None,
           row.agency # None => Tree!Exists(row.agency), row.referrer # None => Tree!Exists(row.referrer),
           Member(u) => row.role \in {"user", "agency"},
           user' = [user EXCEPT ![u] = row],
           UNCHANGED <<task, agency, upsert, unchecked>>
    PROVE  /\ Stable /\ AgenciesOK' /\ UsersOK'
           /\ SyncOK' /\ SsoOK' => RowsInv'
           /\ UNCHANGED <<sync, sso>> => RowsInv'
  <1>1. \A a \in Agencies : Tree!Exists(a) => Tree!Exists(a)'
    BY DEF Tree!Exists
  <1>2. \A v \in Agents : Member(v) => Member(v)'
    BY MembersWritten DEF RowsInv
  <1>3. Stable
    BY <1>1, <1>2 DEF Stable
  <1>4. AgenciesOK'
    BY AgenciesSame DEF RowsInv
  <1>5. /\ row.agency # None => Tree!Exists(row.agency)'
        /\ row.referrer # None => Tree!Exists(row.referrer)'
    BY DEF Tree!Exists
  <1>6. UsersOK'
    BY <1>1, <1>5, UserWritten DEF RowsInv
  <1>7. SyncOK' /\ SsoOK' => RowsInv'
    BY <1>1, <1>2, <1>4, <1>6, RowsStep
  <1>8. UNCHANGED <<sync, sso>> => RowsInv'
    BY <1>3, <1>7, SyncStable, SsoStable DEF RowsInv
  <1> QED
    BY <1>3, <1>4, <1>6, <1>7, <1>8

LEMMA SyncApproveRows ==
    ASSUME Tree!NamesAssumption, Tree!ScopeAssumption, RowsInv, NEW u \in Agents, Tree!SyncApprove(u)
    PROVE  RowsInv'
  <1>1. /\ sync.pc = "users" /\ u \in sync.todo /\ Member(u)
        /\ sync' = [sync EXCEPT !.todo = @ \ {u}]
        /\ UNCHANGED <<task, agency, upsert, sso, unchecked>>
    BY DEF Tree!SyncApprove, RowsInv, SyncOK
  <1>2. ASSUME Stable PROVE SyncOK' /\ SsoOK'
    <2>1. /\ sync'.pc = "users" /\ sync'.tree = sync.tree /\ sync'.todo = sync.todo \ {u}
          /\ sync' \in [pc: {"nodes", "parents", "users"}, tree: task.trees,
                         todo: SUBSET (Agencies \cup Agents)]
      BY <1>1, SyncRow
    <2>2. DOMAIN sync.tree \subseteq Agencies
      BY <1>1, SyncRow
    <2>3. \A b \in DOMAIN sync.tree : Tree!Exists(b)'
      BY <1>1, <1>2, <2>2 DEF RowsInv, SyncOK, Stable
    <2>4. sync'.todo \subseteq {v \in Agents : Member(v)'}
      BY <1>1, <1>2, <2>1 DEF RowsInv, SyncOK, Stable
    <2>5. SyncOK'
      BY <1>1, <2>1, <2>3, <2>4 DEF SyncOK, RowsInv
    <2> QED
      BY <1>1, <1>2, <2>5, SsoStable DEF RowsInv
  <1>3. CASE user' = user
    <2>1. Stable /\ AgenciesOK' /\ UsersOK'
      BY <1>1, <1>3, StableSame, AgenciesSame, UsersSame DEF RowsInv, Tree!Exists
    <2> QED
      BY <1>1, <1>2, <2>1, RowsStep DEF Stable
  <1>4. CASE \E a \in Tree!Approving(u) : user' = [user EXCEPT ![u] = [Tree!Promoted(@, a) EXCEPT !.applied = FALSE]]
    <2>1. PICK a \in DOMAIN sync.tree :
             user' = [user EXCEPT ![u] = [Tree!Promoted(@, a) EXCEPT !.applied = FALSE]]
      BY <1>4 DEF Tree!Approving
    <2>2. a \in Agencies /\ Tree!Exists(a)
      BY <1>1, <2>1, SyncRow DEF RowsInv, SyncOK
    <2>3. PICK row : row = [Tree!Promoted(user[u], a) EXCEPT !.applied = FALSE]
      OBVIOUS
    <2>4. /\ row \in Tree!UserRow /\ row.role = "agency" /\ row.agency = a
          /\ row.referrer = user[u].referrer /\ a # None
      BY <2>2, <2>3, PromotedRow DEF RowsInv
    <2>5. /\ user' = [user EXCEPT ![u] = row]
          /\ row.referrer # None => Tree!Exists(row.referrer)
          /\ row.agency # None /\ Tree!Exists(row.agency)
      BY <2>1, <2>2, <2>3, <2>4 DEF RowsInv, UsersOK
    <2>6. Stable /\ (SyncOK' /\ SsoOK' => RowsInv')
      BY <1>1, <2>4, <2>5, AccountStep
    <2> QED
      BY <1>2, <2>6
  <1> QED
    BY <1>3, <1>4 DEF Tree!SyncApprove

LEMMA PeopleRows ==
    ASSUME Tree!NamesAssumption, Tree!ScopeAssumption, RowsInv, NEW u \in Agents,
           \/ Tree!Register(u) \/ Tree!AddStaff(u) \/ Tree!RemoveStaff(u) \/ Tree!Apply(u)
           \/ \E a \in Agencies : Tree!Attach(u, a)
    PROVE  RowsInv'
  <1>1. /\ user[u] \in Tree!UserRow
        /\ user[u].role = "none" => user[u] = Tree!NoUser
        /\ user[u].role = "agency" <=> user[u].agency # None
        /\ user[u].agency # None => Tree!Exists(user[u].agency)
        /\ user[u].referrer # None => Tree!Exists(user[u].referrer)
        /\ UNCHANGED <<task, agency, upsert, sync, sso, unchecked>>
    BY DEF RowsInv, UsersOK, Tree!Register, Tree!AddStaff, Tree!RemoveStaff, Tree!Apply, Tree!Attach
  <1>2. Tree!NoUser.agency = None /\ Tree!NoUser.referrer = None /\ Tree!NoUser.role = "none" /\ Tree!NoUser \in Tree!UserRow
    BY DEF Tree!NoUser, Tree!UserRow, Tree!Ids
  <1>3. ASSUME NEW row \in Tree!UserRow, user' = [user EXCEPT ![u] = row],
               row.agency = user[u].agency,
               row.role = "none" => row = Tree!NoUser, row.role = "agency" <=> user[u].role = "agency",
               row.referrer # None => Tree!Exists(row.referrer),
               Member(u) => row.role \in {"user", "agency"}
        PROVE  RowsInv'
    BY <1>1, <1>3, AccountStep
  <1>4. CASE Tree!Register(u) \/ Tree!AddStaff(u)
    <2>1. PICK role \in {"user", "staff"} : user' = [user EXCEPT ![u].role = role]
      BY <1>4 DEF Tree!Register, Tree!AddStaff
    <2>2. user[u].role = "none"
      BY <1>4 DEF Tree!Register, Tree!AddStaff
    <2>3. PICK row : row = [user[u] EXCEPT !.role = role]
      OBVIOUS
    <2>4. row \in Tree!UserRow /\ row.role = role /\ row.agency = user[u].agency /\ row.referrer = user[u].referrer
      BY <1>1, <2>3 DEF Tree!UserRow
    <2>5. user' = [user EXCEPT ![u] = row]
      BY <2>1, <2>3 DEF RowsInv, UsersOK
    <2> QED
      BY <1>1, <1>3, <2>2, <2>4, <2>5 DEF Member
  <1>5. CASE Tree!RemoveStaff(u)
    <2>1. user[u].role = "staff" /\ user' = [user EXCEPT ![u] = Tree!NoUser]
      BY <1>5 DEF Tree!RemoveStaff
    <2> QED
      BY <1>1, <1>2, <1>3, <2>1 DEF Member
  <1>6. CASE Tree!Apply(u)
    <2>1. user[u].role = "user" /\ user' = [user EXCEPT ![u].applied = TRUE]
      BY <1>6 DEF Tree!Apply
    <2>2. PICK row : row = [user[u] EXCEPT !.applied = TRUE]
      OBVIOUS
    <2>3. row \in Tree!UserRow /\ row.role = "user" /\ row.agency = user[u].agency /\ row.referrer = user[u].referrer
      BY <1>1, <2>1, <2>2 DEF Tree!UserRow
    <2>4. user' = [user EXCEPT ![u] = row]
      BY <2>1, <2>2 DEF RowsInv, UsersOK
    <2> QED
      BY <1>1, <1>3, <2>1, <2>3, <2>4 DEF Member
  <1>7. CASE \E a \in Agencies : Tree!Attach(u, a)
    <2>1. PICK a \in Agencies : Tree!Attach(u, a)
      BY <1>7
    <2>2. /\ user[u].role # "none" /\ Tree!Exists(a)
          /\ user' = [user EXCEPT ![u].referrer = a]
      BY <2>1 DEF Tree!Attach
    <2>3. PICK row : row = [user[u] EXCEPT !.referrer = a]
      OBVIOUS
    <2>4. row \in Tree!UserRow /\ row.role = user[u].role /\ row.agency = user[u].agency /\ row.referrer = a
      BY <1>1, <2>1, <2>3 DEF Tree!UserRow, Tree!Ids
    <2>5. user' = [user EXCEPT ![u] = row]
      BY <2>2, <2>3 DEF RowsInv, UsersOK
    <2> QED
      BY <1>1, <1>3, <2>2, <2>4, <2>5 DEF Member
  <1> QED
    BY <1>4, <1>5, <1>6, <1>7

-----------------------------------------------------------------------------
(* The sign-on. *)

LEMMA SsoRow ==
    ASSUME SsoOK, sso.pc # "idle"
    PROVE  /\ sso \in [pc: {"create", "login", "promote", "register"},
                            agency: Agencies, email: Tree!Emails, contact: Tree!Emails]
BY DEF SsoOK, Tree!Idle

LEMMA SsoReads ==
    ASSUME Tree!NamesAssumption, Tree!ScopeAssumption, RowsInv,
           (\E a \in Agencies, e \in Tree!Emails : Tree!SsoStart(a, e)) \/ Tree!SsoLogin
    PROVE  RowsInv'
  <1>1. UNCHANGED <<task, agency, user, upsert, sync, unchecked>>
    BY DEF Tree!SsoStart, Tree!SsoLogin
  <1>2. Stable
    BY <1>1, StableSame
  <1>3. AgenciesOK' /\ UsersOK' /\ SyncOK'
    BY <1>1, <1>2, AgenciesSame, UsersSame, SyncStable DEF RowsInv, Stable
  <1>4. ASSUME NEW a \in Agencies, NEW e \in Tree!Emails, Tree!SsoStart(a, e) PROVE SsoOK'
    <2>1. PICK pc : pc = IF Tree!Exists(a) THEN "login" ELSE "create"
      OBVIOUS
    <2>2. sso' = [pc |-> pc, agency |-> a, email |-> e, contact |-> agency[a].contact]
      BY <1>4, <2>1 DEF Tree!SsoStart
    <2>3. agency[a].contact \in Tree!Emails
      BY DEF RowsInv, AgenciesOK, Tree!AgencyRow
    <2> QED
      BY <1>1, <2>1, <2>2, <2>3 DEF SsoOK, Tree!Exists
  <1>5. ASSUME Tree!SsoLogin PROVE SsoOK'
    <2>1. sso.pc = "login"
      BY <1>5 DEF Tree!SsoLogin
    <2>2. PICK next : next = CASE Tree!HasLogin(sso.agency) \/ sso.email = None -> "idle"
                  [] ~Tree!HasLogin(sso.agency) /\ sso.email # None /\ user[sso.email].role = "none" -> "register"
                  [] ~Tree!HasLogin(sso.agency) /\ sso.email # None /\ user[sso.email].role = "user"
                       /\ sso.contact = sso.email -> "promote"
                  [] OTHER -> "idle"
      OBVIOUS
    <2>3. sso' = IF next = "idle" THEN Tree!Idle ELSE [sso EXCEPT !.pc = next]
      BY <1>5, <2>2 DEF Tree!SsoLogin
    <2>4. /\ next \in {"idle", "register", "promote"}
          /\ next \in {"register", "promote"} => sso.email # None
          /\ next = "promote" => Member(sso.email)
      BY <2>2 DEF Member
    <2>5. CASE next = "idle"
      <3>1. sso' = Tree!Idle
        BY <2>3, <2>5
      <3> QED
        BY <3>1 DEF SsoOK, Tree!Idle
    <2>6. CASE next # "idle"
      <3>1. PICK a, e, c : a = sso.agency /\ e = sso.email /\ c = sso.contact
        OBVIOUS
      <3>2. sso' = [pc |-> next, agency |-> a, email |-> e, contact |-> c]
        BY <2>1, <2>3, <2>6, <3>1, SsoRow DEF RowsInv
      <3>3. a \in Agencies /\ e \in Tree!Emails /\ c \in Tree!Emails /\ Tree!Exists(a)
        BY <2>1, <3>1, SsoRow DEF RowsInv, SsoOK
      <3>4. next \in {"promote", "register"} => e \in Agents
        BY <2>4, <3>1, <3>3 DEF Tree!Emails
      <3>5. Tree!Exists(a)' /\ (next = "promote" => Member(e)')
        BY <1>1, <2>4, <3>1, <3>3 DEF Tree!Exists, Member
      <3>6. next \in {"promote", "register"}
        BY <2>4, <2>6
      <3>7. sso' \in [pc: {"create", "login", "promote", "register"},
                     agency: Agencies, email: Tree!Emails, contact: Tree!Emails]
        BY <3>2, <3>3, <3>6
      <3> QED
        BY <3>2, <3>4, <3>5, <3>6, <3>7 DEF SsoOK
    <2> QED
      BY <2>5, <2>6
  <1> QED
    BY <1>1, <1>2, <1>3, <1>4, <1>5, RowsStep DEF Stable

LEMMA SsoCreateRows ==
    ASSUME Tree!NamesAssumption, Tree!ScopeAssumption, RowsInv, Tree!SsoCreateAgency
    PROVE  /\ RowsInv' /\ \A b \in Agencies : agency'[b].parent = agency[b].parent
           /\ \A b \in Agencies : Tree!Exists(b)' => Tree!Exists(b) \/ b = sso.agency
  <1>1. PICK a : a = sso.agency
    OBVIOUS
  <1>2. /\ sso.pc = "create"
        /\ agency' = IF Tree!Exists(a) THEN agency
                     ELSE [agency EXCEPT ![a].exists = TRUE, ![a].active = TRUE]
        /\ sso' = [sso EXCEPT !.pc = "login", !.contact = agency[a].contact]
        /\ UNCHANGED <<task, user, upsert, sync, unchecked>>
    BY <1>1 DEF Tree!SsoCreateAgency
  <1>3. a \in Agencies /\ sso.email \in Tree!Emails
    BY <1>1, <1>2, SsoRow DEF RowsInv
  <1>4. PICK mail : mail = agency[a].contact
    OBVIOUS
  <1>5. mail \in Tree!Emails
    BY <1>3, <1>4 DEF RowsInv, AgenciesOK, Tree!AgencyRow
  <1>6. /\ AgenciesOK' /\ Tree!Exists(a)' /\ \A b \in Agencies : Tree!Exists(b) => Tree!Exists(b)'
        /\ \A b \in Agencies : agency'[b].parent = agency[b].parent
        /\ \A b \in Agencies : Tree!Exists(b)' => Tree!Exists(b) \/ b = a
    <2>1. CASE Tree!Exists(a)
      BY <1>2, <2>1, AgenciesSame DEF RowsInv, Tree!Exists
    <2>2. CASE ~Tree!Exists(a)
      <3>1. agency' = [agency EXCEPT ![a].exists = TRUE, ![a].active = TRUE, ![a].contact = mail]
        <4>1. agency[a] \in Tree!AgencyRow
          BY <1>3 DEF RowsInv, AgenciesOK
        <4>2. [agency[a] EXCEPT !.exists = TRUE, !.active = TRUE] =
                [agency[a] EXCEPT !.exists = TRUE, !.active = TRUE, !.contact = mail]
          BY <1>4, <4>1 DEF Tree!AgencyRow
        <4>3. agency' = [agency EXCEPT ![a] = [agency[a] EXCEPT !.exists = TRUE, !.active = TRUE]]
          BY <1>2, <1>3, <2>2 DEF RowsInv, AgenciesOK
        <4>4. agency' = [agency EXCEPT ![a] = [agency[a] EXCEPT !.exists = TRUE, !.active = TRUE, !.contact = mail]]
          BY <4>2, <4>3
        <4> QED
          BY <1>3, <4>4 DEF RowsInv, AgenciesOK
      <3>2. \A b \in Agencies \ {a} : agency'[b] = agency[b]
        BY <3>1 DEF RowsInv, AgenciesOK
      <3> QED
        BY <1>2, <1>3, <1>5, <3>1, <3>2, AgencyWritten DEF RowsInv, Tree!Exists
    <2> QED
      BY <2>1, <2>2
  <1>7. Stable /\ UsersOK'
    BY <1>2, <1>6, UsersSame DEF Stable, Member, RowsInv
  <1>8. SyncOK'
    BY <1>2, <1>7, SyncStable DEF RowsInv
  <1>9. SsoOK'
    <2>1. sso' = [pc |-> "login", agency |-> a, email |-> sso.email, contact |-> mail]
      BY <1>1, <1>2, <1>4, SsoRow DEF RowsInv
    <2> QED
      BY <1>3, <1>5, <1>6, <2>1 DEF SsoOK
  <1> QED
    BY <1>1, <1>2, <1>6, <1>7, <1>8, <1>9, RowsStep DEF Stable

LEMMA SsoWrites ==
    ASSUME Tree!NamesAssumption, Tree!ScopeAssumption, RowsInv, Tree!SsoPromote \/ Tree!SsoRegister
    PROVE  RowsInv'
  <1>1. /\ sso.pc \in {"promote", "register"} /\ sso' = Tree!Idle
        /\ UNCHANGED <<task, agency, upsert, sync, unchecked>>
    BY DEF Tree!SsoPromote, Tree!SsoRegister
  <1>2. PICK u, a : u = sso.email /\ a = sso.agency
    OBVIOUS
  <1>3. u \in Agents /\ a \in Agencies /\ Tree!Exists(a) /\ a # None
    BY <1>1, <1>2, SsoRow DEF RowsInv, SsoOK, Tree!NamesAssumption
  <1>4. SsoOK'
    BY <1>1 DEF SsoOK, Tree!Idle
  <1>5. CASE user' = user
    <2>1. Stable /\ AgenciesOK' /\ UsersOK'
      BY <1>1, <1>5, StableSame, AgenciesSame, UsersSame DEF RowsInv, Tree!Exists
    <2> QED
      BY <1>1, <1>4, <2>1, RowsStep, SyncStable DEF Stable, RowsInv
  <1>6. ASSUME NEW row \in Tree!UserRow, row.role = "agency", row.agency = a,
               row.referrer # None => Tree!Exists(row.referrer),
               user' = [user EXCEPT ![u] = row]
        PROVE  RowsInv'
    <2>1. Stable /\ (SyncOK' /\ SsoOK' => RowsInv')
      BY <1>1, <1>3, <1>6, AccountStep
    <2> QED
      BY <1>1, <1>4, <2>1, SyncStable DEF RowsInv
  <1>7. CASE Tree!SsoPromote
    <2>1. PICK row : row = [Tree!Promoted(user[u], a) EXCEPT !.applied = FALSE]
      OBVIOUS
    <2>2. user' = [user EXCEPT ![u] = row]
      BY <1>2, <1>7, <2>1 DEF Tree!SsoPromote, RowsInv, UsersOK
    <2>3. row \in Tree!UserRow /\ row.role = "agency" /\ row.agency = a /\ row.referrer = user[u].referrer
      BY <1>3, <2>1, PromotedRow DEF RowsInv
    <2>4. row.referrer # None => Tree!Exists(row.referrer)
      BY <1>3, <2>3 DEF RowsInv, UsersOK
    <2> QED
      BY <1>6, <2>2, <2>3, <2>4
  <1>8. CASE Tree!SsoRegister /\ user' # user
    <2>1. PICK row : row = Tree!NewLogin(a)
      OBVIOUS
    <2>2. user' = [user EXCEPT ![u] = row]
      BY <1>2, <1>8, <2>1 DEF Tree!SsoRegister
    <2>3. row \in Tree!UserRow /\ row.role = "agency" /\ row.agency = a /\ row.referrer = None
      BY <1>3, <2>1, NewLoginRow
    <2> QED
      BY <1>6, <2>2, <2>3
  <1> QED
    BY <1>5, <1>7, <1>8

LEMMA NextRows ==
    ASSUME Tree!NamesAssumption, Tree!ScopeAssumption, RowsInv, [Tree!Next]_Tree!vars
    PROVE  RowsInv'
  <1>1. CASE UNCHANGED Tree!vars
    <2>1. UNCHANGED <<task, agency, user, upsert, sync, sso, unchecked>>
      BY <1>1 DEF Tree!vars
    <2>2. Stable
      BY <2>1, StableSame
    <2>3. AgenciesOK' /\ UsersOK' /\ SyncOK' /\ SsoOK'
      BY <2>1, <2>2, AgenciesSame, UsersSame, SyncStable, SsoStable DEF RowsInv, Stable
    <2> QED
      BY <2>1, <2>2, <2>3, RowsStep DEF Stable
  <1>2. ASSUME NEW p \in Upserts, Tree!Undo(p) PROVE RowsInv'
    BY <1>2, RollBackRows DEF Tree!Undo
  <1> QED
    BY <1>1, <1>2, ResolveRows, SaveRows, CommitRows, SyncRows, SyncNodeRows, SyncParentRows,
       SyncApproveRows, PeopleRows, SsoReads, SsoCreateRows, SsoWrites DEF Tree!Next

\* The rows of agencies and accounts, and what each writer has read of them.
THEOREM AgencyRowsInvariant ==
    ASSUME Tree!NamesAssumption, Tree!ScopeAssumption PROVE Tree!Spec => []RowsInv
  <1>1. RowsInv /\ [Tree!Next]_Tree!vars => RowsInv'
    BY NextRows
  <1> QED
    BY <1>1, InitRows, PTL DEF Tree!Spec

LEMMA StaffWritten ==
    ASSUME UsersOK, NEW u \in Agents, NEW row, user' = [user EXCEPT ![u] = row],
           user[u].role = "staff" => row.role \in {"staff", "none"}
    PROVE  \A v \in Agents : user[v].role = "staff" => user'[v].role \in {"staff", "none"}
BY DEF UsersOK

LEMMA NextStaff ==
    ASSUME Tree!NamesAssumption, Tree!ScopeAssumption, RowsInv, Tree!Next
    PROVE  \A u \in Agents : user[u].role = "staff" => user'[u].role \in {"staff", "none"}
  <1> DEFINE Kept == \A u \in Agents : user[u].role = "staff" => user'[u].role \in {"staff", "none"}
  <1>1. CASE user' = user
    BY <1>1
  <1>2. ASSUME NEW u \in Agents, NEW row, user' = [user EXCEPT ![u] = row], user[u].role # "staff"
        PROVE  Kept
    BY <1>2 DEF RowsInv, UsersOK
  <1>3. ASSUME NEW p \in Upserts, Tree!Commit(p) PROVE Kept
    <2>1. /\ UpsertOK(p) /\ upsert[p].pc = "saved" /\ upsert[p] \in Tree!UpsertType
      BY <1>3 DEF Tree!Commit, RowsInv, UpsertsOK
    <2>2. upsert[p].login \in {"nothing", "promote", "create"}
      BY <2>1 DEF Tree!UpsertType, Tree!Idle
    <2>3. PICK u, does : u = upsert[p].in.login /\ does = upsert[p].login
      OBVIOUS
    <2>4. does = "promote" => user' = [user EXCEPT ![u] = Tree!Promoted(@, upsert[p].in.id)]
      BY <1>3, <2>3 DEF Tree!Commit
    <2>5. does = "create" => user' = [user EXCEPT ![u] = Tree!NewLogin(upsert[p].in.id)]
      BY <1>3, <2>3 DEF Tree!Commit
    <2>6. does = "nothing" => user' = user
      BY <1>3, <2>3 DEF Tree!Commit
    <2>7. does # "nothing" => u \in Agents
      BY <2>1, <2>3 DEF UpsertOK
    <2>8. does # "nothing" => user[u].role # "staff"
      BY <1>3, <2>1, <2>2, <2>3 DEF UpsertOK, Member, Tree!Commit
    <2> QED
      BY <1>1, <1>2, <2>2, <2>3, <2>4, <2>5, <2>6, <2>7, <2>8
  <1>4. ASSUME NEW u \in Agents, Tree!SyncApprove(u) PROVE Kept
    <2>1. Member(u)
      BY <1>4 DEF Tree!SyncApprove, RowsInv, SyncOK
    <2>2. \/ user' = user
          \/ \E a \in Tree!Approving(u) : user' = [user EXCEPT ![u] = [Tree!Promoted(@, a) EXCEPT !.applied = FALSE]]
      BY <1>4 DEF Tree!SyncApprove
    <2> QED
      BY <1>1, <1>2, <2>1, <2>2 DEF Member
  <1>5. CASE Tree!SsoPromote
    <2>1. sso.email \in Agents /\ Member(sso.email)
      BY <1>5 DEF Tree!SsoPromote, RowsInv, SsoOK
    <2>2. user' = [user EXCEPT ![sso.email] = [Tree!Promoted(@, sso.agency) EXCEPT !.applied = FALSE]]
      BY <1>5 DEF Tree!SsoPromote
    <2> QED
      BY <2>1, <2>2 DEF Member, RowsInv, UsersOK
  <1>6. CASE Tree!SsoRegister
    <2>1. sso.email \in Agents
      BY <1>6 DEF Tree!SsoRegister, RowsInv, SsoOK
    <2> QED
      BY <1>1, <1>6, <2>1 DEF Tree!SsoRegister, RowsInv, UsersOK
  <1>7. ASSUME NEW u \in Agents, Tree!Register(u) \/ Tree!AddStaff(u) \/ Tree!RemoveStaff(u) \/ Tree!Apply(u)
        PROVE  Kept
    <2>1. CASE Tree!RemoveStaff(u)
      BY <2>1 DEF Tree!RemoveStaff, Tree!NoUser, RowsInv, UsersOK
    <2>2. CASE Tree!Register(u) \/ Tree!AddStaff(u) \/ Tree!Apply(u)
      BY <2>2 DEF Tree!Register, Tree!AddStaff, Tree!Apply, RowsInv, UsersOK
    <2> QED
      BY <1>7, <2>1, <2>2
  <1>8. ASSUME NEW u \in Agents, NEW a \in Agencies, Tree!Attach(u, a) PROVE Kept
    <2>1. user' = [user EXCEPT ![u].referrer = a]
      BY <1>8 DEF Tree!Attach
    <2>2. \A v \in Agents : user'[v].role = user[v].role
      BY <2>1 DEF RowsInv, UsersOK, Tree!UserRow
    <2> QED
      BY <2>2
  <1>9. ASSUME NEW p \in Upserts, Tree!Resolve(p) \/ Tree!Save(p) \/ Tree!Undo(p) PROVE Kept
    BY <1>1, <1>9 DEF Tree!Resolve, Tree!Save, Tree!Undo
  <1>10. CASE Tree!SyncStart \/ Tree!SyncNodesDone \/ Tree!SyncList \/ Tree!SyncStop \/ Tree!SsoCreateAgency \/ Tree!SsoLogin
    BY <1>1, <1>10 DEF Tree!SyncStart, Tree!SyncNodesDone, Tree!SyncList, Tree!SyncStop, Tree!SsoCreateAgency, Tree!SsoLogin
  <1>11. ASSUME NEW a \in Agencies, \/ Tree!SyncNode(a) \/ Tree!SyncParent(a)
                                    \/ \E e \in Tree!Emails : Tree!SsoStart(a, e)
         PROVE  Kept
    BY <1>1, <1>11 DEF Tree!SyncNode, Tree!SyncParent, Tree!SsoStart
  <1> QED
    BY <1>3, <1>4, <1>5, <1>6, <1>7, <1>8, <1>9, <1>10, <1>11 DEF Tree!Next

\* What a writer does by id it does to an account it has found to be a member's, and
\* such an account never becomes an administrator's meanwhile: no upsert, sync or
\* sign-on makes an administrator's account an agency's, however they interleave.
THEOREM AdministratorsStayAlways ==
    ASSUME Tree!NamesAssumption, Tree!ScopeAssumption PROVE Tree!Spec => AdministratorsStay
  <1>1. RowsInv /\ [Tree!Next]_Tree!vars =>
          [\A u \in Agents : user[u].role = "staff" => user'[u].role \in {"staff", "none"}]_Tree!vars
    BY NextStaff
  <1> QED
    BY <1>1, AgencyRowsInvariant, PTL DEF Tree!Spec, AdministratorsStay, Tree!AdministratorsStay

-----------------------------------------------------------------------------
(* The tree. *)

\* Type correctness: rows are whole and point at agencies that exist.
THEOREM AgenciesTypeCorrect ==
    ASSUME Tree!NamesAssumption, Tree!ScopeAssumption PROVE Tree!Spec => []Tree!TypeOK
BY AgencyRowsInvariant, RowsInvTypeOK, PTL

\* What all writers but a commit do to the tree: parents stay or are unchecked.
Grows ==
    /\ unchecked \subseteq unchecked'
    /\ \A b \in Agencies : agency'[b].parent = agency[b].parent \/ b \in unchecked'

LEMMA GrowsRings ==
    ASSUME Tree!CyclesAreUnchecked, Grows PROVE Tree!CyclesAreUnchecked'
  <1> SUFFICES ASSUME NEW ring \in (SUBSET Agencies) \ {{}},
                      \A a \in ring : agency'[a].parent \in ring,
                      ring \cap unchecked' = {}
               PROVE  FALSE
    BY DEF Tree!CyclesAreUnchecked
  <1>1. \A a \in ring : agency[a].parent \in ring
    BY DEF Grows
  <1> QED
    BY <1>1 DEF Tree!CyclesAreUnchecked, Grows

\* A link that may be written stays one while its upsert stays as it is.
LEMMA GrowsLink ==
    ASSUME NEW p \in Upserts, LinkOK(p), Grows, upsert'[p] = upsert[p],
           upsert[p].pc = "saved" => (Tree!Exists(upsert[p].in.id)' => Tree!Exists(upsert[p].in.id))
    PROVE  LinkOK(p)'
  <1>1. PICK in, top, pc, known : /\ in = upsert[p].in /\ top = upsert[p].set.parent
                                  /\ pc = upsert[p].pc /\ known = upsert[p].known
    OBVIOUS
  <1>2. ASSUME \/ pc = "resolved" /\ known
               \/ pc = "saved" /\ Tree!Exists(in.id)',
               NEW ring \in SUBSET Agencies,
               in.id \in ring, top \in ring, \A a \in ring \ {in.id} : agency'[a].parent \in ring
        PROVE  (ring \ {in.id}) \cap unchecked' # {}
    <2>1. \/ pc = "resolved" /\ known
          \/ pc = "saved" /\ Tree!Exists(in.id)
      BY <1>1, <1>2 DEF Tree!Exists
    <2>2. SUFFICES ASSUME (ring \ {in.id}) \cap unchecked' = {} PROVE FALSE
      OBVIOUS
    <2>3. \A a \in ring \ {in.id} : agency[a].parent \in ring
      BY <1>2, <2>2 DEF Grows
    <2>4. (ring \ {in.id}) \cap unchecked # {}
      BY <1>1, <1>2, <2>1, <2>3 DEF LinkOK, Ascends
    <2> QED
      BY <2>2, <2>4 DEF Grows
  <1> QED
    BY <1>1, <1>2 DEF LinkOK, Ascends

\* A step of another writer, which creates no agency an upsert has locked.
LEMMA GrowsTree ==
    ASSUME TreeInv, Grows, upsert' = upsert,
           \A b \in Agencies : Tree!Exists(b)' => Tree!Exists(b) \/ ~Tree!Locked(b),
           RowsInv
    PROVE  TreeInv'
  <1>1. \A p \in Upserts : upsert[p].pc = "saved" => upsert[p].in.id \in Agencies /\ Tree!Locked(upsert[p].in.id)
    <2> SUFFICES ASSUME NEW p \in Upserts, upsert[p].pc = "saved"
                 PROVE  upsert[p].in.id \in Agencies /\ Tree!Locked(upsert[p].in.id)
      OBVIOUS
    <2>1. upsert[p] \in Tree!UpsertType
      BY DEF RowsInv, UpsertsOK
    <2> QED
      BY <2>1 DEF Tree!UpsertType, Tree!Idle, Tree!InputType, Tree!Locked
  <1>2. \A p \in Upserts : LinkOK(p)'
    BY <1>1, GrowsLink DEF TreeInv, Tree!Exists
  <1> QED
    BY <1>2, GrowsRings DEF TreeInv

\* The only upsert has been looked at, or forgotten.
LEMMA AloneTree ==
    ASSUME TreeInv, NEW p \in Upserts, \A q \in Upserts : q = p,
           agency' = agency, unchecked' = unchecked, LinkOK(p)'
    PROVE  TreeInv'
  <1>1. Grows
    BY DEF Grows
  <1> QED
    BY <1>1, GrowsRings DEF TreeInv

LEMMA IdleLink ==
    ASSUME RowsInv, NEW p \in Upserts, Tree!RollBack(p) PROVE LinkOK(p)'
  <1>1. upsert'[p] = Tree!Idle
    BY DEF Tree!RollBack, RowsInv, UpsertsOK
  <1> QED
    BY <1>1 DEF LinkOK, Tree!Idle

\* What an agency can not reach its new parent from, closes no ring.
LEMMA AboveIsClosed ==
    ASSUME Tree!NamesAssumption,
           NEW top \in Agencies, NEW ring \in SUBSET Agencies, NEW end \in ring, top \in ring,
           end \notin Tree!Above(top), \A a \in ring \ {end} : agency[a].parent \in ring
    PROVE  Tree!Endless(top)
  <1>1. PICK met \in SUBSET Agencies :
           /\ top \in met /\ end \notin met
           /\ \A c \in met : agency[c].parent \in met \cup {None}
    BY DEF Tree!Above
  <1>2. None \notin Agencies
    BY DEF Tree!NamesAssumption
  <1>3. PICK below \in SUBSET Agencies : below = met \cap ring
    OBVIOUS
  <1>4. top \in below /\ \A c \in below : c # end /\ agency[c].parent \in below
    BY <1>1, <1>2, <1>3
  <1>5. \A a \in Tree!Above(top) : a \in below
    BY <1>4 DEF Tree!Above
  <1> QED
    BY <1>2, <1>4, <1>5 DEF Tree!Endless

\* The check looks at the tree the parent is resolved in.
LEMMA ResolveLink ==
    ASSUME Tree!NamesAssumption, Tree!ScopeAssumption, RowsInv, NEW p \in Upserts, Tree!Resolve(p)
    PROVE  LinkOK(p)'
  <1>1. PICK in \in task.inputs :
           /\ Tree!Accepted(in)
           /\ upsert' = [upsert EXCEPT ![p] =
                [pc |-> "resolved", in |-> in, known |-> Tree!Exists(in.id), set |-> Tree!Assignment(in)]]
    BY DEF Tree!Resolve
  <1>2. in \in Tree!InputType
    BY DEF RowsInv, Tree!ScopeAssumption
  <1>3. in.id \in Agencies /\ in.parent \in Tree!Ids \cup {Keep}
    BY <1>2 DEF Tree!InputType
  <1>4. PICK top, known : top = Tree!Assignment(in).parent /\ known = Tree!Exists(in.id)
    OBVIOUS
  <1>5. /\ upsert'[p].in = in /\ upsert'[p].set.parent = top
        /\ upsert'[p].pc = "resolved" /\ upsert'[p].known = known
    BY <1>1, <1>4 DEF RowsInv, UpsertsOK
  <1>6. ASSUME known, NEW ring \in SUBSET Agencies, in.id \in ring, top \in ring,
               \A a \in ring \ {in.id} : agency[a].parent \in ring
        PROVE  FALSE
    <2>1. None \notin Agencies /\ Keep \notin Agencies /\ None # Keep
      BY DEF Tree!NamesAssumption
    <2>2. top = in.parent /\ in.parent \in Agencies /\ Tree!Exists(in.parent)
      BY <1>3, <1>4, <1>6, <2>1 DEF Tree!Assignment, Tree!Ids
    <2>3. in.id \notin Tree!Above(top) /\ ~Tree!Endless(top)
      BY <1>1, <1>4, <1>6, <2>2 DEF Tree!Accepted
    <2> QED
      BY <1>6, <2>2, <2>3, AboveIsClosed
  <1>7. agency' = agency
    BY DEF Tree!Resolve
  <1> QED
    BY <1>5, <1>6, <1>7 DEF LinkOK, Ascends

LEMMA SaveLink ==
    ASSUME RowsInv, TreeInv, NEW p \in Upserts, Tree!Save(p)
    PROVE  LinkOK(p)'
  <1>1. PICK in, set, known : in = upsert[p].in /\ set = upsert[p].set /\ known = upsert[p].known
    OBVIOUS
  <1>2. upsert[p].pc = "resolved" /\ UNCHANGED <<agency, unchecked>>
    BY DEF Tree!Save
  <1>3. CASE Tree!RollBack(p)
    BY <1>3, IdleLink
  <1>4. CASE ~Tree!RollBack(p)
    <2>1. Tree!Exists(in.id) => known
      BY <1>1, <1>4 DEF Tree!Save
    <2>2. upsert'[p].in = in /\ upsert'[p].set = set /\ upsert'[p].pc = "saved"
      BY <1>1, <1>4 DEF Tree!Save, RowsInv, UpsertsOK
    <2>3. upsert[p].pc = "resolved" /\ known => \A ring \in SUBSET Agencies :
            Ascends(ring, in.id, set.parent) => (ring \ {in.id}) \cap unchecked # {}
      BY <1>1 DEF TreeInv, LinkOK
    <2> QED
      BY <1>2, <2>1, <2>2, <2>3 DEF LinkOK, Ascends, Tree!Exists
  <1> QED
    BY <1>3, <1>4

LEMMA CommitTree ==
    ASSUME Tree!NamesAssumption, RowsInv, TreeInv, NEW p \in Upserts,
           \A q \in Upserts : q = p, Tree!Commit(p)
    PROVE  TreeInv'
  <1>1. PICK in, set, adopted : in = upsert[p].in /\ set = upsert[p].set /\ adopted = upsert[p].adopted
    OBVIOUS
  <1>2. UpsertOK(p) /\ upsert[p] \in Tree!UpsertType /\ upsert[p].pc = "saved"
    BY DEF Tree!Commit, RowsInv, UpsertsOK
  <1>3. in \in Tree!InputType /\ set \in Tree!AssignmentType /\ adopted \subseteq Agencies
    BY <1>1, <1>2 DEF Tree!UpsertType, Tree!Idle
  <1>4. in.id \in Agencies /\ set.parent \in Tree!Ids \cup {Keep}
    BY <1>3 DEF Tree!InputType, Tree!AssignmentType
  <1>5. set.parent # in.id /\ \A c \in adopted : c # in.id
    BY <1>1, <1>2 DEF UpsertOK
  <1>6. /\ agency' = [a \in Agencies |->
             IF a = in.id THEN Tree!Written(in, set, agency[a])
             ELSE IF a \in adopted
                  THEN [agency[a] EXCEPT !.parent = in.id, !.pending = None]
             ELSE agency[a]]
        /\ unchecked' = (IF set.parent = Keep THEN unchecked ELSE unchecked \ {in.id}) \cup adopted
    BY <1>1 DEF Tree!Commit
  <1>7. agency'[in.id].parent = IF set.parent = Keep THEN agency[in.id].parent ELSE set.parent
    BY <1>4, <1>6 DEF Tree!Written, Tree!Given
  <1>8. \A a \in Agencies \ (adopted \cup {in.id}) : agency'[a].parent = agency[a].parent
    BY <1>6
  <1>9. /\ \A a \in Agencies : ~Tree!Exists(a) => agency[a].parent = None
        /\ \A a \in Agencies : agency[a].parent # None => Tree!Exists(agency[a].parent)
    BY DEF RowsInv, AgenciesOK, Tree!NoAgency
  <1>10. None \notin Agencies /\ Keep \notin Agencies /\ None # Keep
    BY DEF Tree!NamesAssumption
  <1>11. Tree!Exists(in.id) => \A ring \in SUBSET Agencies :
            Ascends(ring, in.id, set.parent) => (ring \ {in.id}) \cap unchecked # {}
    BY <1>1, <1>2 DEF TreeInv, LinkOK
  <1>12. ASSUME NEW ring \in (SUBSET Agencies) \ {{}}, \A a \in ring : agency'[a].parent \in ring
         PROVE  ring \cap unchecked' # {}
    <2>1. SUFFICES ASSUME ring \cap unchecked' = {} PROVE FALSE
      OBVIOUS
    <2>2. ring \cap adopted = {} /\ ring \cap unchecked \subseteq {in.id}
      BY <1>6, <2>1
    <2>3. \A a \in ring \ {in.id} : agency[a].parent \in ring
      BY <1>8, <1>12, <2>2
    <2>4. ASSUME \A a \in ring : agency[a].parent \in ring PROVE ring \cap unchecked # {}
      BY <2>4 DEF TreeInv, Tree!CyclesAreUnchecked
    <2>5. CASE in.id \notin ring
      BY <2>2, <2>3, <2>4, <2>5
    <2>6. CASE in.id \in ring /\ set.parent = Keep
      <3>1. \A a \in ring : agency[a].parent \in ring
        BY <1>7, <1>12, <2>3, <2>6
      <3> QED
        BY <1>6, <2>1, <2>4, <2>6, <3>1
    <2>7. CASE in.id \in ring /\ set.parent # Keep
      <3>1. set.parent \in ring /\ set.parent \in Agencies
        BY <1>7, <1>12, <2>7
      <3>2. CASE Tree!Exists(in.id)
        BY <1>11, <2>2, <2>3, <2>7, <3>1, <3>2 DEF Ascends
      <3>3. CASE ~Tree!Exists(in.id)
        <4>1. PICK old \in SUBSET Agencies : old = ring \ {in.id}
          OBVIOUS
        <4>2. \A a \in old : agency[a].parent \in old
          BY <1>9, <1>10, <2>3, <3>3, <4>1
        <4>3. old # {}
          BY <1>5, <3>1, <4>1
        <4>4. old \cap unchecked # {}
          BY <4>2, <4>3 DEF TreeInv, Tree!CyclesAreUnchecked
        <4> QED
          BY <2>2, <4>1, <4>4
      <3> QED
        BY <3>2, <3>3
    <2> QED
      BY <2>5, <2>6, <2>7
  <1>13. Tree!RollBack(p)
    BY DEF Tree!Commit
  <1> QED
    BY <1>12, <1>13, IdleLink DEF TreeInv, Tree!CyclesAreUnchecked

LEMMA NextTree ==
    ASSUME Tree!NamesAssumption, Tree!ScopeAssumption, \A p, q \in Upserts : p = q,
           RowsInv, TreeInv, [Tree!Next]_Tree!vars
    PROVE  TreeInv'
  <1>1. ASSUME NEW p \in Upserts, Tree!Resolve(p) \/ Tree!Save(p) \/ Tree!Undo(p) PROVE TreeInv'
    <2>1. agency' = agency /\ unchecked' = unchecked
      BY <1>1 DEF Tree!Resolve, Tree!Save, Tree!Undo
    <2>2. LinkOK(p)'
      BY <1>1, ResolveLink, SaveLink, IdleLink DEF Tree!Undo
    <2> QED
      BY <2>1, <2>2, AloneTree
  <1>2. ASSUME NEW p \in Upserts, Tree!Commit(p) PROVE TreeInv'
    BY <1>2, CommitTree
  <1>3. CASE UNCHANGED <<agency, unchecked, upsert>>
    <2>1. Grows /\ \A b \in Agencies : Tree!Exists(b)' => Tree!Exists(b)
      BY <1>3 DEF Grows, Tree!Exists
    <2> QED
      BY <1>3, <2>1, GrowsTree
  <1>4. ASSUME NEW a \in Agencies, Tree!SyncNode(a) PROVE TreeInv'
    <2>1. upsert' = upsert /\ unchecked' = unchecked /\ ~Tree!Locked(a)
      BY <1>4 DEF Tree!SyncNode
    <2>2. Grows
      BY <1>4, <2>1, SyncNodeRows DEF Grows
    <2>3. \A b \in Agencies : Tree!Exists(b)' => Tree!Exists(b) \/ b = a
      BY <1>4 DEF Tree!SyncNode, RowsInv, AgenciesOK, Tree!AgencyRow, Tree!Exists
    <2> QED
      BY <2>1, <2>2, <2>3, GrowsTree
  <1>5. ASSUME NEW a \in Agencies, Tree!SyncParent(a) PROVE TreeInv'
    <2>1. upsert' = upsert
      BY <1>5 DEF Tree!SyncParent
    <2>2. Grows /\ \A b \in Agencies : Tree!Exists(b)' => Tree!Exists(b)
      BY <1>5, SyncParentRows DEF Grows
    <2> QED
      BY <2>1, <2>2, GrowsTree
  <1>6. CASE Tree!SsoCreateAgency
    <2>1. upsert' = upsert /\ unchecked' = unchecked /\ ~Tree!Locked(sso.agency)
      BY <1>6 DEF Tree!SsoCreateAgency
    <2>2. Grows /\ \A b \in Agencies : Tree!Exists(b)' => Tree!Exists(b) \/ b = sso.agency
      BY <1>6, <2>1, SsoCreateRows DEF Grows
    <2> QED
      BY <2>1, <2>2, GrowsTree
  <1>7. CASE Tree!SyncStart \/ Tree!SyncNodesDone \/ Tree!SyncList \/ Tree!SyncStop \/ Tree!SsoLogin \/ Tree!SsoPromote \/ Tree!SsoRegister
    BY <1>3, <1>7 DEF Tree!SyncStart, Tree!SyncNodesDone, Tree!SyncList, Tree!SyncStop, Tree!SsoLogin, Tree!SsoPromote, Tree!SsoRegister
  <1>8. ASSUME NEW u \in Agents, \/ Tree!SyncApprove(u) \/ Tree!Register(u) \/ Tree!AddStaff(u) \/ Tree!RemoveStaff(u)
                                \/ Tree!Apply(u) \/ \E a \in Agencies : Tree!Attach(u, a)
        PROVE  TreeInv'
    BY <1>3, <1>8 DEF Tree!SyncApprove, Tree!Register, Tree!AddStaff, Tree!RemoveStaff, Tree!Apply, Tree!Attach
  <1>9. ASSUME NEW a \in Agencies, NEW e \in Tree!Emails, Tree!SsoStart(a, e) PROVE TreeInv'
    BY <1>3, <1>9 DEF Tree!SsoStart
  <1>10. CASE UNCHANGED Tree!vars
    BY <1>3, <1>10 DEF Tree!vars
  <1> QED
    BY <1>1, <1>2, <1>4, <1>5, <1>6, <1>7, <1>8, <1>9, <1>10 DEF Tree!Next

LEMMA InitTree == ASSUME Tree!NamesAssumption PROVE Tree!Init => TreeInv
  <1> SUFFICES ASSUME Tree!Init PROVE TreeInv
    OBVIOUS
  <1>1. \A a \in Agencies : agency[a].parent = None /\ ~Tree!Exists(a)
    BY DEF Tree!Init, Tree!NoAgency, Tree!Exists
  <1>2. Tree!CyclesAreUnchecked
    <2> SUFFICES ASSUME NEW ring \in (SUBSET Agencies) \ {{}}, \A a \in ring : agency[a].parent \in ring
                 PROVE  FALSE
      BY DEF Tree!CyclesAreUnchecked
    <2>1. PICK a \in ring : agency[a].parent \in ring
      OBVIOUS
    <2> QED
      BY <1>1, <2>1 DEF Tree!NamesAssumption
  <1>3. \A p \in Upserts : LinkOK(p)
    BY DEF Tree!Init, LinkOK, Tree!Idle
  <1> QED
    BY <1>2, <1>3 DEF TreeInv

\* The cycle check does what it is for, as long as upserts come one at a time: in
\* every cycle of the tree there is a parent that was set without it.
THEOREM CyclesAreUncheckedAlways ==
    ASSUME Tree!NamesAssumption, Tree!ScopeAssumption, \A p, q \in Upserts : p = q
    PROVE  Tree!Spec => []CyclesAreUnchecked
  <1>1. RowsInv /\ TreeInv /\ [Tree!Next]_Tree!vars => TreeInv'
    BY NextTree
  <1>2. TreeInv => CyclesAreUnchecked
    BY DEF TreeInv, CyclesAreUnchecked
  <1> QED
    BY <1>1, <1>2, InitTree, AgencyRowsInvariant, PTL DEF Tree!Spec
-----------------------------------------------------------------------------
(***************************************************************************)
(* All doors together.  Wallets and the tree keep their invariants in      *)
(* every behaviour; the three that read the clock keep theirs where it is  *)
(* their own, and elsewhere stand still.                                   *)
(***************************************************************************)

AccessInv ==
    /\ scope = "lock" => LockIInv
    /\ IF scope = "limit" THEN LimitIInv ELSE LimitHolds
    /\ IF scope = "nonce" THEN NonceIInv ELSE AcceptedOnce
    /\ WalletIInv
    /\ RowsInv
    /\ TreeInv

LEMMA AccessInitInv == AccessInit => AccessInv
  <1> SUFFICES ASSUME AccessInit PROVE AccessInv
    OBVIOUS
  <1>1. LockIInv /\ LimitIInv /\ NonceIInv /\ WalletIInv /\ RowsInv /\ TreeInv
    BY LockInitIInv, LimitInitIInv, InitInv, WalletInitIInv, InitRows, InitTree,
       LimitsAssumption, AgenciesAssumption DEF AccessInit
  <1>2. LimitHolds
    BY <1>1, IInvLimits, LimitsAssumption DEF LimitHolds
  <1> QED
    BY <1>1, <1>2 DEF AccessInv, NonceIInv

\* What is not at work keeps its promise.
LEMMA StandingStill ==
    /\ LimitHolds /\ request' = request => LimitHolds'
    /\ AcceptedOnce /\ taken' = taken => AcceptedOnce'
  <1>1. ASSUME LimitHolds, request' = request PROVE LimitHolds'
    <2>1. \A step, key, t : Limits!Admitted(step, key, t)' = Limits!Admitted(step, key, t)
      BY <1>1 DEF Limits!Admitted, Limits!KeyOf
    <2>2. \A step, key, t : Limits!Cardinality(Limits!Admitted(step, key, t))'
                             = Limits!Cardinality(Limits!Admitted(step, key, t))
      BY <2>1
    <2> QED
      BY <1>1, <2>2 DEF LimitHolds, Limits!LimitHolds
  <1>2. AcceptedOnce /\ taken' = taken => AcceptedOnce'
    BY DEF AcceptedOnce
  <1> QED
    BY <1>1, <1>2

LEMMA AccessNextInv ==
    ASSUME \A p, q \in Upserts : p = q, AccessInv, [AccessNext]_allVars
    PROVE  AccessInv'
  <1>1. scope' = scope
    BY DEF AccessNext, allVars
  <1>2. [Locks!Next]_Locks!vars \/ scope # "lock"
    BY DEF AccessNext, allVars, lockVars, Locks!vars
  <1>3. [Limits!Next]_Limits!vars \/ (scope # "limit" /\ request' = request)
    BY DEF AccessNext, allVars, limitVars, Limits!vars
  <1>4. [Next]_vars \/ (scope # "nonce" /\ taken' = taken)
    BY DEF AccessNext, allVars, nonceVars, vars
  <1>5. [Wallet!Next]_Wallet!vars
    BY DEF AccessNext, allVars, walletVars, Wallet!vars
  <1>6. [Tree!Next]_Tree!vars
    BY DEF AccessNext, allVars, treeVars, Tree!vars
  <1>7. scope = "lock" => LockIInv'
    BY <1>2, LockNextIInv, LocksAssumption DEF AccessInv
  <1>8. IF scope = "limit" THEN LimitIInv' ELSE LimitHolds'
    <2>1. CASE scope = "limit"
      BY <1>3, <2>1, LimitNextIInv, LimitsAssumption DEF AccessInv
    <2>2. CASE scope # "limit"
      <3>1. request' = request \/ [Limits!Next]_Limits!vars
        BY <1>3
      <3>2. request' = request
        BY <2>2 DEF AccessNext, allVars, limitVars
      <3> QED
        BY <2>2, <3>2, StandingStill DEF AccessInv
    <2> QED
      BY <2>1, <2>2
  <1>9. IF scope = "nonce" THEN NonceIInv' ELSE AcceptedOnce'
    <2>1. CASE scope = "nonce"
      BY <1>4, <2>1, NonceNextIInv DEF AccessInv
    <2>2. CASE scope # "nonce"
      <3>1. taken' = taken
        BY <2>2 DEF AccessNext, allVars, nonceVars
      <3> QED
        BY <2>2, <3>1, StandingStill DEF AccessInv
    <2> QED
      BY <2>1, <2>2
  <1>10. WalletIInv' /\ RowsInv' /\ TreeInv'
    BY <1>5, <1>6, WalletNextIInv, NextRows, NextTree, AgenciesAssumption DEF AccessInv
  <1> QED
    BY <1>1, <1>7, <1>8, <1>9, <1>10 DEF AccessInv

\* What holds of each door in every behaviour of the composition.
THEOREM AccessInvariant ==
    ASSUME \A p, q \in Upserts : p = q PROVE AccessSpec => []AccessInv
  <1>1. AccessInv /\ [AccessNext]_allVars => AccessInv'
    BY AccessNextInv
  <1> QED
    BY <1>1, AccessInitInv, PTL DEF AccessSpec

\* The market's doors as they are composed for the runs: what the runs check on
\* their instances, for every value of the constants with one upsert at a time.
THEOREM AccessCorrect ==
    ASSUME \A p, q \in Upserts : p = q
    PROVE  AccessSpec => /\ [](LimitHolds /\ AcceptedOnce /\ WaitingIsExplained /\ CyclesAreUnchecked)
                         /\ LockHolds /\ AdministratorsStay
  <1>1. AccessInv => LimitHolds /\ AcceptedOnce /\ WaitingIsExplained /\ CyclesAreUnchecked
    BY IInvLimits, LimitsAssumption
       DEF AccessInv, LimitHolds, NonceIInv, WalletIInv, WaitingIsExplained, TreeInv, CyclesAreUnchecked
  <1>2. AccessInv /\ [AccessNext]_allVars => [Locks!LockStep]_lockVars
    <2> SUFFICES ASSUME AccessInv, [AccessNext]_allVars PROVE [Locks!LockStep]_lockVars
      OBVIOUS
    <2>1. CASE scope = "lock" /\ [Locks!Next]_Locks!vars
      BY <2>1, NextKeepsLock, LocksAssumption DEF AccessInv, Locks!vars, lockVars
    <2> QED
      BY <2>1 DEF AccessNext, allVars, lockVars
  <1>3. AccessInv /\ [AccessNext]_allVars =>
          [\A u \in Agents : user[u].role = "staff" => user'[u].role \in {"staff", "none"}]_Tree!vars
    BY NextStaff, AgenciesAssumption DEF AccessInv, AccessNext, allVars, treeVars, Tree!vars
  <1> QED
    BY <1>1, <1>2, <1>3, AccessInvariant, PTL
       DEF AccessSpec, LockHolds, AdministratorsStay, Tree!AdministratorsStay
=============================================================================

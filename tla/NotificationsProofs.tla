------------------------- MODULE NotificationsProofs -------------------------
(***************************************************************************)
(* The links that are mailed and the sessions that end with a password,    *)
(* for any events, workers, links and visits.                              *)
(*                                                                         *)
(* That a mailed link is good rests on what the workers hold: whoever is   *)
(* about to record or mail a link has made it, or found it made, and with  *)
(* derived links nobody ever withdraws one.  That a session follows the    *)
(* password rests on every cookie, also one not handed out yet, being at   *)
(* most as new as the account.                                             *)
(***************************************************************************)
EXTENDS Notifications, TLAPS

RowType == [status: {"none", "pending", "processing", "succeeded", "dead"},
            token: Workers \cup {None}, attempts: Nat, link: LinkIds \cup {None}]

OthersOK ==
    /\ scope \in Scopes /\ derived \in BOOLEAN /\ killed \in BOOLEAN
    /\ mishaps \in 0..scope.mishaps
    /\ row \in [Events -> RowType]

LinksOK ==
    /\ link \in [LinkIds -> {"none", "live", "void", "spent", "expired"}]
    /\ derived => \A l \in LinkIds : link[l] # "void"

\* What a worker holds.
HoldsOK(x) ==
    /\ x \in {Idle} \cup Working
    /\ x.pc = "void" => ~derived /\ x.old \in LinkIds
    /\ x.pc \in {"record", "send"} /\ scope.kind[x.event] = "link" =>
         x.new \in LinkIds /\ link[x.new] # "none"

WorkOK == work \in [Workers -> {Idle} \cup Working] /\ \A w \in Workers : HoldsOK(work[w])

MailOK ==
    /\ mail \in [Events -> LinkIds \cup {None, "text"}]
    /\ \A e \in Events : mail[e] \in LinkIds => link[mail[e]] # "none"

\* A cookie is of the account as it is, or older.
Follows(c) == c.version <= account.version /\ (c.version = account.version => c.password = account.password)

SessionsOK ==
    /\ account \in CookieType /\ account.password <= account.version
    /\ visit \in [Visits -> VisitType]
    /\ cookies \subseteq CookieType
    /\ \A c \in cookies : Follows(c)
    /\ \A v \in Visits : visit[v].pc = "login" => Follows(visit[v].cookie)

IInv == OthersOK /\ LinksOK /\ WorkOK /\ MailOK /\ SessionsOK

-----------------------------------------------------------------------------

LEMMA IInvTypeOK == IInv => TypeOK
  <1> SUFFICES ASSUME IInv PROVE TypeOK
    OBVIOUS
  <1>1. \A w \in Workers :
          (work[w].pc = "send" /\ scope.kind[work[w].event] = "link") => work[w].new # None
    BY NamesAssumption DEF IInv, WorkOK, HoldsOK, LinkIds
  <1> QED
    BY <1>1 DEF IInv, TypeOK, OthersOK, RowType, LinksOK, WorkOK, MailOK, SessionsOK

LEMMA InitIInv == Init => IInv
  <1> SUFFICES ASSUME Init PROVE IInv
    OBVIOUS
  <1>1. scope.mishaps \in Nat
    BY ScopeAssumption DEF Init
  <1>2. OthersOK
    <2>1. row \in [Events -> RowType]
      BY DEF Init, RowType, NewRow
    <2>2. mishaps \in 0..scope.mishaps
      BY <1>1 DEF Init
    <2> QED
      BY <2>1, <2>2 DEF Init, OthersOK
  <1>3. LinksOK /\ WorkOK
    BY DEF Init, LinksOK, WorkOK, HoldsOK, Idle
  <1>4. MailOK
    BY NamesAssumption DEF Init, MailOK, LinkIds
  <1>5. SessionsOK
    BY VersionAssumption DEF Init, SessionsOK, CookieType, VisitType, Idle
  <1> QED
    BY <1>2, <1>3, <1>4, <1>5 DEF IInv

\* Nothing that has been made is unmade.
Same == scope' = scope /\ derived' = derived
Later == \A l \in LinkIds : link[l] # "none" => link'[l] # "none"

LEMMA WorkSame == ASSUME WorkOK, Same, Later, work' = work PROVE WorkOK'
BY DEF WorkOK, HoldsOK, Same, Later

LEMMA WorkMoves ==
    ASSUME WorkOK, Same, Later, NEW w \in Workers, NEW x, HoldsOK(x)', work' = [work EXCEPT ![w] = x]
    PROVE  WorkOK'
BY DEF WorkOK, HoldsOK, Same, Later

\* A worker goes on with what it holds.
LEMMA GoesOn ==
    ASSUME WorkOK, NEW w \in Workers, work[w].pc # "idle",
           NEW pc \in {"void", "make", "record", "send", "done", "failed"}
    PROVE  \E x \in Working :
             /\ x = [work[w] EXCEPT !.pc = pc] /\ x.pc = pc /\ x.event = work[w].event
             /\ x.old = work[w].old /\ x.new = work[w].new
             /\ x.event \in Events /\ work[w].event \in Events
  <1>1. work[w] \in Working
    BY DEF WorkOK, Idle
  <1>2. PICK x : x = [work[w] EXCEPT !.pc = pc]
    OBVIOUS
  <1>3. x \in Working /\ x.pc = pc
    BY <1>1, <1>2 DEF Working
  <1>4. x.event = work[w].event /\ x.old = work[w].old /\ x.new = work[w].new
    BY <1>1, <1>2 DEF Working
  <1>5. work[w].event \in Events
    BY <1>1 DEF Working
  <1> QED
    BY <1>2, <1>3, <1>4, <1>5

LEMMA LinksSame == ASSUME LinksOK, Same, link' = link PROVE LinksOK' /\ Later
BY DEF LinksOK, Same, Later

LEMMA MailSame == ASSUME MailOK, Later, mail' = mail PROVE MailOK'
BY DEF MailOK, Later

LEMMA SessionsSame == ASSUME SessionsOK, UNCHANGED sessions PROVE SessionsOK'
BY DEF SessionsOK, sessions, Follows

LEMMA OthersSame ==
    ASSUME OthersOK, Same, killed' \in BOOLEAN, row' \in [Events -> RowType],
           mishaps' = mishaps \/ Mishap
    PROVE  OthersOK'
  <1>1. scope.mishaps \in Nat
    BY ScopeAssumption DEF OthersOK
  <1> QED
    BY <1>1 DEF OthersOK, Same, Mishap

\* Only a worker and the rows change.
LEMMA WorkStep ==
    ASSUME IInv, Same, NEW w \in Workers, NEW x, HoldsOK(x)', work' = [work EXCEPT ![w] = x],
           row' \in [Events -> RowType], killed' \in BOOLEAN, mishaps' = mishaps \/ Mishap,
           UNCHANGED <<link, mail, sessions>>
    PROVE  IInv'
  <1>1. LinksOK' /\ Later
    BY LinksSame DEF IInv
  <1>2. WorkOK'
    BY <1>1, WorkMoves DEF IInv
  <1> QED
    BY <1>1, <1>2, OthersSame, MailSame, SessionsSame DEF IInv

LEMMA IdleHolds == HoldsOK(Idle)'
BY DEF HoldsOK, Idle

LEMMA RowSettled ==
    ASSUME OthersOK, NEW e \in Events,
           NEW status \in {"none", "pending", "processing", "succeeded", "dead"}
    PROVE  [row EXCEPT ![e].status = status] \in [Events -> RowType]
BY DEF OthersOK, RowType

-----------------------------------------------------------------------------
(* Taking an event. *)

LEMMA RowIInv ==
    ASSUME IInv, (\E e \in Events : Enqueue(e) \/ Reclaim(e)) \/ (\E w \in Workers : ReclaimSlow(w))
    PROVE  IInv'
  <1>1. Same /\ UNCHANGED <<work, link, mail, sessions>> /\ (mishaps' = mishaps \/ Mishap)
        /\ (killed' = killed \/ killed' = TRUE)
    BY DEF Enqueue, Reclaim, ReclaimSlow, Same
  <1>2. row' \in [Events -> RowType]
    <2>1. ASSUME NEW e \in Events, Enqueue(e) PROVE row' \in [Events -> RowType]
      BY <2>1, RowSettled DEF Enqueue, IInv
    <2>2. ASSUME NEW e \in Events,
                 row' = [row EXCEPT ![e].status = "pending", ![e].token = None]
          PROVE  row' \in [Events -> RowType]
      <3>1. PICK r : r = [row EXCEPT ![e].status = "pending"]
        OBVIOUS
      <3>2. r \in [Events -> RowType]
        BY <3>1, RowSettled DEF IInv
      <3>3. row' = [r EXCEPT ![e].token = None]
        BY <2>2, <3>1 DEF IInv, OthersOK, RowType
      <3> QED
        BY <3>2, <3>3 DEF RowType
    <2>3. ASSUME NEW w \in Workers, ReclaimSlow(w) PROVE row' \in [Events -> RowType]
      <3>1. work[w].event \in Events
        BY <2>3 DEF ReclaimSlow, IInv, WorkOK, Working, Idle
      <3> QED
        BY <2>2, <2>3, <3>1 DEF ReclaimSlow
    <2> QED
      BY <2>1, <2>2, <2>3 DEF Reclaim
  <1>3. LinksOK' /\ Later /\ WorkOK'
    BY <1>1, LinksSame, WorkSame DEF IInv
  <1> QED
    BY <1>1, <1>2, <1>3, OthersSame, MailSame, SessionsSame DEF IInv, OthersOK

LEMMA ReadIInv ==
    ASSUME IInv, NEW w \in Workers, NEW e \in Events, Read(w, e) \/ ReadByHand(w, e)
    PROVE  IInv'
  <1>1. Same /\ UNCHANGED <<row, link, mail, sessions, killed>> /\ (mishaps' = mishaps \/ Mishap)
    BY DEF Read, ReadByHand, Same
  <1>2. row[e] \in RowType
    BY DEF IInv, OthersOK
  <1>3. PICK attempt \in Nat, old \in LinkIds \cup {None}, from \in {"pending", "dead"} :
          work' = [work EXCEPT ![w] = [pc |-> "read", event |-> e, attempt |-> attempt,
                                       old |-> old, new |-> None, from |-> from]]
    <2>1. row[e].attempts \in Nat /\ row[e].attempts + 1 \in Nat /\ row[e].link \in LinkIds \cup {None}
      BY <1>2 DEF RowType
    <2> QED
      BY <2>1, ZenonT(30) DEF Read, ReadByHand
  <1>4. PICK x : x = [pc |-> "read", event |-> e, attempt |-> attempt,
                      old |-> old, new |-> None, from |-> from]
    OBVIOUS
  <1>5. x \in Working /\ x.pc = "read"
    BY <1>4 DEF Working
  <1>6. HoldsOK(x)'
    BY <1>5 DEF HoldsOK
  <1> QED
    BY <1>1, <1>3, <1>4, <1>6, WorkStep DEF IInv, OthersOK

LEMMA ClaimIInv == ASSUME IInv, NEW w \in Workers, Claim(w) PROVE IInv'
  <1>1. Same /\ UNCHANGED <<link, mail, sessions, killed, mishaps>> /\ work[w].pc = "read"
    BY DEF Claim, Same
  <1>2. PICK e : e = work[w].event
    OBVIOUS
  <1>3. work[w] \in Working /\ e \in Events
    BY <1>1, <1>2 DEF IInv, WorkOK, Working, Idle
  <1>4. CASE row[e].status = work[w].from
    <2>1. PICK pc : pc = Start(w)
      OBVIOUS
    <2>2. scope.kind[e] \in Kinds
      BY <1>3, ScopeAssumption DEF IInv, OthersOK
    <2>3. /\ pc \in {"void", "make", "send", "done", "failed"}
          /\ pc = "void" => ~derived /\ work[w].old # None
          /\ pc = "send" => scope.kind[e] = "text"
      BY <1>2, <2>1, <2>2 DEF Start, Kinds
    <2>4. PICK x \in Working :
             /\ x = [work[w] EXCEPT !.pc = pc] /\ x.pc = pc /\ x.event = e
             /\ x.old = work[w].old /\ x.new = work[w].new
      BY <1>1, <1>2, <2>3, GoesOn DEF IInv
    <2>5. HoldsOK(x)'
      BY <1>1, <2>3, <2>4 DEF HoldsOK, Same, Working
    <2>6. work' = [work EXCEPT ![w] = x]
      BY <1>2, <1>4, <2>1, <2>4 DEF Claim, Goto
    <2>7. row' \in [Events -> RowType]
      <3>1. row' = [row EXCEPT ![e].status = "processing", ![e].token = w, ![e].attempts = @ + 1]
        BY <1>2, <1>4 DEF Claim
      <3>2. PICK r : r = [row EXCEPT ![e].status = "processing"]
        OBVIOUS
      <3>3. r \in [Events -> RowType]
        BY <1>3, <3>2, RowSettled DEF IInv
      <3>4. PICK t : t = [r EXCEPT ![e].token = w]
        OBVIOUS
      <3>5. t \in [Events -> RowType]
        BY <3>3, <3>4 DEF RowType
      <3>6. row' = [t EXCEPT ![e].attempts = @ + 1]
        BY <3>1, <3>2, <3>4 DEF IInv, OthersOK, RowType
      <3> QED
        BY <1>3, <3>5, <3>6 DEF RowType
    <2> QED
      BY <1>1, <2>5, <2>6, <2>7, WorkStep DEF IInv, OthersOK
  <1>5. CASE row[e].status # work[w].from
    <2>1. work' = [work EXCEPT ![w] = Idle] /\ row' = row
      BY <1>2, <1>5 DEF Claim
    <2> QED
      BY <1>1, <2>1, IdleHolds, WorkStep DEF IInv, OthersOK
  <1> QED
    BY <1>4, <1>5

-----------------------------------------------------------------------------
(* Sending it and settling it. *)

\* Links grow, and one worker moves.
LEMMA LinkStep ==
    ASSUME IInv, Same, NEW w \in Workers, NEW x, HoldsOK(x)', work' = [work EXCEPT ![w] = x],
           LinksOK', Later, UNCHANGED <<row, mail, sessions, killed, mishaps>>
    PROVE  IInv'
  <1>1. WorkOK'
    BY WorkMoves DEF IInv
  <1> QED
    BY <1>1, OthersSame, MailSame, SessionsSame DEF IInv, OthersOK

LEMMA VoidIInv == ASSUME IInv, NEW w \in Workers, Void(w) PROVE IInv'
  <1>1. /\ Same /\ UNCHANGED <<row, mail, sessions, killed, mishaps>> /\ work[w].pc = "void"
        /\ link' = [link EXCEPT ![work[w].old] = IF @ = "live" THEN "void" ELSE @]
    BY DEF Void, Same
  <1>2. ~derived /\ work[w].old \in LinkIds
    BY <1>1 DEF IInv, WorkOK, HoldsOK
  <1>3. LinksOK' /\ Later
    BY <1>1, <1>2 DEF IInv, LinksOK, Same, Later
  <1>4. PICK x \in Working : x = [work[w] EXCEPT !.pc = "make"] /\ x.pc = "make"
    BY <1>1, GoesOn DEF IInv
  <1>5. HoldsOK(x)' /\ work' = [work EXCEPT ![w] = x]
    BY <1>4 DEF HoldsOK, Void, Goto
  <1> QED
    BY <1>1, <1>3, <1>5, LinkStep

LEMMA MakeIInv == ASSUME IInv, NEW w \in Workers, Make(w) PROVE IInv'
  <1>1. Same /\ UNCHANGED <<row, mail, sessions, killed, mishaps>> /\ work[w].pc = "make"
    BY DEF Make, Same
  <1>2. work[w] \in Working /\ work[w].event \in Events
    BY <1>1 DEF IInv, WorkOK, Working, Idle
  <1>3. PICK l \in LinkIds :
           /\ link' = [link EXCEPT ![l] = IF @ = "none" THEN "live" ELSE @]
           /\ work' = [work EXCEPT ![w].pc = "record", ![w].new = l]
    BY <1>2 DEF Make, LinkIds
  <1>4. LinksOK' /\ Later /\ link'[l] # "none"
    BY <1>1, <1>3 DEF IInv, LinksOK, Same, Later
  <1>5. PICK x : x = [work[w] EXCEPT !.pc = "record", !.new = l]
    OBVIOUS
  <1>6. x \in Working /\ x.new = l
    BY <1>2, <1>5 DEF Working
  <1>7. x.pc = "record"
    BY <1>2, <1>5 DEF Working
  <1>8. HoldsOK(x)'
    BY <1>3, <1>4, <1>6, <1>7 DEF HoldsOK
  <1>9. work' = [work EXCEPT ![w] = x]
    BY <1>3, <1>5 DEF IInv, WorkOK
  <1> QED
    BY <1>1, <1>4, <1>8, <1>9, LinkStep

LEMMA RecordIInv == ASSUME IInv, NEW w \in Workers, Record(w) PROVE IInv'
  <1>1. Same /\ UNCHANGED <<link, mail, sessions, killed, mishaps>> /\ work[w].pc = "record"
    BY DEF Record, Same
  <1>2. work[w] \in Working /\ work[w].event \in Events /\ work[w].new \in LinkIds \cup {None}
    BY <1>1 DEF IInv, WorkOK, Working, Idle
  <1>3. row' \in [Events -> RowType]
    <2>1. row' = [row EXCEPT ![work[w].event].link = work[w].new]
      BY DEF Record
    <2> QED
      BY <1>2, <2>1 DEF IInv, OthersOK, RowType
  <1>4. PICK x \in Working :
           /\ x = [work[w] EXCEPT !.pc = "send"] /\ x.pc = "send" /\ x.event = work[w].event
           /\ x.new = work[w].new
    BY <1>1, GoesOn DEF IInv
  <1>5. HoldsOK(x)'
    BY <1>1, <1>4 DEF HoldsOK, IInv, WorkOK, Same
  <1>6. work' = [work EXCEPT ![w] = x]
    BY <1>4 DEF Record, Goto
  <1> QED
    BY <1>1, <1>3, <1>5, <1>6, WorkStep DEF IInv, OthersOK

LEMMA SendIInv ==
    ASSUME IInv, NEW w \in Workers, Send(w) \/ SendFails(w) PROVE IInv'
  <1>1. /\ Same /\ UNCHANGED <<row, link, sessions, killed>> /\ work[w].pc = "send"
        /\ mail' \in {mail, Mailed(w)} /\ (mishaps' = mishaps \/ Mishap)
    BY DEF Send, SendFails, Same
  <1>2. PICK e : e = work[w].event
    OBVIOUS
  <1>3. e \in Events
    BY <1>1, <1>2 DEF IInv, WorkOK, Working, Idle
  <1>4. MailOK'
    <2>1. scope.kind[e] = "link" => work[w].new \in LinkIds /\ link[work[w].new] # "none"
      BY <1>1, <1>2 DEF IInv, WorkOK, HoldsOK
    <2>2. PICK new : new = IF mail[e] # None THEN mail[e]
                           ELSE IF scope.kind[e] = "link" THEN work[w].new ELSE "text"
      OBVIOUS
    <2>3. Mailed(w) = [mail EXCEPT ![e] = new]
      BY <1>2, <2>2 DEF Mailed
    <2>4. new \in LinkIds \cup {None, "text"} /\ (new \in LinkIds => link[new] # "none")
      BY <1>3, <2>1, <2>2, NamesAssumption DEF IInv, MailOK, LinkIds
    <2> QED
      BY <1>1, <1>3, <2>3, <2>4 DEF IInv, MailOK
  <1>5. PICK pc \in {"done", "failed"} : Goto(w, pc)
    BY DEF Send, SendFails
  <1>6. PICK x \in Working : x = [work[w] EXCEPT !.pc = pc] /\ x.pc = pc
    BY <1>1, <1>5, GoesOn DEF IInv
  <1>7. HoldsOK(x)' /\ work' = [work EXCEPT ![w] = x]
    BY <1>5, <1>6 DEF HoldsOK, Goto
  <1>8. LinksOK' /\ Later /\ WorkOK'
    BY <1>1, <1>7, LinksSame, WorkMoves DEF IInv
  <1> QED
    BY <1>1, <1>4, <1>8, OthersSame, SessionsSame DEF IInv, OthersOK

LEMMA SettleIInv ==
    ASSUME IInv, NEW w \in Workers, Succeed(w) \/ Fail(w) PROVE IInv'
  <1>1. /\ Same /\ UNCHANGED <<link, mail, sessions, killed, mishaps>>
        /\ work' = [work EXCEPT ![w] = Idle] /\ work[w].pc \in {"done", "failed"}
    BY DEF Succeed, Fail, Settle, Same
  <1>2. work[w].event \in Events
    BY <1>1 DEF IInv, WorkOK, Working, Idle
  <1>3. row[work[w].event].status \in {"none", "pending", "processing", "succeeded", "dead"}
    BY <1>2 DEF IInv, OthersOK, RowType
  <1>4. PICK status \in {"none", "pending", "processing", "succeeded", "dead"} :
           row' = IF Owns(w) THEN [row EXCEPT ![work[w].event].status = status] ELSE row
    BY <1>3 DEF Succeed, Fail, Settle
  <1>5. row' \in [Events -> RowType]
    BY <1>2, <1>4, RowSettled DEF IInv, OthersOK
  <1> QED
    BY <1>1, <1>5, IdleHolds, WorkStep DEF IInv, OthersOK

LEMMA CrashIInv == ASSUME IInv, NEW w \in Workers, Crash(w) PROVE IInv'
BY IdleHolds, WorkStep DEF Crash, Same, IInv, OthersOK

-----------------------------------------------------------------------------
(* The account. *)

\* Only links and the account change.
LEMMA AccountStep ==
    ASSUME IInv, UNCHANGED <<scope, derived, outbox, mishaps>>, LinksOK', Later, SessionsOK'
    PROVE  IInv'
  <1>1. Same /\ UNCHANGED <<row, work, mail, killed>>
    BY DEF Same, outbox
  <1> QED
    BY <1>1, OthersSame, WorkSame, MailSame DEF IInv, OthersOK

LEMMA OpenIInv ==
    ASSUME IInv, NEW v \in Visits, OpenLogin(v) \/ \E e \in Events : OpenReset(v, e)
    PROVE  IInv'
  <1>1. UNCHANGED <<scope, derived, outbox, link, account, cookies, mishaps>>
    BY DEF OpenLogin, OpenReset
  <1>2. PICK x : x \in VisitType /\ visit' = [visit EXCEPT ![v] = x]
                 /\ (x.pc = "login" => x.cookie = account)
    <2>1. CASE OpenLogin(v)
      <3>1. PICK x : x = [pc |-> "login", cookie |-> account]
        OBVIOUS
      <3>2. x \in VisitType /\ x.cookie = account /\ visit' = [visit EXCEPT ![v] = x]
        BY <2>1, <3>1 DEF OpenLogin, VisitType, IInv, SessionsOK
      <3> QED
        BY <3>2
    <2>2. ASSUME NEW e \in Events, OpenReset(v, e)
          PROVE  \E x : x \in VisitType /\ visit' = [visit EXCEPT ![v] = x]
                        /\ (x.pc = "login" => x.cookie = account)
      <3>1. PICK x : x = [pc |-> "reset", link |-> mail[e]]
        OBVIOUS
      <3>2. x \in VisitType /\ x.pc = "reset" /\ visit' = [visit EXCEPT ![v] = x]
        BY <2>2, <3>1 DEF OpenReset, VisitType
      <3> QED
        BY <3>2
    <2> QED
      BY <2>1, <2>2
  <1>3. visit' \in [Visits -> VisitType] /\ \A u \in Visits : visit'[u] = IF u = v THEN x ELSE visit[u]
    BY <1>2 DEF IInv, SessionsOK
  <1>4. Follows(account)
    BY DEF IInv, SessionsOK, CookieType, Follows
  <1>5. \A u \in Visits : visit'[u].pc = "login" => Follows(visit'[u].cookie)
    BY <1>2, <1>3, <1>4 DEF IInv, SessionsOK
  <1>6. SessionsOK'
    BY <1>1, <1>3, <1>5 DEF IInv, SessionsOK, Follows
  <1> QED
    BY <1>1, <1>6, AccountStep, LinksSame DEF IInv, Same

\* The account's version is one more: no cookie is that new.
LEMMA NewVersion ==
    ASSUME SessionsOK, NEW new \in CookieType, new.version = account.version + 1,
           new.password <= new.version, account' = new,
           visit' = visit \/ (\E v \in Visits : visit' = [visit EXCEPT ![v] = Idle]),
           cookies' = cookies
    PROVE  SessionsOK'
  <1>1. account.version \in Int
    BY DEF SessionsOK, CookieType
  <1>2. \A c \in CookieType : Follows(c) => Follows(c)'
    BY <1>1 DEF Follows, CookieType
  <1>3. \A v \in Visits : visit[v].pc = "login" => visit[v].cookie \in CookieType
    BY DEF SessionsOK, VisitType, Idle
  <1>4. /\ visit' \in [Visits -> VisitType]
        /\ \A v \in Visits : visit'[v] = visit[v] \/ visit'[v] = Idle
    BY DEF SessionsOK, VisitType
  <1>5. Idle.pc # "login"
    BY DEF Idle
  <1> QED
    BY <1>2, <1>3, <1>4, <1>5 DEF SessionsOK

LEMMA ResetIInv == ASSUME IInv, NEW v \in Visits, Reset(v) PROVE IInv'
  <1>1. /\ UNCHANGED <<scope, derived, outbox, cookies, mishaps>>
        /\ visit' = [visit EXCEPT ![v] = Idle] /\ account.version < VersionLimit
        /\ link' = [link EXCEPT ![visit[v].link] = "spent"]
    BY DEF Reset
  <1>2. PICK n, m \in Int : n = account.password /\ m = account.version
    BY DEF IInv, SessionsOK, CookieType
  <1>3. account = [password |-> n, version |-> m] /\ 0 <= n /\ n <= m /\ m < VersionLimit
    BY <1>1, <1>2 DEF IInv, SessionsOK, CookieType
  <1>4. PICK new : new = [password |-> n + 1, version |-> m + 1]
    OBVIOUS
  <1>5. account' = new
    <2>1. PICK mid : mid = Version(account)
      OBVIOUS
    <2>2. mid = [password |-> n, version |-> m + 1]
      BY <1>3, <2>1 DEF Version
    <2>3. account' = [mid EXCEPT !.password = @ + 1]
      BY <2>1 DEF Reset
    <2> QED
      BY <1>4, <2>2, <2>3
  <1>6. new \in CookieType /\ new.version = account.version + 1 /\ new.password <= new.version
    BY <1>2, <1>3, <1>4, VersionAssumption DEF CookieType
  <1>7. SessionsOK'
    BY <1>1, <1>5, <1>6, NewVersion DEF IInv
  <1>8. LinksOK' /\ Later
    BY <1>1 DEF IInv, LinksOK, Later
  <1> QED
    BY <1>1, <1>7, <1>8, AccountStep

LEMMA RevokeIInv == ASSUME IInv, Revoke PROVE IInv'
  <1>1. /\ UNCHANGED <<scope, derived, outbox, link, visit, cookies, mishaps>>
        /\ account.version < VersionLimit
    BY DEF Revoke
  <1>2. PICK n, m \in Int : n = account.password /\ m = account.version
    BY DEF IInv, SessionsOK, CookieType
  <1>3. account = [password |-> n, version |-> m] /\ 0 <= n /\ n <= m /\ m < VersionLimit
    BY <1>1, <1>2 DEF IInv, SessionsOK, CookieType
  <1>4. PICK new : new = [password |-> n, version |-> m + 1]
    OBVIOUS
  <1>5. account' = new
    BY <1>3, <1>4 DEF Revoke, Version
  <1>6. new \in CookieType /\ new.version = account.version + 1 /\ new.password <= new.version
    BY <1>2, <1>3, <1>4, VersionAssumption DEF CookieType
  <1>7. SessionsOK'
    BY <1>1, <1>5, <1>6, NewVersion DEF IInv
  <1> QED
    BY <1>1, <1>7, AccountStep, LinksSame DEF IInv, Same

LEMMA LoginIInv == ASSUME IInv, NEW v \in Visits, Login(v) PROVE IInv'
  <1>1. /\ UNCHANGED <<scope, derived, outbox, link, account, mishaps>>
        /\ visit[v].pc = "login" /\ visit' = [visit EXCEPT ![v] = Idle]
        /\ cookies' = cookies \cup {visit[v].cookie}
    BY DEF Login
  <1>2. visit[v].cookie \in CookieType /\ Follows(visit[v].cookie)
    BY <1>1 DEF IInv, SessionsOK, VisitType, Idle
  <1>3. SessionsOK'
    BY <1>1, <1>2 DEF IInv, SessionsOK, Follows, VisitType, Idle
  <1> QED
    BY <1>1, <1>3, AccountStep, LinksSame DEF IInv, Same

LEMMA ExpireIInv == ASSUME IInv, NEW l \in LinkIds, Expire(l) PROVE IInv'
  <1>1. UNCHANGED <<scope, derived, outbox, sessions, mishaps>> /\ link' = [link EXCEPT ![l] = "expired"]
    BY DEF Expire
  <1>2. LinksOK' /\ Later
    BY <1>1 DEF IInv, LinksOK, Later
  <1> QED
    BY <1>1, <1>2, AccountStep, SessionsSame DEF IInv

-----------------------------------------------------------------------------

LEMMA NextIInv == ASSUME IInv, [Next]_vars PROVE IInv'
  <1>1. CASE UNCHANGED vars
    <2>1. Same /\ UNCHANGED <<scope, derived, row, work, link, mail, killed, mishaps, outbox, sessions>>
      BY <1>1 DEF vars, Same, outbox, sessions
    <2> QED
      BY <2>1, LinksSame, SessionsSame, AccountStep DEF IInv
  <1> QED
    BY <1>1, RowIInv, ReadIInv, ClaimIInv, VoidIInv, MakeIInv, RecordIInv, SendIInv, SettleIInv,
       CrashIInv, OpenIInv, ResetIInv, RevokeIInv, LoginIInv, ExpireIInv DEF Next, Handle

\* What workers, links, mails and sessions are in every reachable state.
THEOREM NotificationsInvariant == Spec => []IInv
  <1>1. IInv /\ [Next]_vars => IInv'
    BY NextIInv
  <1> QED
    BY <1>1, InitIInv, PTL DEF Spec

\* Rows, workers, links, mails and visits keep their types.
THEOREM TypeCorrect == Spec => []TypeOK
BY IInvTypeOK, NotificationsInvariant, PTL

\* With derived links, a mailed link is never withdrawn by a later attempt, however
\* workers crash, lose their lease, overlap or are started by hand.
THEOREM MailedLinksWorkHolds == Spec => []MailedLinksWork
  <1>1. IInv => MailedLinksWork
    BY DEF IInv, MailedLinksWork, MailOK, LinksOK
  <1> QED
    BY <1>1, NotificationsInvariant, PTL

\* A session that is still accepted was opened with the password of today, whatever
\* logins, resets and revocations overlapped.
THEOREM SessionsFollowPasswordHolds == Spec => []SessionsFollowPassword
  <1>1. IInv => SessionsFollowPassword
    BY DEF IInv, SessionsFollowPassword, SessionsOK, Follows
  <1> QED
    BY <1>1, NotificationsInvariant, PTL
=============================================================================

-------------------------- MODULE PurchaseJobsProofs --------------------------
(***************************************************************************)
(* Proofs about PurchaseJobs, for any number of orders, workers and hub    *)
(* ids, any attempts and any faults.                                       *)
(***************************************************************************)
EXTENDS PurchaseJobs, TLAPS

-----------------------------------------------------------------------------
(* Jobs *)

LEMMA JobsAre ==
    /\ Resolve \in Jobs
    /\ \A k \in {"capture", "confirm", "provision", "revoke"}, o \in Orders :
          <<k, o>> \in Jobs
BY DEF Jobs, LinkingJobs, ProvisioningJobs

LEMMA JobFields ==
    ASSUME NEW j \in Jobs
    PROVE  /\ Kind(j) \in {"resolve", "capture", "confirm", "provision", "revoke"}
           /\ Kind(j) = "resolve" <=> j = Resolve
           /\ Kind(j) # "resolve" => OrderOf(j) \in Orders /\ j = <<Kind(j), OrderOf(j)>>
BY DEF Jobs, LinkingJobs, ProvisioningJobs, Resolve, Kind, OrderOf

\* Jobs of different kinds or orders differ.
LEMMA JobsDiffer ==
    /\ Kind(Resolve) = "resolve"
    /\ \A k, o : Kind(<<k, o>>) = k /\ OrderOf(<<k, o>>) = o
BY DEF Resolve, Kind, OrderOf

-----------------------------------------------------------------------------
(* Steps of a worker *)

Points == {"claim", "load", "call", "compare", "identity", "user", "link", "store",
           "decline", "succeed", "block", "conflict", "fail", "failOrder", "reissue"}

Places == [Workers -> Busy \cup {Idle}]

\* Worker w went on with its job, to the point pc, with the common user id id.
After(w, pc, id) ==
    /\ worker' \in Places
    /\ \A v \in Workers \ {w} : worker'[v] = worker[v]
    /\ worker'[w].pc = pc
    /\ worker'[w].job = worker[w].job
    /\ worker'[w].id = id

\* Worker w left its job.
Left(w) ==
    /\ worker' \in Places
    /\ \A v \in Workers \ {w} : worker'[v] = worker[v]
    /\ worker'[w].pc = "idle"

LEMMA BusyFields ==
    ASSUME NEW b \in Busy, NEW pc \in Points, NEW id \in Ids \cup {None}
    PROVE  /\ [b EXCEPT !.pc = pc] \in Busy
           /\ [b EXCEPT !.pc = pc].pc = pc
           /\ [b EXCEPT !.pc = pc].job = b.job
           /\ [b EXCEPT !.pc = pc].id = b.id
           /\ [b EXCEPT !.id = id] \in Busy
           /\ [b EXCEPT !.id = id].id = id
           /\ [b EXCEPT !.id = id].job = b.job
BY DEF Busy, Points

LEMMA BusyIs ==
    ASSUME TypeOK, NEW w \in Workers, worker[w].pc # "idle"
    PROVE  /\ worker[w] \in Busy /\ worker[w].job \in Jobs /\ worker[w].seen \in Nat
           /\ worker[w].id \in Ids \cup {None} /\ worker[w].pc \in Points
BY DEF TypeOK, Busy, Idle, Points

LEMMA GotoAfter ==
    ASSUME TypeOK, NEW w \in Workers, worker[w].pc # "idle", NEW pc \in Points, Goto(w, pc)
    PROVE  After(w, pc, worker[w].id)
  <1>1. worker[w] \in Busy /\ worker[w].id \in Ids \cup {None}
    BY BusyIs
  <1> DEFINE b == [worker[w] EXCEPT !.pc = pc]
  <1>2. b \in Busy /\ b.pc = pc /\ b.job = worker[w].job /\ b.id = worker[w].id
    BY <1>1, BusyFields
  <1>3. worker' = [worker EXCEPT ![w] = b] /\ worker \in Places
    BY DEF Goto, TypeOK, Places
  <1> HIDE DEF b
  <1> QED
    BY <1>2, <1>3 DEF After, Places

LEMMA LoadAfter ==
    ASSUME TypeOK, NEW w \in Workers, worker[w].pc # "idle", NEW pc \in Points,
           NEW id \in Ids \cup {None},
           worker' = [worker EXCEPT ![w].id = id, ![w].pc = pc]
    PROVE  After(w, pc, id)
  <1>1. worker[w] \in Busy
    BY BusyIs
  <1> DEFINE c == [worker[w] EXCEPT !.id = id]
             b == [c EXCEPT !.pc = pc]
  <1>2. c \in Busy /\ c.id = id /\ c.job = worker[w].job
    BY <1>1, BusyFields
  <1>3. b \in Busy /\ b.pc = pc /\ b.job = c.job /\ b.id = c.id
    BY <1>2, BusyFields
  <1>4. worker' = [worker EXCEPT ![w] = b] /\ worker \in Places
    BY DEF TypeOK, Places
  <1> HIDE DEF b, c
  <1> QED
    BY <1>2, <1>3, <1>4 DEF After, Places

LEMMA FinishLeft ==
    ASSUME TypeOK, NEW w \in Workers, Finish(w)
    PROVE  Left(w)
BY DEF TypeOK, Finish, Left, Places, Idle

\* A request that needs the buyer's common user id carries one.
CallsCarryId ==
    \A w \in Workers :
       worker[w].pc = "call" /\ Kind(worker[w].job) \in {"confirm", "provision"}
         => worker[w].id # None

LEMMA MishapTypes ==
    ASSUME TypeOK, UNCHANGED mishaps \/ (mishaps < MishapLimit /\ mishaps' = mishaps + 1)
    PROVE  mishaps' \in 0..MishapLimit
BY MishapAssumption DEF TypeOK

LEMMA InitTypeOK == Init => TypeOK
  <1> SUFFICES ASSUME Init PROVE TypeOK
    OBVIOUS
  <1>1. NoRow \in Row /\ NewRow(None) \in Row
    BY DEF NoRow, NewRow, Row, Statuses, Waiting, Blocked
  <1>2. [j \in Jobs |-> NoRow] \in [Jobs -> Row]
    BY <1>1
  <1>3. Registered \in [Jobs -> Row]
    BY <1>1 DEF Registered, Enqueued
  <1>4. row \in [Jobs -> Row]
    BY <1>2, <1>3 DEF Init
  <1>5. \A r \in BOOLEAN : NewOrder(r) \in OrderRow
    BY DEF NewOrder, OrderRow, ProvisioningStatuses
  <1>6. PICK p \in Purchases : /\ order = [o \in Orders |-> NewOrder(p.referred)]
                               /\ offered = p.offered
    BY DEF Init
  <1>7. p.referred \in BOOLEAN /\ p.offered \in BOOLEAN
    BY PurchaseAssumption
  <1>8. order \in [Orders -> OrderRow] /\ offered \in BOOLEAN
    BY <1>5, <1>6, <1>7
  <1>9. worker \in [Workers -> Busy \cup {Idle}] /\ \A w \in Workers : worker[w].pc = "idle"
    BY DEF Init, Idle
  <1> QED
    BY <1>4, <1>8, <1>9, MishapAssumption DEF Init, TypeOK

-----------------------------------------------------------------------------
(* The inductive invariant *)

\* Worker w is at one of the points pcs of job j.
At(w, pcs, j) == worker[w].pc \in pcs /\ worker[w].job = j

\* Worker w has claimed job j and has not settled it.
Running(w, j) ==
    /\ worker[w].pc \notin {"idle", "claim", "reissue", "failOrder"}
    /\ worker[w].job = j

\* Only a job that is written can be worked on, and a claim never takes a job
\* that is being processed or has succeeded.
JobShape ==
    /\ \A j \in Jobs : row[j].status = "absent" => row[j] = NoRow
    /\ \A w \in Workers :
          /\ worker[w].pc = "claim"
               => worker[w].from \cap {"processing", "absent", "succeeded"} = {}
          /\ worker[w].pc \notin {"idle", "reissue"}
               => row[worker[w].job].status # "absent"

\* A worker whose job's lease was not called in under anyone holds it.
Leases ==
    \A j \in Jobs \ contested : \A w \in Workers :
       Running(w, j) => row[j].status = "processing" /\ row[j].token = w

\* The points of the resolve job, and the id that was compared before it is saved.
IdentityShape ==
    /\ \A w \in Workers :
          /\ worker[w].pc \in {"compare", "identity", "user", "link"}
               => worker[w].job = Resolve /\ worker[w].id \in Ids
          /\ worker[w].pc = "identity" /\ Resolve \notin contested
               => user.identity \in {None, worker[w].id}

\* The points of the provisioning job.
GrantShape ==
    \A w \in Workers :
       /\ worker[w].pc = "reissue" => \E o \in Orders : worker[w].job = <<"provision", o>>
       /\ worker[w].pc = "decline" => ~offered /\ Kind(worker[w].job) = "provision"

\* No grant for order o is past its check of the payment, and the account is not open.
NoGrants(o) ==
    \A w \in Workers :
       ~At(w, {"call", "store", "decline", "fail", "failOrder"}, <<"provision", o>>)
Closed(o) == o \notin access /\ NoGrants(o)

\* Without a common user id nothing was granted.
BeforeId ==
    \A o \in Orders :
       order[o].common = None
         => /\ Closed(o) /\ order[o].access # "provisioned"
            /\ \A w \in Workers : ~At(w, {"reissue"}, <<"provision", o>>)

\* A revocation exists for refunded orders only, and for each that was granted
\* access, unless the product stopped granting it.
RefundShape ==
    \A o \in Orders :
       LET revoke == row[<<"revoke", o>>].status
       IN  /\ revoke # "absent" => order[o].pay = "refunded"
           /\ offered /\ order[o].pay = "paid" => order[o].access # "not_applicable"
           /\ offered /\ order[o].pay = "refunded" => revoke # "absent"

\* What the revocation has achieved by the time its answer is stored, its
\* job settled, and afterwards.
RevokeShape ==
    \A o \in Orders \ raced :
       LET revoke == <<"revoke", o>>
       IN  /\ \A w \in Workers :
                 /\ At(w, {"store", "succeed"}, revoke) => Closed(o)
                 /\ At(w, {"succeed"}, revoke) => order[o].access # "provisioned"
           /\ row[revoke].status = "succeeded"
                => Closed(o) /\ order[o].access # "provisioned"

AccessShape == GrantShape /\ BeforeId /\ RefundShape /\ RevokeShape

IInv == TypeOK /\ JobShape /\ Leases /\ IdentityShape /\ AccessShape

LEMMA InitIInv == Init => IInv
  <1> SUFFICES ASSUME Init PROVE JobShape /\ Leases /\ IdentityShape /\ AccessShape
    BY InitTypeOK DEF IInv
  <1>0. \A w \in Workers : worker[w].pc = "idle"
    BY DEF Init, Idle
  <1>1. \A j \in Jobs : row[j] = NoRow \/ (j = Resolve /\ row[j].status = "pending")
    BY DEF Init, Registered, Enqueued, NewRow
  <1>2. JobShape /\ Leases
    BY <1>0, <1>1 DEF JobShape, Leases, Running
  <1>3. IdentityShape
    BY <1>0 DEF IdentityShape
  <1>4. /\ \A o \in Orders : order[o].pay = "none" /\ order[o].access = "not_applicable"
        /\ access = {}
    BY DEF Init, NewOrder
  <1>5. \A o \in Orders : row[<<"revoke", o>>].status = "absent"
    <2> SUFFICES ASSUME NEW o \in Orders PROVE row[<<"revoke", o>>].status = "absent"
      OBVIOUS
    <2>1. <<"revoke", o>> \in Jobs /\ <<"revoke", o>> # Resolve
      BY JobsAre, JobsDiffer
    <2> QED
      BY <1>1, <2>1 DEF NoRow
  <1>6. AccessShape
    BY <1>0, <1>4, <1>5 DEF AccessShape, GrantShape, BeforeId, RefundShape, RevokeShape,
       Closed, NoGrants, At
  <1> QED
    BY <1>2, <1>3, <1>6

-----------------------------------------------------------------------------
(* What the steps do to the rows *)

LEMMA RowFields ==
    ASSUME NEW r \in Row, NEW s \in Statuses, NEW n \in Nat
    PROVE  /\ [r EXCEPT !.status = s, !.token = None] \in Row
           /\ [r EXCEPT !.status = s, !.token = None, !.attempt = n] \in Row
  <1> DEFINE q == [r EXCEPT !.status = s]
             t == [q EXCEPT !.token = None]
             u == [t EXCEPT !.attempt = n]
  <1>1. q \in Row
    BY DEF Row
  <1>2. t \in Row
    <2> HIDE DEF q
    <2> QED
      BY <1>1 DEF Row
  <1>3. u \in Row
    <2> HIDE DEF t
    <2> QED
      BY <1>2 DEF Row
  <1> QED
    BY <1>2, <1>3

LEMMA EnqueuedIs ==
    ASSUME NEW rows \in [Jobs -> Row], NEW j \in Jobs, NEW o \in Orders \cup {None}
    PROVE  /\ Enqueued(rows, j, o) \in [Jobs -> Row]
           /\ \A k \in Jobs \ {j} : Enqueued(rows, j, o)[k] = rows[k]
           /\ Enqueued(rows, j, o)[j] = IF rows[j] = NoRow THEN NewRow(o) ELSE rows[j]
  <1>1. NewRow(o) \in Row
    BY DEF NewRow, Row, Statuses, Waiting
  <1> QED
    BY <1>1 DEF Enqueued

\* Orders, payments and refunds only add rows, and only a refund a revocation.
LEMMA OrderRows ==
    ASSUME TypeOK, NEW o \in Orders, PlaceOrder(o) \/ Pay(o) \/ Refund(o)
    PROVE  /\ row' \in [Jobs -> Row]
           /\ \A k \in Jobs : row'[k] = row[k] \/ (row[k] = NoRow /\ row'[k].status = "pending")
           /\ \A k \in Jobs : Kind(k) = "revoke"
                => row'[k] = row[k] \/ (Refund(o) /\ k = <<"revoke", o>>)
           /\ Refund(o) /\ order[o].access # "not_applicable"
                => row'[<<"revoke", o>>] # NoRow
  <1>0. row \in [Jobs -> Row]
    BY DEF TypeOK
  <1>1. \A x : NewRow(x).status = "pending" /\ NewRow(x) # NoRow
    BY DEF NewRow, NoRow
  <1>2. CASE PlaceOrder(o)
    <2> DEFINE one == Enqueued(row, Resolve, o)
               two == Enqueued(one, <<"capture", o>>, o)
    <2>1. /\ one \in [Jobs -> Row]
          /\ \A k \in Jobs \ {Resolve} : one[k] = row[k]
          /\ one[Resolve] = IF row[Resolve] = NoRow THEN NewRow(o) ELSE row[Resolve]
      BY <1>0, EnqueuedIs, JobsAre
    <2>2. /\ two \in [Jobs -> Row]
          /\ \A k \in Jobs \ {<<"capture", o>>} : two[k] = one[k]
          /\ two[<<"capture", o>>] = IF one[<<"capture", o>>] = NoRow THEN NewRow(o)
                                     ELSE one[<<"capture", o>>]
      <3>1. one \in [Jobs -> Row] /\ <<"capture", o>> \in Jobs /\ o \in Orders \cup {None}
        BY <2>1, JobsAre
      <3> HIDE DEF one
      <3> QED
        BY <3>1, EnqueuedIs
    <2>3. row' = one \/ row' = two
      BY <1>2 DEF PlaceOrder
    <2>4. Resolve # <<"capture", o>>
      BY JobsDiffer
    <2>5. ~Refund(o)
      BY <1>2 DEF PlaceOrder, Refund
    <2> HIDE DEF one, two
    <2>6. \A k \in Jobs : row'[k] = row[k] \/ (row[k] = NoRow /\ row'[k].status = "pending")
      BY <1>1, <2>1, <2>2, <2>3, <2>4
    <2>7. \A k \in Jobs : k # Resolve /\ k # <<"capture", o>> => row'[k] = row[k]
      BY <2>1, <2>2, <2>3
    <2> QED
      BY <2>1, <2>2, <2>3, <2>5, <2>6, <2>7, JobsDiffer
  <1>3. CASE Pay(o)
    <2> DEFINE one == IF order[o].referred THEN Enqueued(row, <<"confirm", o>>, o) ELSE row
               two == Enqueued(one, <<"provision", o>>, o)
    <2>1. /\ one \in [Jobs -> Row]
          /\ \A k \in Jobs \ {<<"confirm", o>>} : one[k] = row[k]
          /\ \/ one[<<"confirm", o>>] = row[<<"confirm", o>>]
             \/ row[<<"confirm", o>>] = NoRow /\ one[<<"confirm", o>>] = NewRow(o)
      <3> DEFINE new == Enqueued(row, <<"confirm", o>>, o)
      <3>1. /\ new \in [Jobs -> Row]
            /\ \A k \in Jobs \ {<<"confirm", o>>} : new[k] = row[k]
            /\ new[<<"confirm", o>>] = IF row[<<"confirm", o>>] = NoRow THEN NewRow(o)
                                       ELSE row[<<"confirm", o>>]
        BY <1>0, EnqueuedIs, JobsAre
      <3>2. one = new \/ one = row
        OBVIOUS
      <3> HIDE DEF new, one
      <3> QED
        BY <1>0, <3>1, <3>2
    <2>2. /\ two \in [Jobs -> Row]
          /\ \A k \in Jobs \ {<<"provision", o>>} : two[k] = one[k]
          /\ two[<<"provision", o>>] = IF one[<<"provision", o>>] = NoRow THEN NewRow(o)
                                       ELSE one[<<"provision", o>>]
      <3>1. one \in [Jobs -> Row] /\ <<"provision", o>> \in Jobs /\ o \in Orders \cup {None}
        BY <2>1, JobsAre
      <3> HIDE DEF one
      <3> QED
        BY <3>1, EnqueuedIs
    <2>3. row' = one \/ row' = two
      BY <1>3 DEF Pay
    <2>4. <<"provision", o>> # <<"confirm", o>>
      BY JobsDiffer
    <2>5. ~Refund(o)
      BY <1>3 DEF Pay, Refund
    <2> HIDE DEF one, two
    <2>6. \A k \in Jobs : row'[k] = row[k] \/ (row[k] = NoRow /\ row'[k].status = "pending")
      BY <1>1, <2>1, <2>2, <2>3, <2>4
    <2>7. \A k \in Jobs : k # <<"provision", o>> /\ k # <<"confirm", o>> => row'[k] = row[k]
      BY <2>1, <2>2, <2>3
    <2> QED
      BY <2>1, <2>2, <2>3, <2>5, <2>6, <2>7, JobsDiffer
  <1>4. CASE Refund(o)
    <2>1. row' = IF order[o].access = "not_applicable" THEN row
                 ELSE Enqueued(row, <<"revoke", o>>, o)
      BY <1>4 DEF Refund, RevokeEnqueued
    <2>2. /\ Enqueued(row, <<"revoke", o>>, o) \in [Jobs -> Row]
          /\ \A k \in Jobs \ {<<"revoke", o>>} : Enqueued(row, <<"revoke", o>>, o)[k] = row[k]
          /\ Enqueued(row, <<"revoke", o>>, o)[<<"revoke", o>>] =
               IF row[<<"revoke", o>>] = NoRow THEN NewRow(o) ELSE row[<<"revoke", o>>]
      BY <1>0, EnqueuedIs, JobsAre
    <2> QED
      BY <1>0, <1>1, <1>4, <2>1, <2>2
  <1> QED
    BY <1>2, <1>3, <1>4

\* A dispatcher puts back expired jobs, and says whose it took.
LEMMA DispatchRows ==
    ASSUME TypeOK, NEW w \in Workers, NEW j \in Jobs, Dispatch(w, j)
    PROVE  /\ row' \in [Jobs -> Row] /\ stale' \in [Jobs -> BOOLEAN]
           /\ contested \subseteq contested' /\ contested' \subseteq Jobs
           /\ \A k \in Jobs :
                 \/ row'[k] = row[k]
                 \/ /\ row[k].status = "processing" /\ row'[k].status = "pending"
                    /\ (\E v \in Workers : Holds(v, k)) => k \in contested'
           /\ row'[j].status \in {"pending", "blocked"} /\ row'[j].attempt \in Nat
           /\ worker' = [worker EXCEPT ![w] =
                           [pc |-> "claim", job |-> j, from |-> Waiting,
                            seen |-> row'[j].attempt, id |-> None]]
  <1> DEFINE back == {k \in TableOf(j) : row[k].status = "processing" /\ stale[k]}
             rows == Released(row, back)
  <1>1. /\ row' = rows /\ Due(rows[j])
        /\ stale' = [k \in Jobs |-> k \notin back /\ stale[k]]
        /\ contested' = contested \cup {k \in back : \E v \in Workers : Holds(v, k)}
        /\ worker' = [worker EXCEPT ![w] =
                           [pc |-> "claim", job |-> j, from |-> Waiting,
                            seen |-> rows[j].attempt, id |-> None]]
    BY DEF Dispatch
  <1>2. \A k \in Jobs : [row[k] EXCEPT !.status = "pending", !.token = None] \in Row
    BY RowFields DEF TypeOK, Statuses, Waiting
  <1>3. rows \in [Jobs -> Row]
    BY <1>2 DEF Released, TypeOK
  <1>4. \A k \in Jobs : \/ row'[k] = row[k]
                        \/ /\ k \in back /\ row'[k].status = "pending"
    BY <1>1 DEF Released, TypeOK, Row
  <1>5. TableOf(j) \subseteq Jobs
    BY DEF TableOf, Jobs
  <1>6. contested' \subseteq Jobs
    BY <1>1, <1>5 DEF TypeOK
  <1>7. row'[j].attempt \in Nat
    BY <1>1, <1>3 DEF Row
  <1>8. stale' \in [Jobs -> BOOLEAN]
    BY <1>1 DEF TypeOK
  <1> QED
    BY <1>1, <1>3, <1>4, <1>6, <1>7, <1>8 DEF Due

LEMMA SettledRows ==
    ASSUME TypeOK, NEW w \in Workers, worker[w].pc # "idle",
           NEW status \in Statuses \ {"absent"}, NEW attempt \in Nat,
           Settled(w, status, attempt)
    PROVE  /\ row' \in [Jobs -> Row] /\ stale' \in [Jobs -> BOOLEAN]
           /\ \A k \in Jobs :
                 \/ row'[k] = row[k]
                 \/ k = worker[w].job /\ Holds(w, k) /\ row'[k].status = status
  <1>1. worker[w].job \in Jobs
    BY BusyIs
  <1>2. \A k \in Jobs : [row[k] EXCEPT !.status = status, !.token = None, !.attempt = attempt]
                          \in Row
    BY RowFields DEF TypeOK
  <1>5. \A k \in Jobs : [row[k] EXCEPT !.status = status, !.token = None, !.attempt = attempt]
                          .status = status
    BY DEF TypeOK, Row
  <1>3. CASE Holds(w, worker[w].job)
    <2>1. /\ row' = [row EXCEPT ![worker[w].job].status = status,
                                ![worker[w].job].token = None,
                                ![worker[w].job].attempt = attempt]
          /\ stale' = [stale EXCEPT ![worker[w].job] = FALSE]
      BY <1>3 DEF Settled
    <2> DEFINE new == [row[worker[w].job] EXCEPT !.status = status, !.token = None,
                                                 !.attempt = attempt]
    <2>2. row' = [row EXCEPT ![worker[w].job] = new]
      BY <2>1 DEF TypeOK
    <2>3. new \in Row /\ new.status = status
      BY <1>1, <1>2, <1>5
    <2>4. row \in [Jobs -> Row] /\ stale \in [Jobs -> BOOLEAN]
      BY DEF TypeOK
    <2> HIDE DEF new
    <2> QED
      BY <1>1, <1>3, <2>1, <2>2, <2>3, <2>4
  <1>4. CASE ~Holds(w, worker[w].job)
    BY <1>4 DEF Settled, jobVars, TypeOK
  <1> QED
    BY <1>3, <1>4

-----------------------------------------------------------------------------
(* What the steps do to the workers *)

\* Reading the job, calling the hub, and storing the answer: the worker goes on
\* with its job, and no job changes hands.
LEMMA LoadIs ==
    ASSUME TypeOK, NEW w \in Workers, Load(w)
    PROVE  /\ worker[w].pc = "load"
           /\ \E pc \in {"call", "link", "block", "succeed", "decline"}, id \in Ids \cup {None} :
                 /\ After(w, pc, id)
                 /\ pc = "call" /\ Kind(worker[w].job) \in {"confirm", "provision"}
                      => id # None
           /\ UNCHANGED <<jobVars, order, user, offered, hubVars, ghosts, mishaps>>
  <1>0. worker[w].pc = "load"
    BY DEF Load, LoadUser, LoadCapture, LoadConfirm, LoadProvision, LoadRevoke, Working
  <1>1. CASE LoadUser(w)
    <2>1. user.common \in Ids \cup {None}
      BY DEF TypeOK
    <2>2. PICK pc \in {"call", "link"} :
             worker' = [worker EXCEPT ![w].id = user.common, ![w].pc = pc]
      BY <1>1 DEF LoadUser
    <2>3. After(w, pc, user.common)
      BY <1>0, <2>1, <2>2, LoadAfter DEF Points
    <2> QED
      BY <1>0, <1>1, <2>1, <2>3 DEF LoadUser, Working
  <1>2. CASE LoadCapture(w)
    <2>1. After(w, "call", worker[w].id)
      BY <1>0, <1>2, GotoAfter DEF LoadCapture, Points
    <2> QED
      BY <1>0, <1>2, <2>1, BusyIs DEF LoadCapture, Working
  <1>3. CASE LoadConfirm(w)
    <2> DEFINE o == OrderOf(worker[w].job)
    <2>1. o \in Orders
      BY <1>0, <1>3, BusyIs, JobFields DEF LoadConfirm, Working
    <2>2. order[o].common \in Ids \cup {None}
      BY <2>1 DEF TypeOK, OrderRow
    <2>3. PICK pc \in {"block", "call"} :
             /\ worker' = [worker EXCEPT ![w].id = order[o].common, ![w].pc = pc]
             /\ pc = "call" => order[o].common # None
      BY <1>3 DEF LoadConfirm
    <2>4. After(w, pc, order[o].common)
      BY <1>0, <2>2, <2>3, LoadAfter DEF Points
    <2> QED
      BY <1>0, <1>3, <2>2, <2>3, <2>4 DEF LoadConfirm
  <1>4. CASE LoadProvision(w)
    <2> DEFINE o == OrderOf(worker[w].job)
    <2>1. o \in Orders
      BY <1>0, <1>4, BusyIs, JobFields DEF LoadProvision, Working
    <2>2. order[o].common \in Ids \cup {None}
      BY <2>1 DEF TypeOK, OrderRow
    <2>3. PICK pc \in {"succeed", "block", "call", "decline"} :
             /\ worker' = [worker EXCEPT ![w].id = order[o].common, ![w].pc = pc]
             /\ pc = "call" => order[o].common # None
      BY <1>4 DEF LoadProvision
    <2>4. After(w, pc, order[o].common)
      BY <1>0, <2>2, <2>3, LoadAfter DEF Points
    <2> QED
      BY <1>0, <1>4, <2>2, <2>3, <2>4 DEF LoadProvision
  <1>5. CASE LoadRevoke(w)
    <2> DEFINE o == OrderOf(worker[w].job)
    <2>1. o \in Orders
      BY <1>0, <1>5, BusyIs, JobFields DEF LoadRevoke, Working
    <2>2. order[o].common \in Ids \cup {None}
      BY <2>1 DEF TypeOK, OrderRow
    <2>3. PICK pc \in {"succeed", "call"} :
             worker' = [worker EXCEPT ![w].id = order[o].common, ![w].pc = pc]
      BY <1>5 DEF LoadRevoke
    <2>4. After(w, pc, order[o].common)
      BY <1>0, <2>2, <2>3, LoadAfter DEF Points
    <2> QED
      BY <1>0, <1>5, <2>2, <2>4 DEF LoadRevoke, Working
  <1> QED
    BY <1>1, <1>2, <1>3, <1>4, <1>5 DEF Load

LEMMA CallIs ==
    ASSUME TypeOK, NEW w \in Workers, Call(w)
    PROVE  /\ worker[w].pc = "call"
           /\ \E pc \in {"compare", "store", "fail"}, id \in Ids \cup {None} :
                 /\ After(w, pc, id)
                 /\ pc = "compare" => id \in Ids /\ worker[w].job = Resolve
                 /\ pc = "store" => worker[w].job # Resolve
           /\ UNCHANGED <<jobVars, order, user, offered, hub, contested>>
           /\ mishaps' \in 0..MishapLimit
  <1>0. worker[w].pc = "call"
    BY DEF Call, ResolveCommonUserId, CaptureReferralToken, ConfirmReferral,
       RequestPurchaseProvisioning, RevokePurchaseProvisioning, Working
  <1>1. worker[w].id \in Ids \cup {None} /\ worker[w].job \in Jobs
    BY <1>0, BusyIs
  <1>2. mishaps' \in 0..MishapLimit
    BY MishapTypes DEF Call, ResolveCommonUserId, CaptureReferralToken, ConfirmReferral,
       RequestPurchaseProvisioning, RevokePurchaseProvisioning, Failing
  <1>3. UNCHANGED <<jobVars, order, user, offered, hub, contested>>
    BY DEF Call, ResolveCommonUserId, CaptureReferralToken, ConfirmReferral,
       RequestPurchaseProvisioning, RevokePurchaseProvisioning, hubVars, ghosts
  <1>4. \/ Goto(w, "fail")
        \/ Goto(w, "store") /\ worker[w].job # Resolve
        \/ worker' = [worker EXCEPT ![w].pc = "compare", ![w].id = hub]
             /\ worker[w].job = Resolve
    <2>1. Kind(worker[w].job) = "resolve" <=> worker[w].job = Resolve
      BY <1>1, JobFields
    <2> QED
      BY <2>1 DEF Call, ResolveCommonUserId, CaptureReferralToken, ConfirmReferral,
         RequestPurchaseProvisioning, RevokePurchaseProvisioning, Failing, Working
  <1>5. CASE /\ worker' = [worker EXCEPT ![w].pc = "compare", ![w].id = hub]
             /\ worker[w].job = Resolve
    <2>1. hub \in Ids
      BY DEF TypeOK
    <2>2. worker' = [worker EXCEPT ![w].id = hub, ![w].pc = "compare"]
      <3>1. [[worker[w] EXCEPT !.pc = "compare"] EXCEPT !.id = hub]
              = [[worker[w] EXCEPT !.id = hub] EXCEPT !.pc = "compare"]
        BY <1>0, BusyIs DEF Busy
      <3> QED
        BY <1>5, <3>1 DEF TypeOK
    <2>3. After(w, "compare", hub)
      BY <1>0, <2>1, <2>2, LoadAfter DEF Points
    <2> QED
      BY <1>0, <1>2, <1>3, <1>4, <1>5, <2>1, <2>3
  <1>6. CASE Goto(w, "fail")
    <2>1. After(w, "fail", worker[w].id)
      BY <1>0, <1>6, GotoAfter DEF Points
    <2> QED
      BY <1>0, <1>1, <1>2, <1>3, <2>1
  <1>7. CASE Goto(w, "store") /\ worker[w].job # Resolve
    <2>1. After(w, "store", worker[w].id)
      BY <1>0, <1>7, GotoAfter DEF Points
    <2> QED
      BY <1>0, <1>1, <1>2, <1>3, <1>7, <2>1
  <1> QED
    BY <1>4, <1>5, <1>6, <1>7

LEMMA StoreIs ==
    ASSUME TypeOK, NEW w \in Workers, Store(w)
    PROVE  /\ worker[w].pc \in {"compare", "identity", "user", "link", "store", "decline"}
           /\ \E pc \in {"identity", "conflict", "user", "link", "succeed"} :
                 /\ After(w, pc, worker[w].id)
                 /\ <<worker[w].pc, pc>> \in {<<"compare", "identity">>,
                       <<"compare", "conflict">>, <<"identity", "user">>, <<"user", "link">>,
                       <<"link", "succeed">>, <<"store", "succeed">>, <<"decline", "succeed">>}
           /\ UNCHANGED <<jobVars, offered, hubVars, contested, mishaps>>
  <1>1. /\ worker[w].pc \in {"compare", "identity", "user", "link", "store", "decline"}
        /\ UNCHANGED <<jobVars, offered, hubVars, contested, mishaps>>
    BY DEF Store, CompareIdentity, SaveIdentity, SaveUser, LinkOrder, StoreReferral,
       StoreProvisioned, Decline, StoreRevoked, Working, ghosts
  <1>2. PICK pc \in {"identity", "conflict", "user", "link", "succeed"} :
           /\ Goto(w, pc)
           /\ <<worker[w].pc, pc>> \in {<<"compare", "identity">>,
                 <<"compare", "conflict">>, <<"identity", "user">>, <<"user", "link">>,
                 <<"link", "succeed">>, <<"store", "succeed">>, <<"decline", "succeed">>}
    BY DEF Store, CompareIdentity, SaveIdentity, SaveUser, LinkOrder, StoreReferral,
       StoreProvisioned, Decline, StoreRevoked, Working
  <1>3. After(w, pc, worker[w].id)
    BY <1>1, <1>2, GotoAfter DEF Points
  <1> QED
    BY <1>1, <1>2, <1>3

\* Taking a job.
LEMMA RetryIs ==
    ASSUME TypeOK, NEW w \in Workers, NEW j \in Jobs, Retry(w, j)
    PROVE  /\ worker' \in Places
           /\ \A v \in Workers \ {w} : worker'[v] = worker[v]
           /\ worker'[w].pc = "claim" /\ worker'[w].job = j
           /\ worker'[w].from \cap {"processing", "absent", "succeeded"} = {}
           /\ worker[w].pc = "idle" /\ row[j].status # "absent"
           /\ UNCHANGED <<jobVars, order, user, offered, hubVars, ghosts, mishaps>>
  <1> DEFINE from == IF row[j].status \in Blocked THEN Blocked ELSE {row[j].status}
             b == [pc |-> "claim", job |-> j, from |-> from,
                   seen |-> row[j].attempt, id |-> None]
  <1>1. row[j].status \in Statuses /\ row[j].attempt \in Nat
    BY DEF TypeOK, Row
  <1>2. row[j].status \notin {"absent", "processing", "succeeded"}
    BY DEF Retry, Retryable
  <1>3. from \in SUBSET Statuses /\ from \cap {"processing", "absent", "succeeded"} = {}
    BY <1>1, <1>2 DEF Blocked, Statuses, Waiting
  <1> HIDE DEF from
  <1>4. b \in Busy /\ b.pc = "claim" /\ b.job = j /\ b.from = from
    BY <1>1, <1>3 DEF Busy
  <1>5. worker' = [worker EXCEPT ![w] = b] /\ worker[w] = Idle
    BY DEF Retry, from
  <1>6. worker \in Places /\ worker[w].pc = "idle"
    BY <1>5 DEF TypeOK, Places, Idle
  <1>7. UNCHANGED <<jobVars, order, user, offered, hubVars, ghosts, mishaps>>
    BY DEF Retry
  <1> HIDE DEF b
  <1> QED
    BY <1>2, <1>3, <1>4, <1>5, <1>6, <1>7 DEF Places

LEMMA DispatchIs ==
    ASSUME TypeOK, NEW w \in Workers, NEW j \in Jobs, Dispatch(w, j)
    PROVE  /\ worker' \in Places
           /\ \A v \in Workers \ {w} : worker'[v] = worker[v]
           /\ worker'[w].pc = "claim" /\ worker'[w].job = j
           /\ worker'[w].from \cap {"processing", "absent", "succeeded"} = {}
           /\ worker[w].pc = "idle"
           /\ UNCHANGED <<order, user, offered, hubVars, raced, mishaps>>
  <1> DEFINE b == [pc |-> "claim", job |-> j, from |-> Waiting,
                   seen |-> row'[j].attempt, id |-> None]
  <1>1. row'[j].attempt \in Nat /\ worker' = [worker EXCEPT ![w] = b]
    BY DispatchRows
  <1>2. Waiting \in SUBSET Statuses /\ Waiting \cap {"processing", "absent", "succeeded"} = {}
    BY DEF Waiting, Statuses, Blocked
  <1>3. b \in Busy /\ b.pc = "claim" /\ b.job = j /\ b.from = Waiting
    BY <1>1, <1>2 DEF Busy
  <1>4. worker \in Places /\ worker[w].pc = "idle"
    BY DEF Dispatch, TypeOK, Places, Idle
  <1>5. UNCHANGED <<order, user, offered, hubVars, raced, mishaps>>
    BY DEF Dispatch
  <1> HIDE DEF b
  <1> QED
    BY <1>1, <1>2, <1>3, <1>4, <1>5 DEF Places

LEMMA ReissueIs ==
    ASSUME TypeOK, NEW w \in Workers, NEW o \in Orders, Reissue(w, o)
    PROVE  /\ worker' \in Places
           /\ \A v \in Workers \ {w} : worker'[v] = worker[v]
           /\ worker'[w].pc = "reissue" /\ worker'[w].job = <<"provision", o>>
           /\ worker[w].pc = "idle" /\ order[o].common # None
           /\ UNCHANGED <<jobVars, order, user, offered, hubVars, ghosts, mishaps>>
  <1> DEFINE b == [pc |-> "reissue", job |-> <<"provision", o>>, from |-> {},
                   seen |-> 0, id |-> order[o].common]
  <1>1. order[o].common \in Ids \cup {None} /\ <<"provision", o>> \in Jobs
    BY JobsAre DEF TypeOK, OrderRow
  <1>2. b \in Busy /\ b.pc = "reissue" /\ b.job = <<"provision", o>>
    BY <1>1 DEF Busy
  <1>3. worker' = [worker EXCEPT ![w] = b] /\ worker[w].pc = "idle" /\ order[o].common # None
    BY DEF Reissue, Idle, Reissuable
  <1>4. worker \in Places
    BY DEF TypeOK, Places
  <1>5. UNCHANGED <<jobVars, order, user, offered, hubVars, ghosts, mishaps>>
    BY DEF Reissue
  <1> HIDE DEF b
  <1> QED
    BY <1>2, <1>3, <1>4, <1>5 DEF Places

\* The claim: either the worker holds the job now, or it leaves it.
LEMMA ClaimIs ==
    ASSUME TypeOK, NEW w \in Workers, Claim(w)
    PROVE  /\ worker[w].pc = "claim" /\ worker[w].job \in Jobs
           /\ \/ Left(w) /\ UNCHANGED jobVars
              \/ /\ After(w, "load", worker[w].id)
                 /\ row[worker[w].job].status \in worker[w].from
                 /\ row' \in [Jobs -> Row] /\ stale' \in [Jobs -> BOOLEAN]
                 /\ row'[worker[w].job].status = "processing"
                 /\ row'[worker[w].job].token = w
                 /\ \A k \in Jobs \ {worker[w].job} : row'[k] = row[k]
           /\ UNCHANGED <<order, user, offered, hubVars, ghosts, mishaps>>
  <1> DEFINE j == worker[w].job
  <1>0. /\ worker[w].pc = "claim" /\ worker[w] \in Busy /\ j \in Jobs
        /\ UNCHANGED <<order, user, offered, hubVars, ghosts, mishaps>>
    BY BusyIs DEF Claim
  <1>1. CASE row[j].status \in worker[w].from
    <2>1. /\ row' = [row EXCEPT ![j].status = "processing", ![j].token = w]
          /\ stale' = [stale EXCEPT ![j] = FALSE]
          /\ worker' = [worker EXCEPT ![w].pc = "load", ![w].from = {}]
      BY <1>1 DEF Claim
    <2> DEFINE c == [worker[w] EXCEPT !.pc = "load"]
               b == [c EXCEPT !.from = {}]
    <2>2. c \in Busy /\ c.pc = "load" /\ c.job = j /\ c.id = worker[w].id
      <3>1. worker[w].id \in Ids \cup {None} /\ "load" \in Points
        BY <1>0, BusyIs DEF Points
      <3> QED
        BY <1>0, <3>1, BusyFields
    <2>3. b \in Busy /\ b.pc = c.pc /\ b.job = c.job /\ b.id = c.id
      <3> HIDE DEF c
      <3> QED
        BY <2>2 DEF Busy
    <2>4. worker' = [worker EXCEPT ![w] = b] /\ worker \in Places
      BY <2>1 DEF TypeOK, Places
    <2>5. After(w, "load", worker[w].id)
      <3> HIDE DEF b, c
      <3> QED
        BY <2>2, <2>3, <2>4 DEF After, Places
    <2> DEFINE q == [row[j] EXCEPT !.status = "processing"]
               t == [q EXCEPT !.token = w]
    <2>6. q \in Row /\ q.status = "processing"
      BY <1>0 DEF TypeOK, Row, Statuses
    <2>7. t \in Row /\ t.status = "processing" /\ t.token = w
      <3> HIDE DEF q
      <3> QED
        BY <2>6 DEF Row
    <2>8. row' = [row EXCEPT ![j] = t] /\ row \in [Jobs -> Row] /\ stale \in [Jobs -> BOOLEAN]
      BY <2>1 DEF TypeOK
    <2> HIDE DEF t, q, b, c
    <2> QED
      BY <1>0, <1>1, <2>1, <2>5, <2>7, <2>8
  <1>2. CASE row[j].status \notin worker[w].from
    <2>1. Finish(w) /\ UNCHANGED jobVars
      BY <1>2 DEF Claim
    <2> QED
      BY <1>0, <2>1, FinishLeft
  <1> QED
    BY <1>1, <1>2

\* Settling: the worker leaves the job, or goes on to the order of a failed grant.
LEMMA SettleIs ==
    ASSUME TypeOK, NEW w \in Workers, Succeed(w) \/ Block(w) \/ Fail(w)
    PROVE  /\ worker[w].pc \in {"succeed", "block", "conflict", "fail"}
           /\ worker[w].job \in Jobs
           /\ \/ Left(w)
              \/ /\ worker[w].pc = "fail" /\ Kind(worker[w].job) = "provision"
                 /\ After(w, "failOrder", worker[w].id)
           /\ row' \in [Jobs -> Row] /\ stale' \in [Jobs -> BOOLEAN]
           /\ \A k \in Jobs :
                 \/ row'[k] = row[k]
                 \/ /\ k = worker[w].job /\ Holds(w, k)
                    /\ row'[k].status \in Statuses \ {"absent", "processing"}
                    /\ row'[k].status = "succeeded" => worker[w].pc = "succeed"
           /\ UNCHANGED <<order, user, offered, hubVars, contested, raced, mishaps>>
  <1>0. worker[w].pc \in {"succeed", "block", "conflict", "fail"}
    BY DEF Succeed, Block, Fail
  <1>1. /\ worker[w].job \in Jobs /\ worker[w].seen \in Nat
        /\ row[worker[w].job].attempt \in Nat
    BY <1>0, BusyIs DEF TypeOK, Row
  <1>2. PICK status \in {"succeeded", "blocked", "conflict", "dead", "pending"},
             attempt \in Nat :
          /\ Settled(w, status, attempt)
          /\ status = "succeeded" => worker[w].pc = "succeed"
    <2>1. worker[w].seen + 1 \in Nat
      BY <1>1
    <2>2. CASE Succeed(w)
      BY <1>1, <2>2 DEF Succeed
    <2>3. CASE Block(w)
      <3>1. Settled(w, IF worker[w].pc = "block" THEN "blocked" ELSE "conflict",
                    row[worker[w].job].attempt)
        BY <2>3 DEF Block
      <3> QED
        BY <1>1, <3>1
    <2>4. CASE Fail(w)
      <3>1. Settled(w, IF worker[w].seen + 1 >= MaxAttempts THEN "dead" ELSE "pending",
                    worker[w].seen + 1)
        BY <2>4 DEF Fail
      <3> QED
        BY <2>1, <3>1
    <2> QED
      BY <2>2, <2>3, <2>4
  <1>3. status \in Statuses \ {"absent"} /\ status # "processing"
    BY DEF Statuses, Waiting, Blocked
  <1>4. /\ row' \in [Jobs -> Row] /\ stale' \in [Jobs -> BOOLEAN]
        /\ \A k \in Jobs : \/ row'[k] = row[k]
                           \/ k = worker[w].job /\ Holds(w, k) /\ row'[k].status = status
    <2>1. worker[w].pc # "idle" /\ Settled(w, status, attempt)
      BY <1>0, <1>2
    <2> QED
      BY <1>3, <2>1, SettledRows
  <1>5. \/ Left(w)
        \/ /\ worker[w].pc = "fail" /\ Kind(worker[w].job) = "provision"
           /\ After(w, "failOrder", worker[w].id)
    <2>1. \/ Finish(w)
          \/ worker[w].pc = "fail" /\ Kind(worker[w].job) = "provision" /\ Goto(w, "failOrder")
      BY DEF Succeed, Block, Fail
    <2> QED
      BY <1>0, <2>1, FinishLeft, GotoAfter DEF Points
  <1>6. UNCHANGED <<order, user, offered, hubVars, contested, raced, mishaps>>
    BY DEF Succeed, Block, Fail, ghosts
  <1> QED
    BY <1>0, <1>1, <1>2, <1>3, <1>4, <1>5, <1>6

-----------------------------------------------------------------------------
(* Types *)

LEMMA OrderFields ==
    ASSUME NEW r \in OrderRow
    PROVE  /\ \A p \in {"none", "pending", "paid", "refunded"} : [r EXCEPT !.pay = p] \in OrderRow
           /\ \A c \in Ids \cup {None} : [r EXCEPT !.common = c] \in OrderRow
           /\ [r EXCEPT !.session = TRUE] \in OrderRow
           /\ [r EXCEPT !.agents = TRUE] \in OrderRow
           /\ \A a \in ProvisioningStatuses : [r EXCEPT !.access = a] \in OrderRow
BY DEF OrderRow

\* Of a worker that moved alone, at most it makes a call.
LEMMA WorkerCalls ==
    ASSUME TypeOK, NEW w \in Workers,
           \A v \in Workers \ {w} : worker'[v] = worker[v],
           worker'[w].pc = "call" /\ Kind(worker'[w].job) \in {"confirm", "provision"}
             => worker'[w].id # None
    PROVE  CallsCarryId'
BY DEF TypeOK, CallsCarryId

\* The order, the payment and the refund.
LEMMA OrderTypes ==
    ASSUME TypeOK, NEW o \in Orders, PlaceOrder(o) \/ Pay(o) \/ Refund(o)
    PROVE  TypeOK'
  <1>0. order \in [Orders -> OrderRow] /\ order[o] \in OrderRow
    BY DEF TypeOK
  <1>1. row' \in [Jobs -> Row]
    BY OrderRows
  <1>2. order' \in [Orders -> OrderRow]
    <2>1. CASE PlaceOrder(o)
      <3>1. [order[o] EXCEPT !.pay = "pending"] \in OrderRow
        BY <1>0, OrderFields
      <3> QED
        BY <1>0, <2>1, <3>1 DEF PlaceOrder
    <2>2. CASE Pay(o)
      <3> DEFINE b == [order[o] EXCEPT !.pay = "paid"]
                 c == [b EXCEPT !.access = IF offered THEN "pending" ELSE @]
      <3>1. b \in OrderRow
        BY <1>0, OrderFields
      <3>2. c \in OrderRow
        <4>1. (IF offered THEN "pending" ELSE b.access) \in ProvisioningStatuses
          BY <3>1 DEF OrderRow, ProvisioningStatuses
        <4> HIDE DEF b
        <4> QED
          BY <3>1, <4>1, OrderFields
      <3>3. order' = [order EXCEPT ![o] = c]
        BY <1>0, <2>2 DEF Pay, OrderRow
      <3> HIDE DEF b, c
      <3> QED
        BY <1>0, <3>2, <3>3
    <2>3. CASE Refund(o)
      <3>1. [order[o] EXCEPT !.pay = "refunded"] \in OrderRow
        BY <1>0, OrderFields
      <3> QED
        BY <1>0, <2>3, <3>1 DEF Refund
    <2> QED
      BY <2>1, <2>2, <2>3
  <1>3. UNCHANGED <<stale, user, offered, hub, access, worker, contested, raced, mishaps>>
    BY DEF PlaceOrder, Pay, Refund, hubVars, ghosts
  <1> QED
    BY <1>1, <1>2, <1>3 DEF TypeOK

\* Taking a job, the claim, the load.
LEMMA TakeTypes ==
    ASSUME TypeOK, NEW w \in Workers,
           \/ \E j \in Jobs : Dispatch(w, j) \/ Retry(w, j)
           \/ \E o \in Orders : Reissue(w, o)
           \/ Claim(w) \/ Load(w)
    PROVE  TypeOK'
  <1> USE DEF jobVars, hubVars, ghosts
  <1>1. ASSUME NEW j \in Jobs, Dispatch(w, j) PROVE TypeOK'
    <2>1. CallsCarryId'
      BY <1>1, DispatchIs, WorkerCalls
    <2> QED
      BY <1>1, <2>1, DispatchIs, DispatchRows DEF TypeOK, CallsCarryId, Places
  <1>2. ASSUME NEW j \in Jobs, Retry(w, j) PROVE TypeOK'
    <2>1. CallsCarryId'
      BY <1>2, RetryIs, WorkerCalls
    <2> QED
      BY <1>2, <2>1, RetryIs DEF TypeOK, CallsCarryId, Places
  <1>3. ASSUME NEW o \in Orders, Reissue(w, o) PROVE TypeOK'
    <2>1. CallsCarryId'
      BY <1>3, ReissueIs, WorkerCalls
    <2> QED
      BY <1>3, <2>1, ReissueIs DEF TypeOK, CallsCarryId, Places
  <1>4. CASE Claim(w)
    <2>1. CallsCarryId' /\ worker' \in Places
      BY <1>4, ClaimIs, WorkerCalls DEF After, Left
    <2>2. row' \in [Jobs -> Row] /\ stale' \in [Jobs -> BOOLEAN]
      BY <1>4, ClaimIs DEF TypeOK
    <2>3. UNCHANGED <<order, user, offered, hubVars, ghosts, mishaps>>
      BY <1>4, ClaimIs
    <2> QED
      BY <2>1, <2>2, <2>3 DEF TypeOK, CallsCarryId, Places
  <1>5. CASE Load(w)
    <2>1. PICK pc \in {"call", "link", "block", "succeed", "decline"}, id \in Ids \cup {None} :
             /\ After(w, pc, id)
             /\ pc = "call" /\ Kind(worker[w].job) \in {"confirm", "provision"} => id # None
      BY <1>5, LoadIs
    <2>2. CallsCarryId' /\ worker' \in Places
      BY <2>1, WorkerCalls DEF After
    <2>3. UNCHANGED <<jobVars, order, user, offered, hubVars, ghosts, mishaps>>
      BY <1>5, LoadIs
    <2> QED
      BY <2>2, <2>3 DEF TypeOK, CallsCarryId, Places
  <1> QED
    BY <1>1, <1>2, <1>3, <1>4, <1>5

\* The calls touch the hub and the record of races.
LEMMA CallTypes ==
    ASSUME TypeOK, NEW w \in Workers, Call(w)
    PROVE  TypeOK'
  <1>1. PICK pc \in {"compare", "store", "fail"} : \E id \in Ids \cup {None} : After(w, pc, id)
    BY CallIs
  <1>2. CallsCarryId' /\ worker' \in Places
    BY <1>1, WorkerCalls DEF After
  <1>3. access' \subseteq Orders /\ raced' \subseteq Orders
    <2>1. worker[w].job \in Jobs /\ access \subseteq Orders /\ raced \subseteq Orders
      BY CallIs, BusyIs DEF TypeOK
    <2>2. Kind(worker[w].job) # "resolve" => OrderOf(worker[w].job) \in Orders
      BY <2>1, JobFields
    <2> QED
      BY <2>1, <2>2 DEF Call, ResolveCommonUserId, CaptureReferralToken, ConfirmReferral,
         RequestPurchaseProvisioning, RevokePurchaseProvisioning, Working, hubVars, ghosts,
         Raced
  <1>4. UNCHANGED <<jobVars, order, user, offered, hub, contested>> /\ mishaps' \in 0..MishapLimit
    BY CallIs
  <1> QED
    BY <1>2, <1>3, <1>4 DEF TypeOK, CallsCarryId, Places, jobVars

\* The answers are stored on the buyer and on the order.
LEMMA StoreTypes ==
    ASSUME IInv, NEW w \in Workers, Store(w)
    PROVE  TypeOK'
  <1> USE DEF IInv
  <1>0. worker[w].pc # "idle"
    BY StoreIs
  <1>1. CallsCarryId' /\ worker' \in Places
    <2>1. PICK pc \in {"identity", "conflict", "user", "link", "succeed"} :
             After(w, pc, worker[w].id)
      BY StoreIs
    <2> QED
      BY <2>1, WorkerCalls DEF After
  <1>2. worker[w].id \in Ids \cup {None} /\ worker[w].job \in Jobs
    BY <1>0, BusyIs
  <1>3. user' \in [common: Ids \cup {None}, identity: Ids \cup {None}]
    BY <1>2 DEF Store, CompareIdentity, SaveIdentity, SaveUser, LinkOrder, StoreReferral,
       StoreProvisioned, Decline, StoreRevoked, TypeOK
  <1>4. order' \in [Orders -> OrderRow]
    <2>0. order \in [Orders -> OrderRow]
      BY DEF TypeOK
    <2>1. \A x, r : x \in Orders /\ r \in OrderRow => [order EXCEPT ![x] = r] \in [Orders -> OrderRow]
      BY <2>0
    <2>2. \A x : x \notin Orders => \A r : [order EXCEPT ![x] = r] = order
      BY <2>0
    <2>3. \A x, c : c \in Ids \cup {None} =>
             [order EXCEPT ![x].common = c] \in [Orders -> OrderRow]
      <3> SUFFICES ASSUME NEW x, NEW c \in Ids \cup {None}
                   PROVE  [order EXCEPT ![x].common = c] \in [Orders -> OrderRow]
        OBVIOUS
      <3>1. x \in Orders => [order[x] EXCEPT !.common = c] \in OrderRow
        BY <2>0, OrderFields
      <3> QED
        BY <2>0, <2>1, <2>2, <3>1
    <2>4. \A x : [order EXCEPT ![x].session = TRUE] \in [Orders -> OrderRow]
      BY <2>0, <2>1, <2>2, OrderFields
    <2>5. \A x : [order EXCEPT ![x].agents = TRUE] \in [Orders -> OrderRow]
      BY <2>0, <2>1, <2>2, OrderFields
    <2>6. \A x, a : a \in ProvisioningStatuses =>
             [order EXCEPT ![x].access = a] \in [Orders -> OrderRow]
      <3> SUFFICES ASSUME NEW x, NEW a \in ProvisioningStatuses
                   PROVE  [order EXCEPT ![x].access = a] \in [Orders -> OrderRow]
        OBVIOUS
      <3>1. x \in Orders => [order[x] EXCEPT !.access = a] \in OrderRow
        BY <2>0, OrderFields
      <3> QED
        BY <2>0, <2>1, <2>2, <3>1
    <2>7. {"provisioned", "not_applicable", "revoked"} \subseteq ProvisioningStatuses
      BY DEF ProvisioningStatuses
    <2>8. CASE CompareIdentity(w) \/ SaveIdentity(w) \/ SaveUser(w)
      BY <2>0, <2>8 DEF CompareIdentity, SaveIdentity, SaveUser
    <2>9. CASE LinkOrder(w)
      BY <1>2, <2>0, <2>3, <2>9 DEF LinkOrder
    <2>10. CASE StoreReferral(w)
      <3>1. \E x : \/ order' = [order EXCEPT ![x].session = TRUE]
                   \/ order' = [order EXCEPT ![x].agents = TRUE]
        BY <2>10 DEF StoreReferral
      <3>2. PICK x : \/ order' = [order EXCEPT ![x].session = TRUE]
                     \/ order' = [order EXCEPT ![x].agents = TRUE]
        BY <3>1
      <3>3. /\ [order EXCEPT ![x].session = TRUE] \in [Orders -> OrderRow]
            /\ [order EXCEPT ![x].agents = TRUE] \in [Orders -> OrderRow]
        BY <2>4, <2>5
      <3> QED
        BY <3>2, <3>3
    <2>11. CASE StoreProvisioned(w) \/ Decline(w) \/ StoreRevoked(w)
      <3>1. \E x, a : /\ a \in {"provisioned", "not_applicable", "revoked"}
                      /\ order' = [order EXCEPT ![x].access = a]
        BY <2>11 DEF StoreProvisioned, Decline, StoreRevoked
      <3> QED
        BY <2>6, <2>7, <3>1, Zenon
    <2> QED
      BY <2>8, <2>9, <2>10, <2>11 DEF Store
  <1>5. raced' \subseteq Orders
    <2>1. Kind(worker[w].job) = "revoke" => OrderOf(worker[w].job) \in Orders
      BY <1>2, JobFields
    <2> QED
      BY <2>1 DEF TypeOK, Store, CompareIdentity, SaveIdentity, SaveUser, LinkOrder,
         StoreReferral, StoreProvisioned, Decline, StoreRevoked, Working, Raced, ghosts
  <1>6. UNCHANGED <<jobVars, offered, hubVars, contested, mishaps>>
    BY StoreIs
  <1> QED
    BY <1>1, <1>3, <1>4, <1>5, <1>6 DEF TypeOK, CallsCarryId, Places, jobVars, hubVars

\* Settling, sending a login URL, crashing.
LEMMA SettleTypes ==
    ASSUME IInv, NEW w \in Workers, Settle(w) \/ SendReissue(w) \/ Crash(w)
    PROVE  TypeOK'
  <1> USE DEF IInv
  <1>1. CASE Succeed(w) \/ Block(w) \/ Fail(w)
    <2>1. CallsCarryId' /\ worker' \in Places
      BY <1>1, SettleIs, WorkerCalls DEF After, Left
    <2>2. /\ row' \in [Jobs -> Row] /\ stale' \in [Jobs -> BOOLEAN]
          /\ UNCHANGED <<order, user, offered, hubVars, contested, raced, mishaps>>
      BY <1>1, SettleIs
    <2> QED
      BY <2>1, <2>2 DEF TypeOK, CallsCarryId, Places, hubVars
  <1>2. CASE MarkOrderProvisioningFailed(w)
    <2> DEFINE o == OrderOf(worker[w].job)
               a == IF worker[w].seen + 1 >= MaxAttempts THEN "failed" ELSE "pending"
    <2>1. Left(w)
      BY <1>2, FinishLeft DEF MarkOrderProvisioningFailed
    <2>2. CallsCarryId' /\ worker' \in Places
      BY <2>1, WorkerCalls DEF Left
    <2>3. order' = [order EXCEPT ![o].access = a]
      BY <1>2 DEF MarkOrderProvisioningFailed
    <2>4. a \in ProvisioningStatuses
      BY DEF ProvisioningStatuses
    <2>5. order \in [Orders -> OrderRow]
      BY DEF TypeOK
    <2>6. order' \in [Orders -> OrderRow]
      <3> HIDE DEF a, o
      <3>1. o \in Orders => [order[o] EXCEPT !.access = a] \in OrderRow
        BY <2>4, <2>5, OrderFields
      <3> QED
        BY <2>3, <2>5, <3>1
    <2>7. UNCHANGED <<jobVars, user, offered, hubVars, ghosts, mishaps>>
      BY <1>2 DEF MarkOrderProvisioningFailed
    <2> QED
      BY <2>2, <2>6, <2>7 DEF TypeOK, CallsCarryId, Places, hubVars, jobVars, ghosts
  <1>3. CASE SendReissue(w)
    <2>1. Left(w)
      BY <1>3, FinishLeft DEF SendReissue
    <2>2. CallsCarryId' /\ worker' \in Places
      BY <2>1, WorkerCalls DEF Left
    <2>3. OrderOf(worker[w].job) \in Orders
      <3>1. PICK o \in Orders : worker[w].job = <<"provision", o>>
        BY <1>3 DEF SendReissue, AccessShape, GrantShape
      <3> QED
        BY <3>1, JobsDiffer
    <2>4. access' \subseteq Orders /\ raced' \subseteq Orders
      BY <1>3, <2>3 DEF SendReissue, TypeOK
    <2>5. UNCHANGED <<jobVars, order, user, offered, hub, contested, mishaps>>
      BY <1>3 DEF SendReissue
    <2> QED
      BY <2>2, <2>4, <2>5 DEF TypeOK, CallsCarryId, Places, jobVars
  <1>4. CASE Crash(w)
    <2>1. Left(w)
      BY <1>4, FinishLeft DEF Crash
    <2>2. CallsCarryId' /\ worker' \in Places
      BY <2>1, WorkerCalls DEF Left
    <2>3. /\ mishaps' \in 0..MishapLimit
          /\ UNCHANGED <<jobVars, order, user, offered, hubVars, ghosts>>
      BY <1>4, MishapTypes DEF Crash
    <2> QED
      BY <2>2, <2>3 DEF TypeOK, CallsCarryId, Places, hubVars, jobVars, ghosts
  <1> QED
    BY <1>1, <1>2, <1>3, <1>4 DEF Settle

\* The product, the hub, skips and time.
LEMMA OtherTypes ==
    ASSUME TypeOK,
           \/ StopOffering \/ Merge
           \/ \E j \in Jobs : Skip(j) \/ LeaseTimesOut(j)
    PROVE  TypeOK'
  <1> USE DEF jobVars, hubVars, ghosts
  <1>1. CASE StopOffering
    BY <1>1 DEF StopOffering, TypeOK
  <1>2. CASE Merge
    <2>1. mishaps' \in 0..MishapLimit
      BY <1>2, MishapTypes DEF Merge
    <2> QED
      BY <1>2, <2>1 DEF Merge, TypeOK
  <1>3. ASSUME NEW j \in Jobs, Skip(j) PROVE TypeOK'
    <2>1. mishaps' \in 0..MishapLimit
      BY <1>3, MishapTypes DEF Skip
    <2>2. [row[j] EXCEPT !.status = "skipped"] \in Row
      BY DEF TypeOK, Row, Statuses
    <2>3. row' \in [Jobs -> Row]
      BY <1>3, <2>2 DEF Skip, TypeOK
    <2> QED
      BY <1>3, <2>1, <2>3 DEF Skip, TypeOK
  <1>4. ASSUME NEW j \in Jobs, LeaseTimesOut(j) PROVE TypeOK'
    <2>1. mishaps' \in 0..MishapLimit
      BY <1>4, MishapTypes DEF LeaseTimesOut
    <2>2. stale' \in [Jobs -> BOOLEAN]
      BY <1>4 DEF LeaseTimesOut, TypeOK
    <2> QED
      BY <1>4, <2>1, <2>2 DEF LeaseTimesOut, TypeOK
  <1> QED
    BY <1>1, <1>2, <1>3, <1>4

LEMMA NextTypes == IInv /\ [Next]_vars => TypeOK'
  <1>1. ASSUME IInv, Next PROVE TypeOK'
    BY <1>1, OrderTypes, TakeTypes, CallTypes, StoreTypes, SettleTypes, OtherTypes
       DEF Next, Step, IInv
  <1>2. ASSUME IInv, UNCHANGED vars PROVE TypeOK'
    BY <1>2 DEF IInv, TypeOK, vars, jobVars, hubVars, ghosts
  <1> QED
    BY <1>1, <1>2

-----------------------------------------------------------------------------
(* The jobs *)

\* The rows stay written, and worker w stays with its job or takes a written one.
LEMMA JobsKept ==
    ASSUME TypeOK, JobShape, NEW w \in Workers,
           \A v \in Workers \ {w} : worker'[v] = worker[v],
           \A k \in Jobs : row'[k] = row[k] \/ row'[k].status # "absent",
           worker'[w].pc = "claim"
             => worker'[w].from \cap {"processing", "absent", "succeeded"} = {},
           worker'[w].pc \notin {"idle", "reissue"}
             => \/ row'[worker'[w].job].status # "absent"
                \/ worker[w].pc \notin {"idle", "reissue"} /\ worker'[w].job = worker[w].job
    PROVE  JobShape'
  <1>1. \A v \in Workers : worker[v].pc # "idle" => worker[v].job \in Jobs
    BY BusyIs
  <1> QED
    BY <1>1 DEF JobShape, NoRow

LEMMA RowsKept ==
    ASSUME TypeOK, JobShape, UNCHANGED worker,
           \A k \in Jobs : row'[k] = row[k] \/ row'[k].status # "absent"
    PROVE  JobShape'
  <1>1. \A v \in Workers : worker[v].pc # "idle" => worker[v].job \in Jobs
    BY BusyIs
  <1> QED
    BY <1>1 DEF JobShape, NoRow

\* Nobody starts to run a job, and the rows of jobs in progress are left alone.
LEMMA LeasesKept ==
    ASSUME Leases, contested \subseteq contested',
           \A k \in Jobs : row[k].status = "processing" => row'[k] = row[k],
           \A v \in Workers, k \in Jobs : Running(v, k)' => Running(v, k)
    PROVE  Leases'
BY DEF Leases

LEMMA NextJobs ==
    ASSUME IInv, Next
    PROVE  JobShape' /\ Leases'
  <1> USE DEF IInv
  <1>1. ASSUME NEW o \in Orders, PlaceOrder(o) \/ Pay(o) \/ Refund(o)
        PROVE  JobShape' /\ Leases'
    <2>1. UNCHANGED <<worker, contested>>
      BY <1>1 DEF PlaceOrder, Pay, Refund, ghosts
    <2>2. \A k \in Jobs :
             row'[k] = row[k] \/ (row[k] = NoRow /\ row'[k].status = "pending")
      BY <1>1, OrderRows
    <2>3. JobShape'
      BY <2>1, <2>2, RowsKept
    <2>4. Leases'
      BY <2>1, <2>2, LeasesKept DEF Running, NoRow
    <2> QED
      BY <2>3, <2>4
  <1>2. CASE StopOffering \/ Merge \/ \E j \in Jobs : Skip(j) \/ LeaseTimesOut(j)
    <2>1. UNCHANGED <<worker, contested>>
      BY <1>2 DEF StopOffering, Merge, Skip, LeaseTimesOut, ghosts
    <2>2. \A k \in Jobs : \/ row'[k] = row[k]
                          \/ row[k].status # "processing" /\ row'[k].status = "skipped"
      BY <1>2 DEF StopOffering, Merge, Skip, LeaseTimesOut, jobVars, Skippable, Retryable,
         TypeOK, Row
    <2>3. JobShape'
      BY <2>1, <2>2, RowsKept
    <2>4. Leases'
      BY <2>1, <2>2, LeasesKept DEF Running
    <2> QED
      BY <2>3, <2>4
  <1>3. ASSUME NEW w \in Workers, NEW j \in Jobs, Dispatch(w, j)
        PROVE  JobShape' /\ Leases'
    <2>1. /\ \A v \in Workers \ {w} : worker'[v] = worker[v]
          /\ worker'[w].pc = "claim" /\ worker'[w].job = j
          /\ worker'[w].from \cap {"processing", "absent", "succeeded"} = {}
      BY <1>3, DispatchIs
    <2>2. /\ contested \subseteq contested'
          /\ \A k \in Jobs :
                \/ row'[k] = row[k]
                \/ /\ row[k].status = "processing" /\ row'[k].status = "pending"
                   /\ (\E v \in Workers : Holds(v, k)) => k \in contested'
          /\ row'[j].status \in {"pending", "blocked"}
      BY <1>3, DispatchRows
    <2>3. JobShape'
      BY <2>1, <2>2, JobsKept
    <2>4. \A v \in Workers, k \in Jobs : Running(v, k)' => Running(v, k)
      BY <2>1 DEF Running
    <2>5. \A v \in Workers, k \in Jobs \ contested : Running(v, k) => Holds(v, k)
      BY DEF Leases, Running, Holds
    <2>6. Leases'
      BY <2>2, <2>4, <2>5 DEF Leases
    <2> QED
      BY <2>3, <2>6
  <1>4. ASSUME NEW w \in Workers,
               \/ \E j \in Jobs : Retry(w, j)
               \/ \E o \in Orders : Reissue(w, o)
        PROVE  JobShape' /\ Leases'
    <2>1. /\ \A v \in Workers \ {w} : worker'[v] = worker[v]
          /\ worker'[w].pc \in {"claim", "reissue"}
          /\ UNCHANGED <<row, contested>>
      BY <1>4, RetryIs, ReissueIs DEF jobVars, ghosts
    <2>2. worker'[w].pc = "claim"
            => /\ worker'[w].from \cap {"processing", "absent", "succeeded"} = {}
               /\ row[worker'[w].job].status # "absent"
      BY <1>4, RetryIs, ReissueIs
    <2>3. JobShape'
      BY <2>1, <2>2, JobsKept
    <2>4. Leases'
      BY <2>1, LeasesKept DEF Running
    <2> QED
      BY <2>3, <2>4
  <1>5. ASSUME NEW w \in Workers, Claim(w)
        PROVE  JobShape' /\ Leases'
    <2>1. CASE Left(w) /\ UNCHANGED jobVars
      <3>1. UNCHANGED <<row, contested>>
        BY <1>5, <2>1 DEF Claim, ghosts, jobVars
      <3>2. JobShape'
        BY <2>1, <3>1, JobsKept DEF Left
      <3>3. Leases'
        BY <2>1, <3>1, LeasesKept DEF Left, Running
      <3> QED
        BY <3>2, <3>3
    <2>2. CASE ~(Left(w) /\ UNCHANGED jobVars)
      <3> DEFINE j == worker[w].job
      <3>1. /\ worker[w].pc = "claim" /\ j \in Jobs
            /\ After(w, "load", worker[w].id)
            /\ row[j].status \in worker[w].from
            /\ row'[j].status = "processing" /\ row'[j].token = w
            /\ \A k \in Jobs \ {j} : row'[k] = row[k]
            /\ contested' = contested
        BY <1>5, <2>2, ClaimIs DEF ghosts
      <3>2. row[j].status # "processing"
        BY <3>1 DEF JobShape
      <3>3. \A k \in Jobs : row'[k] = row[k] \/ row'[k].status # "absent"
        BY <3>1
      <3>4. JobShape'
        BY <3>1, <3>3, JobsKept DEF After
      <3>5. \A v \in Workers, k \in Jobs : Running(v, k)' => Running(v, k) \/ (v = w /\ k = j)
        BY <3>1 DEF Running, After
      <3>6. \A v \in Workers : j \notin contested => ~Running(v, j)
        BY <3>1, <3>2 DEF Leases
      <3> HIDE DEF j
      <3>7. Leases'
        BY <3>1, <3>5, <3>6 DEF Leases
      <3> QED
        BY <3>4, <3>7
    <2> QED
      BY <2>1, <2>2
  <1>6. ASSUME NEW w \in Workers, Load(w) \/ Call(w) \/ Store(w)
        PROVE  JobShape' /\ Leases'
    <2>1. PICK pc \in {"call", "link", "block", "succeed", "decline", "compare", "store",
                       "fail", "identity", "conflict", "user"}, id \in Ids \cup {None} :
             After(w, pc, id)
      <3>1. worker[w].pc # "idle" => worker[w].id \in Ids \cup {None}
        BY BusyIs
      <3>2. CASE Load(w)
        BY <3>2, LoadIs
      <3>3. CASE Call(w)
        BY <3>3, CallIs
      <3>4. CASE Store(w)
        BY <3>1, <3>4, StoreIs
      <3> QED
        BY <1>6, <3>2, <3>3, <3>4
    <2>2. /\ worker[w].pc \notin {"idle", "claim", "reissue", "failOrder"}
          /\ UNCHANGED <<row, contested>>
      BY <1>6, LoadIs, CallIs, StoreIs DEF jobVars, ghosts
    <2>3. JobShape'
      BY <2>1, <2>2, JobsKept DEF After
    <2>4. \A v \in Workers, k \in Jobs : Running(v, k)' => Running(v, k)
      BY <2>1, <2>2 DEF Running, After
    <2>5. Leases'
      BY <2>2, <2>4, LeasesKept
    <2> QED
      BY <2>3, <2>5
  <1>7. ASSUME NEW w \in Workers, Succeed(w) \/ Block(w) \/ Fail(w)
        PROVE  JobShape' /\ Leases'
    <2>1. /\ worker[w].pc \in {"succeed", "block", "conflict", "fail"}
          /\ \/ Left(w)
             \/ After(w, "failOrder", worker[w].id)
          /\ \A k \in Jobs :
                \/ row'[k] = row[k]
                \/ /\ k = worker[w].job /\ Holds(w, k)
                   /\ row'[k].status \in Statuses \ {"absent", "processing"}
          /\ contested' = contested
      BY <1>7, SettleIs
    <2>2. \A k \in Jobs : row'[k] = row[k] \/ row'[k].status # "absent"
      BY <2>1
    <2>3. JobShape'
      BY <2>1, <2>2, JobsKept DEF After, Left
    <2>4. \A v \in Workers, k \in Jobs : Running(v, k)' => Running(v, k) /\ v # w
      BY <2>1 DEF Running, After, Left
    <2>5. \A v \in Workers \ {w}, k \in Jobs \ contested : Running(v, k) => row'[k] = row[k]
      BY <2>1 DEF Leases, Holds
    <2>6. Leases'
      BY <2>1, <2>4, <2>5 DEF Leases
    <2> QED
      BY <2>3, <2>6
  <1>8. ASSUME NEW w \in Workers,
               MarkOrderProvisioningFailed(w) \/ SendReissue(w) \/ Crash(w)
        PROVE  JobShape' /\ Leases'
    <2>1. Left(w) /\ UNCHANGED <<row, contested>>
      BY <1>8, FinishLeft DEF MarkOrderProvisioningFailed, SendReissue, Crash, jobVars, ghosts
    <2>2. JobShape'
      BY <2>1, JobsKept DEF Left
    <2>3. Leases'
      BY <2>1, LeasesKept DEF Left, Running
    <2> QED
      BY <2>2, <2>3
  <1> QED
    BY <1>1, <1>2, <1>3, <1>4, <1>5, <1>6, <1>7, <1>8 DEF Next, Step, Settle

-----------------------------------------------------------------------------
(* The buyer's identity *)

\* Nobody comes to the points of the resolve job, and the identity stays.
LEMMA IdentityKept ==
    ASSUME IdentityShape, UNCHANGED user, contested \subseteq contested',
           \A v \in Workers :
              \/ worker'[v] = worker[v]
              \/ worker'[v].pc \notin {"compare", "identity", "user", "link"}
    PROVE  IdentityShape'
BY DEF IdentityShape

LEMMA NextIdentity ==
    ASSUME IInv, Next
    PROVE  /\ IdentityShape'
           /\ Resolve \notin contested /\ user.identity # None
                => user'.identity = user.identity
  <1> USE DEF IInv
  <1>1. ASSUME NEW o \in Orders, PlaceOrder(o) \/ Pay(o) \/ Refund(o)
        PROVE  IdentityShape' /\ UNCHANGED user
    <2>1. UNCHANGED <<user, worker, contested>>
      BY <1>1 DEF PlaceOrder, Pay, Refund, ghosts
    <2> QED
      BY <2>1, IdentityKept
  <1>2. CASE StopOffering \/ Merge \/ \E j \in Jobs : Skip(j) \/ LeaseTimesOut(j)
    <2>1. UNCHANGED <<user, worker, contested>>
      BY <1>2 DEF StopOffering, Merge, Skip, LeaseTimesOut, ghosts
    <2> QED
      BY <2>1, IdentityKept
  <1>3. ASSUME NEW w \in Workers,
               \/ \E j \in Jobs : Dispatch(w, j) \/ Retry(w, j)
               \/ \E o \in Orders : Reissue(w, o)
        PROVE  IdentityShape' /\ UNCHANGED user
    <2>1. /\ \A v \in Workers \ {w} : worker'[v] = worker[v]
          /\ worker'[w].pc \in {"claim", "reissue"}
          /\ user' = user
      BY <1>3, DispatchIs, RetryIs, ReissueIs
    <2>2. contested \subseteq contested'
      BY <1>3, DispatchRows, RetryIs, ReissueIs DEF ghosts
    <2> QED
      BY <2>1, <2>2, IdentityKept
  <1>4. ASSUME NEW w \in Workers, Claim(w) \/ Settle(w) \/ SendReissue(w) \/ Crash(w)
        PROVE  IdentityShape' /\ UNCHANGED user
    <2>1. Left(w) \/ \E pc \in {"load", "failOrder"} : \E id : After(w, pc, id)
      BY <1>4, ClaimIs, SettleIs, FinishLeft
         DEF Settle, MarkOrderProvisioningFailed, SendReissue, Crash
    <2>2. UNCHANGED <<user, contested>>
      BY <1>4, ClaimIs, SettleIs
         DEF Settle, MarkOrderProvisioningFailed, SendReissue, Crash, ghosts
    <2> QED
      BY <2>1, <2>2, IdentityKept DEF Left, After
  <1>5. ASSUME NEW w \in Workers, Load(w) PROVE IdentityShape' /\ UNCHANGED user
    <2>1. PICK pc \in {"call", "link", "block", "succeed", "decline"}, id \in Ids \cup {None} :
             After(w, pc, id)
      BY <1>5, LoadIs
    <2>2. UNCHANGED <<user, contested>>
      BY <1>5, LoadIs DEF ghosts
    <2>3. CASE pc # "link"
      BY <2>1, <2>2, <2>3, IdentityKept DEF After
    <2>4. CASE pc = "link"
      <3>0. worker[w].pc = "load" /\ worker[w] \in Busy /\ worker[w].job \in Jobs
        BY <1>5, LoadIs, BusyIs
      <3>1. LoadUser(w)
        <4>1. worker'[w].pc = "link"
          BY <2>1, <2>4 DEF After
        <4>2. ~LoadCapture(w)
          BY <3>0, <4>1 DEF LoadCapture, Goto, TypeOK, Busy
        <4>3. \A p, i : worker' = [worker EXCEPT ![w].id = i, ![w].pc = p] => p = "link"
          BY <3>0, <4>1 DEF TypeOK, Busy
        <4>4. ~LoadConfirm(w) /\ ~LoadProvision(w) /\ ~LoadRevoke(w)
          BY <4>3 DEF LoadConfirm, LoadProvision, LoadRevoke
        <4> QED
          BY <1>5, <4>2, <4>4 DEF Load
      <3>2. worker[w].job = Resolve
        BY <3>0, <3>1, JobFields DEF LoadUser, Working
      <3>3. user.common \in Ids
        <4>1. \A p, i : worker' = [worker EXCEPT ![w].id = i, ![w].pc = p] => p = "link"
          BY <2>1, <2>4, <3>0 DEF TypeOK, Busy, After
        <4> QED
          BY <3>1, <4>1 DEF LoadUser, TypeOK
      <3>4. worker'[w].id = user.common
        BY <3>0, <3>1 DEF LoadUser, TypeOK, Busy
      <3> QED
        BY <2>1, <2>2, <2>4, <3>2, <3>3, <3>4 DEF IdentityShape, After
    <2> QED
      BY <2>2, <2>3, <2>4
  <1>6. ASSUME NEW w \in Workers, Call(w) PROVE IdentityShape' /\ UNCHANGED user
    <2>1. PICK pc \in {"compare", "store", "fail"}, id \in Ids \cup {None} :
             /\ After(w, pc, id)
             /\ pc = "compare" => id \in Ids /\ worker[w].job = Resolve
      BY <1>6, CallIs
    <2>2. UNCHANGED <<user, contested>>
      BY <1>6, CallIs
    <2> QED
      BY <2>1, <2>2 DEF IdentityShape, After
  <1>7. ASSUME NEW w \in Workers, Store(w)
        PROVE  /\ IdentityShape'
               /\ Resolve \notin contested /\ user.identity # None
                    => user'.identity = user.identity
    <2>1. PICK pc \in {"identity", "conflict", "user", "link", "succeed"} :
             /\ After(w, pc, worker[w].id)
             /\ <<worker[w].pc, pc>> \in {<<"compare", "identity">>,
                   <<"compare", "conflict">>, <<"identity", "user">>, <<"user", "link">>,
                   <<"link", "succeed">>, <<"store", "succeed">>, <<"decline", "succeed">>}
      BY <1>7, StoreIs
    <2>2. contested' = contested
      BY <1>7, StoreIs
    <2>3. worker[w].pc = "identity" => user'.identity = worker[w].id
      BY <1>7 DEF Store, CompareIdentity, SaveIdentity, SaveUser, LinkOrder, StoreReferral,
         StoreProvisioned, Decline, StoreRevoked, Working, TypeOK
    <2>4. worker[w].pc # "identity" => user'.identity = user.identity
      BY <1>7 DEF Store, CompareIdentity, SaveIdentity, SaveUser, LinkOrder, StoreReferral,
         StoreProvisioned, Decline, StoreRevoked, Working, TypeOK
    <2>5. pc = "identity" => user.identity \in {None, worker[w].id}
      <3>1. SUFFICES ASSUME pc = "identity" PROVE user.identity \in {None, worker[w].id}
        OBVIOUS
      <3>2. worker[w].pc = "compare"
        BY <2>1, <3>1
      <3>3. Goto(w, IF user.identity \in {None, worker[w].id} THEN "identity" ELSE "conflict")
        BY <1>7, <3>2 DEF Store, CompareIdentity, SaveIdentity, SaveUser, LinkOrder,
           StoreReferral, StoreProvisioned, Decline, StoreRevoked, Working
      <3>4. worker'[w].pc = "identity"
        BY <2>1, <3>1 DEF After
      <3>5. worker[w] \in Busy
        BY <3>2, BusyIs
      <3> QED
        BY <3>3, <3>4, <3>5 DEF Goto, TypeOK, Busy
    <2>6. worker[w].pc = "identity" /\ Resolve \notin contested =>
             \A v \in Workers \ {w} : worker[v].pc # "identity"
      BY JobsAre DEF IdentityShape, Leases, Running
    <2>7. /\ pc \in {"identity", "user", "link"} => worker[w].job = Resolve /\ worker[w].id \in Ids
          /\ worker[w].pc = "identity" /\ Resolve \notin contested
               => user.identity \in {None, worker[w].id}
      BY <2>1 DEF IdentityShape
    <2>8. IdentityShape'
      BY <2>1, <2>2, <2>4, <2>5, <2>6, <2>7 DEF IdentityShape, After
    <2> QED
      BY <2>3, <2>4, <2>7, <2>8
  <1> QED
    BY <1>1, <1>2, <1>3, <1>4, <1>5, <1>6, <1>7 DEF Next, Step

-----------------------------------------------------------------------------
(* Grants and revocations *)

\* Order o may be granted access, or be granted it anew: a grant is under way,
\* or it has a common user id and is not refunded, or the record of races has it.
MayGrow(o) ==
    \/ ~NoGrants(o)
    \/ order[o].common # None /\ (order[o].pay # "refunded" \/ o \in raced')

\* Nothing was granted to order o in this step.
Kept(o) ==
    /\ o \in access' => o \in access
    /\ NoGrants(o) => NoGrants(o)'
    /\ order'[o].access = "provisioned" => order[o].access = "provisioned"

\* A revocation under way means a refunded order.
LEMMA RevokesRefunded ==
    ASSUME IInv, NEW o \in Orders
    PROVE  /\ row[<<"revoke", o>>].status = "succeeded" => order[o].pay = "refunded"
           /\ \A w \in Workers, pcs \in SUBSET (Points \ {"reissue"}) :
                 At(w, pcs, <<"revoke", o>>) => order[o].pay = "refunded"
  <1>1. "idle" \notin Points
    BY DEF Points
  <1>2. row[<<"revoke", o>>].status # "absent" => order[o].pay = "refunded"
    BY DEF IInv, AccessShape, RefundShape
  <1>3. \A w \in Workers : worker[w].pc \notin {"idle", "reissue"}
                             => row[worker[w].job].status # "absent"
    BY DEF IInv, JobShape
  <1> QED
    BY <1>1, <1>2, <1>3 DEF At

LEMMA AccessKept ==
    ASSUME IInv, offered' => offered, raced \subseteq raced', RefundShape',
           \A o \in Orders : Kept(o) \/ MayGrow(o),
           \A o \in Orders : order'[o].common = None => order[o].common = None,
           \A v \in Workers :
              /\ worker'[v].pc = "reissue"
                   => \/ worker'[v] = worker[v]
                      \/ \E o \in Orders : /\ worker'[v].job = <<"provision", o>>
                                           /\ order[o].common # None
              /\ worker'[v].pc = "decline"
                   => \/ worker'[v] = worker[v]
                      \/ ~offered' /\ Kind(worker'[v].job) = "provision",
           \A o \in Orders, v \in Workers :
              /\ At(v, {"store"}, <<"revoke", o>>)'
                   => At(v, {"store"}, <<"revoke", o>>) \/ Closed(o)' \/ o \in raced'
              /\ At(v, {"succeed"}, <<"revoke", o>>)'
                   => \/ At(v, {"succeed"}, <<"revoke", o>>)
                      \/ /\ At(v, {"store"}, <<"revoke", o>>)
                         /\ order'[o].access # "provisioned"
                      \/ order[o].common = None,
           \A o \in Orders :
              row'[<<"revoke", o>>].status = "succeeded"
                => \/ row[<<"revoke", o>>].status = "succeeded"
                   \/ \E v \in Workers : At(v, {"succeed"}, <<"revoke", o>>)
    PROVE  AccessShape'
  <1> USE DEF IInv, AccessShape
  <1>1. GrantShape'
    BY DEF GrantShape
  <1>2. BeforeId'
    <2> SUFFICES ASSUME NEW o \in Orders, order'[o].common = None
                 PROVE  /\ Closed(o)' /\ order'[o].access # "provisioned"
                        /\ \A w \in Workers : ~At(w, {"reissue"}, <<"provision", o>>)'
      BY DEF BeforeId
    <2>1. /\ order[o].common = None /\ Closed(o) /\ order[o].access # "provisioned"
          /\ \A w \in Workers : ~At(w, {"reissue"}, <<"provision", o>>)
      BY DEF BeforeId
    <2>2. Kept(o)
      BY <2>1 DEF MayGrow, Closed
    <2>3. Closed(o)' /\ order'[o].access # "provisioned"
      BY <2>1, <2>2 DEF Kept, Closed
    <2>4. \A q \in Orders : <<"provision", q>> = <<"provision", o>> => q = o
      BY JobsDiffer
    <2>5. \A w \in Workers : ~At(w, {"reissue"}, <<"provision", o>>)'
      BY <2>1, <2>4 DEF At
    <2> QED
      BY <2>3, <2>5
  <1>3. RevokeShape'
    <2> SUFFICES ASSUME NEW o \in Orders, o \notin raced'
                 PROVE  /\ \A w \in Workers :
                              /\ At(w, {"store", "succeed"}, <<"revoke", o>>)' => Closed(o)'
                              /\ At(w, {"succeed"}, <<"revoke", o>>)'
                                   => order'[o].access # "provisioned"
                        /\ row'[<<"revoke", o>>].status = "succeeded"
                             => Closed(o)' /\ order'[o].access # "provisioned"
      BY DEF RevokeShape
    <2>0. o \notin raced
      OBVIOUS
    <2>1. order[o].pay = "refunded" /\ Closed(o) => Kept(o)
      BY <2>0 DEF MayGrow, Closed
    <2>2. Closed(o) /\ Kept(o) => Closed(o)'
      BY DEF Closed, Kept
    <2>3. order[o].common = None => Closed(o)' /\ order'[o].access # "provisioned"
      <3>1. order[o].common = None => Closed(o) /\ order[o].access # "provisioned"
        BY DEF BeforeId
      <3>2. order[o].common = None => Kept(o)
        BY <3>1 DEF MayGrow, Closed
      <3> QED
        BY <2>2, <3>1, <3>2 DEF Kept
    <2>4. \A w \in Workers :
             At(w, {"store"}, <<"revoke", o>>) \/ At(w, {"succeed"}, <<"revoke", o>>)
               => order[o].pay = "refunded" /\ Closed(o)
      <3>1. {"store"} \in SUBSET (Points \ {"reissue"}) /\ {"succeed"} \in SUBSET (Points \ {"reissue"})
        BY DEF Points
      <3>2. \A w \in Workers :
               At(w, {"store"}, <<"revoke", o>>) \/ At(w, {"succeed"}, <<"revoke", o>>)
                 => At(w, {"store", "succeed"}, <<"revoke", o>>)
        BY DEF At
      <3> QED
        BY <2>0, <3>1, <3>2, RevokesRefunded DEF RevokeShape
    <2>5. \A w \in Workers : At(w, {"succeed"}, <<"revoke", o>>)
                               => order[o].access # "provisioned"
      BY <2>0 DEF RevokeShape
    <2>6. row[<<"revoke", o>>].status = "succeeded"
            => order[o].pay = "refunded" /\ Closed(o) /\ order[o].access # "provisioned"
      BY <2>0, RevokesRefunded DEF RevokeShape
    <2>7. ASSUME NEW w \in Workers
          PROVE  /\ At(w, {"store", "succeed"}, <<"revoke", o>>)' => Closed(o)'
                 /\ At(w, {"succeed"}, <<"revoke", o>>)' => order'[o].access # "provisioned"
      <3>1. At(w, {"store", "succeed"}, <<"revoke", o>>)'
              => At(w, {"store"}, <<"revoke", o>>)' \/ At(w, {"succeed"}, <<"revoke", o>>)'
        BY DEF At
      <3>2. At(w, {"store"}, <<"revoke", o>>)' => Closed(o)'
        BY <2>1, <2>2, <2>4
      <3>3. At(w, {"succeed"}, <<"revoke", o>>)' => Closed(o)' /\ order'[o].access # "provisioned"
        BY <2>1, <2>2, <2>3, <2>4, <2>5 DEF Kept
      <3> QED
        BY <3>1, <3>2, <3>3
    <2>8. row'[<<"revoke", o>>].status = "succeeded"
            => Closed(o)' /\ order'[o].access # "provisioned"
      BY <2>1, <2>2, <2>4, <2>5, <2>6 DEF Kept
    <2> QED
      BY <2>7, <2>8
  <1> QED
    BY <1>1, <1>2, <1>3

\* The payment, and the row of the revocation, are left alone.
LEMMA RefundKept ==
    ASSUME IInv, offered' => offered,
           \A o \in Orders :
              /\ order'[o].pay = order[o].pay
              /\ \/ order'[o].access = order[o].access
                 \/ order'[o].access # "not_applicable"
                 \/ ~offered'
              /\ \/ row'[<<"revoke", o>>] = row[<<"revoke", o>>]
                 \/ /\ row[<<"revoke", o>>].status # "absent"
                    /\ row'[<<"revoke", o>>].status # "absent"
    PROVE  RefundShape'
BY DEF IInv, AccessShape, RefundShape


\* Only the order, the payment and the refund write new rows.
LEMMA RowsStay ==
    ASSUME IInv, Next, NEW k \in Jobs, row'[k] # row[k],
           ~\E o \in Orders : PlaceOrder(o) \/ Pay(o) \/ Refund(o)
    PROVE  row[k].status # "absent" /\ row'[k].status # "absent"
  <1> USE DEF IInv
  <1>1. CASE StopOffering \/ Merge \/ \E j \in Jobs : Skip(j) \/ LeaseTimesOut(j)
    BY <1>1 DEF StopOffering, Merge, Skip, LeaseTimesOut, jobVars, Skippable, Retryable,
       TypeOK, Row
  <1>2. ASSUME NEW w \in Workers, NEW j \in Jobs, Dispatch(w, j) \/ Retry(w, j)
        PROVE  row[k].status # "absent" /\ row'[k].status # "absent"
    BY <1>2, DispatchRows, RetryIs DEF jobVars
  <1>3. ASSUME NEW w \in Workers, NEW o \in Orders, Reissue(w, o) PROVE FALSE
    BY <1>3, ReissueIs DEF jobVars
  <1>4. ASSUME NEW w \in Workers, Claim(w)
        PROVE  row[k].status # "absent" /\ row'[k].status # "absent"
    BY <1>4, ClaimIs DEF jobVars, JobShape
  <1>5. ASSUME NEW w \in Workers, Load(w) \/ Call(w) \/ Store(w) PROVE FALSE
    BY <1>5, LoadIs, CallIs, StoreIs DEF jobVars
  <1>6. ASSUME NEW w \in Workers, Succeed(w) \/ Block(w) \/ Fail(w)
        PROVE  row[k].status # "absent" /\ row'[k].status # "absent"
    BY <1>6, SettleIs DEF Holds
  <1>7. ASSUME NEW w \in Workers,
               MarkOrderProvisioningFailed(w) \/ SendReissue(w) \/ Crash(w)
        PROVE  FALSE
    BY <1>7 DEF MarkOrderProvisioningFailed, SendReissue, Crash, jobVars
  <1> QED
    BY <1>1, <1>2, <1>3, <1>4, <1>5, <1>6, <1>7 DEF Next, Step, Settle

LEMMA OrderAccess ==
    ASSUME IInv, NEW o \in Orders, PlaceOrder(o) \/ Pay(o) \/ Refund(o)
    PROVE  AccessShape'
  <1> USE DEF IInv
  <1>0. order[o] \in OrderRow /\ order \in [Orders -> OrderRow]
    BY DEF TypeOK
  <1>1. UNCHANGED <<offered, worker, raced, access>>
    BY DEF PlaceOrder, Pay, Refund, hubVars, ghosts
  <1>2. \A q \in Orders :
           /\ <<"revoke", q>> \in Jobs
           /\ q # o => order'[q] = order[q] /\ row'[<<"revoke", q>>] = row[<<"revoke", q>>]
    <2>1. \A q \in Orders : <<"revoke", q>> \in Jobs
      BY JobsAre
    <2>2. ASSUME NEW q \in Orders, q # o
          PROVE  row'[<<"revoke", q>>] = row[<<"revoke", q>>]
      <3>1. Kind(<<"revoke", q>>) = "revoke" /\ <<"revoke", q>> # <<"revoke", o>>
        BY <2>2, JobsDiffer
      <3> QED
        BY <2>1, <3>1, OrderRows
    <2>3. \A q \in Orders : q # o => order'[q] = order[q]
      BY <1>0 DEF PlaceOrder, Pay, Refund
    <2> QED
      BY <2>1, <2>2, <2>3
  <1>3. /\ order'[o].common = order[o].common
        /\ order'[o].access = "provisioned" => order[o].access = "provisioned"
    BY <1>0 DEF PlaceOrder, Pay, Refund, OrderRow
  <1>4. \/ row'[<<"revoke", o>>] = row[<<"revoke", o>>]
        \/ row[<<"revoke", o>>] = NoRow /\ row'[<<"revoke", o>>].status = "pending"
    BY <1>2, OrderRows
  <1>5. RefundShape'
    <2>1. CASE PlaceOrder(o)
      <3>1. order[o].pay = "none" /\ order'[o].pay = "pending"
        BY <1>0, <2>1 DEF PlaceOrder, OrderRow
      <3>2. row'[<<"revoke", o>>] = row[<<"revoke", o>>]
        <4>1. ~Refund(o)
          BY <2>1 DEF PlaceOrder, Refund
        <4>2. <<"revoke", o>> \in Jobs /\ Kind(<<"revoke", o>>) = "revoke"
          BY JobsAre, JobsDiffer
        <4> QED
          BY <4>1, <4>2, OrderRows
      <3> QED
        BY <1>1, <1>2, <3>1, <3>2 DEF AccessShape, RefundShape
    <2>2. CASE Pay(o)
      <3>1. /\ order[o].pay = "pending" /\ order'[o].pay = "paid"
            /\ offered => order'[o].access = "pending"
        BY <1>0, <2>2 DEF Pay, OrderRow
      <3>2. row'[<<"revoke", o>>] = row[<<"revoke", o>>]
        <4>1. ~Refund(o)
          BY <2>2 DEF Pay, Refund
        <4>2. <<"revoke", o>> \in Jobs /\ Kind(<<"revoke", o>>) = "revoke"
          BY JobsAre, JobsDiffer
        <4> QED
          BY <4>1, <4>2, OrderRows
      <3> QED
        BY <1>1, <1>2, <3>1, <3>2 DEF AccessShape, RefundShape
    <2>3. CASE Refund(o)
      <3>1. /\ order[o].pay = "paid" /\ order'[o].pay = "refunded"
            /\ order'[o].access = order[o].access
        BY <1>0, <2>3 DEF Refund, OrderRow
      <3>2. offered => row'[<<"revoke", o>>] # NoRow
        BY <2>3, <3>1, OrderRows DEF AccessShape, RefundShape
      <3>3. offered => row'[<<"revoke", o>>].status # "absent"
        BY <1>2, <1>4, <3>2 DEF JobShape
      <3> QED
        BY <1>1, <1>2, <3>1, <3>3 DEF AccessShape, RefundShape
    <2> QED
      BY <2>1, <2>2, <2>3
  <1>6. \A q \in Orders : Kept(q)
    <2> SUFFICES ASSUME NEW q \in Orders PROVE Kept(q)
      OBVIOUS
    <2>1. NoGrants(q) => NoGrants(q)'
      BY <1>1 DEF NoGrants, At
    <2> QED
      BY <1>1, <1>2, <1>3, <2>1 DEF Kept
  <1>7. \A pcs : \A q \in Orders, v \in Workers :
           At(v, pcs, <<"revoke", q>>)' <=> At(v, pcs, <<"revoke", q>>)
    BY <1>1 DEF At
  <1>8. \A q \in Orders : row'[<<"revoke", q>>].status = "succeeded"
                            => row[<<"revoke", q>>].status = "succeeded"
    BY <1>2, <1>4
  <1> QED
    BY <1>1, <1>2, <1>3, <1>5, <1>6, <1>7, <1>8, AccessKept


\* The worker comes to a point that says nothing of a grant or a revocation, or
\* stays within its grant.
Quiet(w) ==
    \/ worker'[w].pc \in {"idle", "claim", "load", "block", "compare", "identity",
                          "conflict", "user", "link"}
    \/ /\ worker'[w].pc \notin {"reissue", "decline"}
       /\ Kind(worker'[w].job) \notin {"provision", "revoke"}
    \/ /\ worker'[w].pc \in {"fail", "failOrder"}
       /\ worker'[w].job = worker[w].job
       /\ Kind(worker[w].job) = "provision"
            => worker[w].pc \in {"call", "store", "decline", "fail", "failOrder"}

LEMMA QuietAccess ==
    ASSUME IInv, NEW w \in Workers, Quiet(w),
           \A v \in Workers \ {w} : worker'[v] = worker[v],
           UNCHANGED offered, access' \subseteq access, raced \subseteq raced',
           \A o \in Orders :
              /\ order'[o].pay = order[o].pay
              /\ \/ order'[o].access = order[o].access
                 \/ order'[o].access \notin {"provisioned", "not_applicable"}
              /\ order'[o].common = None => order[o].common = None
              /\ \/ row'[<<"revoke", o>>] = row[<<"revoke", o>>]
                 \/ /\ row[<<"revoke", o>>].status # "absent"
                    /\ row'[<<"revoke", o>>].status # "absent"
              /\ row'[<<"revoke", o>>].status = "succeeded"
                   => \/ row[<<"revoke", o>>].status = "succeeded"
                      \/ \E v \in Workers : At(v, {"succeed"}, <<"revoke", o>>)
    PROVE  AccessShape'
  <1>1. RefundShape'
    BY RefundKept
  <1>2. \A o \in Orders : NoGrants(o) => NoGrants(o)'
    <2> SUFFICES ASSUME NEW o \in Orders, NoGrants(o), NEW v \in Workers,
                        At(v, {"call", "store", "decline", "fail", "failOrder"}, <<"provision", o>>)'
                 PROVE  FALSE
      BY DEF NoGrants
    <2>1. Kind(<<"provision", o>>) = "provision"
      BY JobsDiffer
    <2> QED
      BY <2>1 DEF NoGrants, At, Quiet
  <1>3. \A o \in Orders : Kept(o)
    BY <1>2 DEF Kept
  <1>4. \A v \in Workers :
           /\ worker'[v].pc = "reissue" => worker'[v] = worker[v]
           /\ worker'[v].pc = "decline" => worker'[v] = worker[v]
    BY DEF Quiet
  <1>5. \A o \in Orders, v \in Workers :
           /\ At(v, {"store"}, <<"revoke", o>>)' => At(v, {"store"}, <<"revoke", o>>)
           /\ At(v, {"succeed"}, <<"revoke", o>>)' => At(v, {"succeed"}, <<"revoke", o>>)
    <2>1. \A o \in Orders : Kind(<<"revoke", o>>) = "revoke"
      BY JobsDiffer
    <2> QED
      BY <2>1 DEF At, Quiet
  <1> QED
    BY <1>1, <1>3, <1>4, <1>5, AccessKept

LEMMA Moves ==
    ASSUME TypeOK, NEW w \in Workers, worker[w].pc # "idle"
    PROVE  /\ \A pc : Goto(w, pc) =>
                 /\ worker'[w].pc = pc /\ worker'[w].job = worker[w].job
                 /\ \A v \in Workers \ {w} : worker'[v] = worker[v]
           /\ \A pc, id : worker' = [worker EXCEPT ![w].id = id, ![w].pc = pc] =>
                 /\ worker'[w].pc = pc /\ worker'[w].job = worker[w].job
                 /\ \A v \in Workers \ {w} : worker'[v] = worker[v]
  <1>1. worker[w] \in Busy
    BY BusyIs
  <1> QED
    BY <1>1 DEF Goto, TypeOK, Busy

\* The grant and the revocation read the order before they call the hub.
LEMMA LoadAccess ==
    ASSUME IInv, NEW w \in Workers, Load(w)
    PROVE  AccessShape'
  <1> USE DEF IInv
  <1>0. worker[w].pc = "load" /\ worker[w].job \in Jobs
    BY LoadIs, BusyIs
  <1>1. UNCHANGED <<row, order, offered, access, raced>>
    BY LoadIs DEF jobVars, hubVars, ghosts
  <1>2. /\ \A v \in Workers \ {w} : worker'[v] = worker[v]
        /\ worker'[w].job = worker[w].job
    BY LoadIs DEF After
  <1>3. CASE LoadUser(w) \/ LoadCapture(w) \/ LoadConfirm(w)
    <2>1. /\ worker'[w].pc \in {"call", "link", "block"}
          /\ Kind(worker[w].job) \notin {"provision", "revoke"}
      <3>1. PICK pc \in {"call", "link", "block"} :
               \/ Goto(w, pc)
               \/ \E id : worker' = [worker EXCEPT ![w].id = id, ![w].pc = pc]
        BY <1>3 DEF LoadUser, LoadCapture, LoadConfirm
      <3>2. worker'[w].pc = pc
        BY <1>0, <3>1, Moves
      <3> QED
        BY <1>3, <3>2 DEF LoadUser, LoadCapture, LoadConfirm, Working
    <2>2. Quiet(w)
      BY <1>2, <2>1 DEF Quiet
    <2> QED
      BY <1>1, <1>2, <2>2, QuietAccess
  <1>4. CASE LoadProvision(w)
    <2>1. PICK o \in Orders : /\ worker[w].job = <<"provision", o>>
                              /\ o = OrderOf(worker[w].job)
      BY <1>0, <1>4, JobFields DEF LoadProvision, Working
    <2>2. /\ worker'[w].pc \in {"succeed", "block", "call", "decline"}
          /\ worker'[w].pc \in {"call", "decline"}
               => order[o].pay = "paid" /\ order[o].common # None
          /\ worker'[w].pc = "decline" => ~offered
      <3>1. PICK pc \in {"succeed", "block", "call", "decline"} :
               /\ worker' = [worker EXCEPT ![w].id = order[o].common, ![w].pc = pc]
               /\ pc \in {"call", "decline"}
                    => order[o].pay = "paid" /\ order[o].common # None
               /\ pc = "decline" => ~offered
        <4> DEFINE to == IF order[o].pay # "paid" THEN "succeed"
                         ELSE IF order[o].common = None THEN "block"
                         ELSE IF offered THEN "call" ELSE "decline"
        <4>1. worker' = [worker EXCEPT ![w].id = order[o].common, ![w].pc = to]
          BY <1>4, <2>1 DEF LoadProvision
        <4>2. /\ to \in {"succeed", "block", "call", "decline"}
              /\ to \in {"call", "decline"} => order[o].pay = "paid" /\ order[o].common # None
              /\ to = "decline" => ~offered
          OBVIOUS
        <4> HIDE DEF to
        <4> QED
          BY <4>1, <4>2
      <3>2. worker'[w].pc = pc
        BY <1>0, <3>1, Moves
      <3> QED
        BY <3>1, <3>2
    <2>3. RefundShape'
      BY <1>1, RefundKept
    <2>4. \A q \in Orders : Kept(q) \/ MayGrow(q)
      <3> SUFFICES ASSUME NEW q \in Orders, ~MayGrow(q) PROVE Kept(q)
        OBVIOUS
      <3>1. NoGrants(q) => NoGrants(q)'
        <4> SUFFICES ASSUME NoGrants(q), NEW v \in Workers,
                            At(v, {"call", "store", "decline", "fail", "failOrder"},
                               <<"provision", q>>)'
                     PROVE  FALSE
          BY DEF NoGrants
        <4>1. v = w
          BY <1>2 DEF NoGrants, At
        <4>2. q = o
          BY <1>2, <2>1, <4>1, JobsDiffer DEF At
        <4> QED
          BY <2>2, <4>1, <4>2 DEF MayGrow, At
      <3> QED
        BY <1>1, <3>1 DEF Kept
    <2>5. \A q \in Orders, v \in Workers, p \in {"store", "succeed"} :
             At(v, {p}, <<"revoke", q>>)' => At(v, {p}, <<"revoke", q>>)
      BY <1>2, <2>1, JobsDiffer DEF At
    <2>6. \A v \in Workers :
             /\ worker'[v].pc = "reissue" => worker'[v] = worker[v]
             /\ worker'[v].pc = "decline"
                  => \/ worker'[v] = worker[v]
                     \/ ~offered' /\ Kind(worker'[v].job) = "provision"
      BY <1>1, <1>2, <2>1, <2>2, JobsDiffer
    <2> QED
      BY <1>1, <2>3, <2>4, <2>5, <2>6, AccessKept
  <1>5. CASE LoadRevoke(w)
    <2>1. PICK o \in Orders : /\ worker[w].job = <<"revoke", o>>
                              /\ o = OrderOf(worker[w].job)
      BY <1>0, <1>5, JobFields DEF LoadRevoke, Working
    <2>2. /\ worker'[w].pc \in {"succeed", "call"}
          /\ worker'[w].pc = "succeed" => order[o].common = None
      <3>1. PICK pc \in {"succeed", "call"} :
               /\ \E id : worker' = [worker EXCEPT ![w].id = id, ![w].pc = pc]
               /\ pc = "succeed" => order[o].common = None
        BY <1>5, <2>1 DEF LoadRevoke
      <3>2. worker'[w].pc = pc
        BY <1>0, <3>1, Moves
      <3> QED
        BY <3>1, <3>2
    <2>3. RefundShape'
      BY <1>1, RefundKept
    <2>4. \A q \in Orders : Kept(q)
      <3> SUFFICES ASSUME NEW q \in Orders PROVE Kept(q)
        OBVIOUS
      <3>1. NoGrants(q) => NoGrants(q)'
        <4>1. worker'[w].job # <<"provision", q>>
          BY <1>2, <2>1, JobsDiffer
        <4> QED
          BY <1>2, <4>1 DEF NoGrants, At
      <3> QED
        BY <1>1, <3>1 DEF Kept
    <2>5. \A q \in Orders, v \in Workers :
             /\ At(v, {"store"}, <<"revoke", q>>)' => At(v, {"store"}, <<"revoke", q>>)
             /\ At(v, {"succeed"}, <<"revoke", q>>)'
                  => At(v, {"succeed"}, <<"revoke", q>>) \/ order[q].common = None
      <3> SUFFICES ASSUME NEW q \in Orders, NEW v \in Workers
                   PROVE  /\ At(v, {"store"}, <<"revoke", q>>)'
                               => At(v, {"store"}, <<"revoke", q>>)
                          /\ At(v, {"succeed"}, <<"revoke", q>>)'
                               => \/ At(v, {"succeed"}, <<"revoke", q>>)
                                  \/ order[q].common = None
        OBVIOUS
      <3>1. CASE v # w
        BY <1>2, <3>1 DEF At
      <3>2. CASE v = w
        <4>1. <<"revoke", q>> = <<"revoke", o>> => q = o
          BY JobsDiffer
        <4> QED
          BY <1>2, <2>1, <2>2, <3>2, <4>1 DEF At
      <3> QED
        BY <3>1, <3>2
    <2>6. \A v \in Workers :
             /\ worker'[v].pc = "reissue" => worker'[v] = worker[v]
             /\ worker'[v].pc = "decline" => worker'[v] = worker[v]
      BY <1>2, <2>2
    <2> QED
      BY <1>1, <2>3, <2>4, <2>5, <2>6, AccessKept
  <1> QED
    BY <1>3, <1>4, <1>5 DEF Load

\* The hub opens the account of a grant under way, and closes one that is revoked.
LEMMA CallAccess ==
    ASSUME IInv, NEW w \in Workers, Call(w)
    PROVE  AccessShape'
  <1> USE DEF IInv
  <1>0. worker[w].pc = "call" /\ worker[w].job \in Jobs
    BY CallIs, BusyIs
  <1>1. UNCHANGED <<row, order, offered>>
    BY CallIs DEF jobVars
  <1>2. /\ \A v \in Workers \ {w} : worker'[v] = worker[v]
        /\ worker'[w].job = worker[w].job
        /\ worker'[w].pc \in {"compare", "store", "fail"}
    BY CallIs DEF After
  <1>3. CASE ResolveCommonUserId(w) \/ CaptureReferralToken(w) \/ ConfirmReferral(w)
    <2>1. Kind(worker[w].job) \notin {"provision", "revoke"} /\ UNCHANGED <<access, raced>>
      BY <1>3 DEF ResolveCommonUserId, CaptureReferralToken, ConfirmReferral, Working,
         hubVars, ghosts
    <2>2. Quiet(w)
      BY <1>2, <2>1 DEF Quiet
    <2> QED
      BY <1>1, <1>2, <2>1, <2>2, QuietAccess
  <1>4. RefundShape'
    BY <1>1, RefundKept
  <1>5. \A v \in Workers :
           /\ worker'[v].pc = "reissue" => worker'[v] = worker[v]
           /\ worker'[v].pc = "decline" => worker'[v] = worker[v]
    BY <1>2
  <1>6. CASE RequestPurchaseProvisioning(w)
    <2>1. PICK o \in Orders : /\ worker[w].job = <<"provision", o>>
                              /\ o = OrderOf(worker[w].job)
      BY <1>0, <1>6, JobFields DEF RequestPurchaseProvisioning, Working
    <2>2. access' \subseteq access \cup {o} /\ raced' = raced
      BY <1>6, <2>1 DEF RequestPurchaseProvisioning, ghosts
    <2>3. \A q \in Orders : Kept(q) \/ MayGrow(q)
      <3> SUFFICES ASSUME NEW q \in Orders, NoGrants(q) PROVE Kept(q)
        BY DEF MayGrow
      <3>1. q # o
        BY <1>0, <2>1 DEF NoGrants, At
      <3>2. worker'[w].job # <<"provision", q>>
        BY <1>2, <2>1, <3>1, JobsDiffer
      <3>3. NoGrants(q)'
        BY <1>2, <3>2 DEF NoGrants, At
      <3> QED
        BY <1>1, <2>2, <3>1, <3>3 DEF Kept
    <2>4. \A q \in Orders, v \in Workers, p \in {"store", "succeed"} :
             At(v, {p}, <<"revoke", q>>)' => At(v, {p}, <<"revoke", q>>)
      BY <1>2, <2>1, JobsDiffer DEF At
    <2> QED
      BY <1>1, <1>4, <1>5, <2>2, <2>3, <2>4, AccessKept
  <1>7. CASE RevokePurchaseProvisioning(w)
    <2>1. PICK o \in Orders : /\ worker[w].job = <<"revoke", o>>
                              /\ o = OrderOf(worker[w].job)
      BY <1>0, <1>7, JobFields DEF RevokePurchaseProvisioning, Working
    <2>2. /\ access' \subseteq access
          /\ raced' = IF Granting(o) THEN raced \cup {o} ELSE raced
          /\ worker'[w].pc = "store" => o \notin access'
      <3>1. Goto(w, "fail") => worker'[w].pc = "fail"
        BY <1>0, Moves
      <3> QED
        BY <1>7, <2>1, <3>1 DEF RevokePurchaseProvisioning, Raced, Failing
    <2>3. \A q \in Orders : NoGrants(q) => NoGrants(q)'
      <3> SUFFICES ASSUME NEW q \in Orders, NoGrants(q) PROVE NoGrants(q)'
        OBVIOUS
      <3>1. worker'[w].job # <<"provision", q>>
        BY <1>2, <2>1, JobsDiffer
      <3> QED
        BY <1>2, <3>1 DEF NoGrants, At
    <2>4. \A q \in Orders : Kept(q)
      BY <1>1, <2>2, <2>3 DEF Kept
    <2>5. o \in raced' \/ NoGrants(o)
      BY <2>1, <2>2 DEF Granting, NoGrants, At
    <2>6. \A q \in Orders, v \in Workers :
             /\ At(v, {"store"}, <<"revoke", q>>)'
                  => At(v, {"store"}, <<"revoke", q>>) \/ Closed(q)' \/ q \in raced'
             /\ At(v, {"succeed"}, <<"revoke", q>>)' => At(v, {"succeed"}, <<"revoke", q>>)
      <3> SUFFICES ASSUME NEW q \in Orders, NEW v \in Workers
                   PROVE  /\ At(v, {"store"}, <<"revoke", q>>)'
                               => At(v, {"store"}, <<"revoke", q>>) \/ Closed(q)' \/ q \in raced'
                          /\ At(v, {"succeed"}, <<"revoke", q>>)'
                               => At(v, {"succeed"}, <<"revoke", q>>)
        OBVIOUS
      <3>1. CASE v # w
        BY <1>2, <3>1 DEF At
      <3>2. CASE v = w
        <4>1. <<"revoke", q>> = <<"revoke", o>> => q = o
          BY JobsDiffer
        <4>2. o \in raced' \/ NoGrants(o)'
          BY <2>1, <2>3, <2>5
        <4> QED
          BY <1>2, <2>1, <2>2, <3>2, <4>1, <4>2 DEF At, Closed
      <3> QED
        BY <3>1, <3>2
    <2> QED
      BY <1>1, <1>4, <1>5, <2>2, <2>4, <2>6, AccessKept
  <1> QED
    BY <1>3, <1>6, <1>7 DEF Call

\* The answers are stored on the order.
LEMMA StoreAccess ==
    ASSUME IInv, NEW w \in Workers, Store(w)
    PROVE  AccessShape'
  <1> USE DEF IInv
  <1>0. /\ worker[w].pc \in {"compare", "identity", "user", "link", "store", "decline"}
        /\ worker[w].job \in Jobs
        /\ UNCHANGED <<row, offered, access>>
    BY StoreIs, BusyIs DEF jobVars, hubVars
  <1>1. /\ \A v \in Workers \ {w} : worker'[v] = worker[v]
        /\ worker'[w].job = worker[w].job
        /\ worker'[w].pc \in {"identity", "conflict", "user", "link", "succeed"}
    BY StoreIs DEF After
  <1>2. order \in [Orders -> OrderRow]
    BY DEF TypeOK
  <1>3. CASE CompareIdentity(w) \/ SaveIdentity(w) \/ SaveUser(w)
    <2>1. UNCHANGED <<order, raced>>
      BY <1>3 DEF CompareIdentity, SaveIdentity, SaveUser, ghosts
    <2>2. worker'[w].pc # "succeed"
      <3>1. \E pc \in {"identity", "conflict", "user", "link"} : Goto(w, pc)
        BY <1>3 DEF CompareIdentity, SaveIdentity, SaveUser
      <3> QED
        BY <1>0, <3>1, Moves
    <2>3. Quiet(w)
      BY <1>1, <2>2 DEF Quiet
    <2> QED
      BY <1>0, <1>1, <2>1, <2>3, QuietAccess
  <1>4. CASE LinkOrder(w)
    <2>1. worker[w].job = Resolve /\ worker[w].id \in Ids
      BY <1>4 DEF LinkOrder, IdentityShape
    <2>2. worker[w].id # None
      BY <2>1, NoneAssumption
    <2>3. \A q \in Orders :
             /\ order'[q].pay = order[q].pay /\ order'[q].access = order[q].access
             /\ order'[q].common = None => order[q].common = None
      BY <1>2, <1>4, <2>2 DEF LinkOrder, OrderRow
    <2>4. raced' = raced
      BY <1>4 DEF LinkOrder, ghosts
    <2>5. Quiet(w)
      BY <1>1, <2>1, JobsDiffer DEF Quiet
    <2> QED
      BY <1>0, <1>1, <2>3, <2>4, <2>5, QuietAccess
  <1>5. CASE StoreReferral(w)
    <2>1. Kind(worker[w].job) \in {"capture", "confirm"} /\ raced' = raced
      BY <1>5 DEF StoreReferral, ghosts
    <2>2. \A q \in Orders :
             /\ order'[q].pay = order[q].pay /\ order'[q].access = order[q].access
             /\ order'[q].common = order[q].common
      BY <1>2, <1>5 DEF StoreReferral, OrderRow
    <2>3. Quiet(w)
      BY <1>1, <2>1 DEF Quiet
    <2> QED
      BY <1>0, <1>1, <2>1, <2>2, <2>3, QuietAccess
  <1>6. \A v \in Workers :
           /\ worker'[v].pc = "reissue" => worker'[v] = worker[v]
           /\ worker'[v].pc = "decline" => worker'[v] = worker[v]
    BY <1>1
  <1>8. CASE StoreProvisioned(w) \/ Decline(w)
    <2>0. Kind(worker[w].job) = "provision"
      BY <1>8 DEF StoreProvisioned, Decline, Working, AccessShape, GrantShape
    <2>1. PICK o \in Orders : worker[w].job = <<"provision", o>> /\ o = OrderOf(worker[w].job)
      BY <1>0, <2>0, JobFields
    <2>2. /\ \A q \in Orders :
                /\ order'[q].pay = order[q].pay /\ order'[q].common = order[q].common
                /\ q # o => order'[q].access = order[q].access
          /\ order'[o].access # "not_applicable" \/ ~offered
          /\ raced' = raced
      BY <1>2, <1>8, <2>1 DEF StoreProvisioned, Decline, OrderRow, ghosts, AccessShape,
         GrantShape
    <2>3. RefundShape'
      <3>1. \A q \in Orders : \/ order'[q].access = order[q].access
                              \/ order'[q].access # "not_applicable"
                              \/ ~offered'
        BY <1>0, <2>2
      <3> QED
        BY <1>0, <2>2, <3>1, RefundKept
    <2>4. ~NoGrants(o)
      BY <1>8, <2>1 DEF StoreProvisioned, Decline, Working, NoGrants, At
    <2>5. \A q \in Orders : Kept(q) \/ MayGrow(q)
      <3> SUFFICES ASSUME NEW q \in Orders, q # o PROVE Kept(q)
        BY <2>4 DEF MayGrow
      <3>1. worker'[w].job # <<"provision", q>>
        BY <1>1, <2>1, JobsDiffer
      <3>2. NoGrants(q) => NoGrants(q)'
        BY <1>1, <3>1 DEF NoGrants, At
      <3> QED
        BY <1>0, <2>2, <3>2 DEF Kept
    <2>6. \A q \in Orders, v \in Workers, p \in {"store", "succeed"} :
             At(v, {p}, <<"revoke", q>>)' => At(v, {p}, <<"revoke", q>>)
      BY <1>1, <2>1, JobsDiffer DEF At
    <2> QED
      BY <1>0, <1>6, <2>2, <2>3, <2>5, <2>6, AccessKept
  <1>9. CASE StoreRevoked(w)
    <2>1. PICK o \in Orders : worker[w].job = <<"revoke", o>> /\ o = OrderOf(worker[w].job)
      BY <1>0, <1>9, JobFields DEF StoreRevoked, Working
    <2>2. /\ \A q \in Orders :
                /\ order'[q].pay = order[q].pay /\ order'[q].common = order[q].common
                /\ q # o => order'[q].access = order[q].access
          /\ order'[o].access = "revoked"
          /\ raced \subseteq raced'
          /\ worker[w].pc = "store"
      BY <1>2, <1>9, <2>1 DEF StoreRevoked, Working, OrderRow, Raced
    <2>3. RefundShape'
      <3>1. \A q \in Orders : \/ order'[q].access = order[q].access
                              \/ order'[q].access # "not_applicable"
        BY <2>2
      <3> QED
        BY <1>0, <2>2, <3>1, RefundKept
    <2>4. \A q \in Orders : Kept(q)
      <3> SUFFICES ASSUME NEW q \in Orders PROVE Kept(q)
        OBVIOUS
      <3>1. worker'[w].job # <<"provision", q>>
        BY <1>1, <2>1, JobsDiffer
      <3>2. NoGrants(q) => NoGrants(q)'
        BY <1>1, <3>1 DEF NoGrants, At
      <3>3. order'[q].access = "provisioned" => order[q].access = "provisioned"
        BY <2>2
      <3> QED
        BY <1>0, <3>2, <3>3 DEF Kept
    <2>5. \A q \in Orders, v \in Workers :
             /\ At(v, {"store"}, <<"revoke", q>>)' => At(v, {"store"}, <<"revoke", q>>)
             /\ At(v, {"succeed"}, <<"revoke", q>>)'
                  => \/ At(v, {"succeed"}, <<"revoke", q>>)
                     \/ /\ At(v, {"store"}, <<"revoke", q>>)
                        /\ order'[q].access # "provisioned"
      <3> SUFFICES ASSUME NEW q \in Orders, NEW v \in Workers
                   PROVE  /\ At(v, {"store"}, <<"revoke", q>>)'
                               => At(v, {"store"}, <<"revoke", q>>)
                          /\ At(v, {"succeed"}, <<"revoke", q>>)'
                               => \/ At(v, {"succeed"}, <<"revoke", q>>)
                                  \/ /\ At(v, {"store"}, <<"revoke", q>>)
                                     /\ order'[q].access # "provisioned"
        OBVIOUS
      <3>1. CASE v # w
        BY <1>1, <3>1 DEF At
      <3>2. CASE v = w
        <4>1. <<"revoke", q>> = <<"revoke", o>> => q = o
          BY JobsDiffer
        <4> QED
          BY <1>1, <2>1, <2>2, <3>2, <4>1 DEF At
      <3> QED
        BY <3>1, <3>2
    <2> QED
      BY <1>0, <1>6, <2>2, <2>3, <2>4, <2>5, AccessKept
  <1> QED
    BY <1>3, <1>4, <1>5, <1>8, <1>9 DEF Store

\* A login URL is issued anew: after a refund, the record of races has it.
LEMMA ReissueAccess ==
    ASSUME IInv, NEW w \in Workers, SendReissue(w)
    PROVE  AccessShape'
  <1> USE DEF IInv
  <1>1. PICK o \in Orders : worker[w].job = <<"provision", o>>
    BY DEF SendReissue, AccessShape, GrantShape
  <1>2. o = OrderOf(worker[w].job)
    BY <1>1, JobsDiffer
  <1>3. /\ Left(w) /\ worker[w].pc = "reissue"
        /\ access' \subseteq access \cup {o}
        /\ raced' = IF order[o].pay = "refunded" THEN raced \cup {o} ELSE raced
        /\ UNCHANGED <<row, order, offered>>
    BY <1>2, FinishLeft DEF SendReissue, jobVars
  <1>4. RefundShape'
    BY <1>3, RefundKept
  <1>5. order[o].common # None
    BY <1>1, <1>3 DEF AccessShape, BeforeId, At
  <1>6. \A q \in Orders : NoGrants(q) => NoGrants(q)'
    BY <1>3 DEF NoGrants, At, Left
  <1>7. \A q \in Orders : Kept(q) \/ MayGrow(q)
    <2>1. MayGrow(o)
      BY <1>3, <1>5 DEF MayGrow
    <2>2. \A q \in Orders \ {o} : Kept(q)
      BY <1>3, <1>6 DEF Kept
    <2> QED
      BY <2>1, <2>2
  <1>8. /\ \A v \in Workers :
              /\ worker'[v].pc = "reissue" => worker'[v] = worker[v]
              /\ worker'[v].pc = "decline" => worker'[v] = worker[v]
        /\ \A q \in Orders, v \in Workers, p \in {"store", "succeed"} :
              At(v, {p}, <<"revoke", q>>)' => At(v, {p}, <<"revoke", q>>)
    BY <1>3 DEF Left, At
  <1> QED
    BY <1>3, <1>4, <1>7, <1>8, AccessKept

LEMMA NextAccess ==
    ASSUME IInv, Next,
           ~\E o \in Orders : PlaceOrder(o) \/ Pay(o) \/ Refund(o)
    PROVE  AccessShape'
  <1> USE DEF IInv
  <1>0. \A o \in Orders :
           /\ <<"revoke", o>> \in Jobs
           /\ \/ row'[<<"revoke", o>>] = row[<<"revoke", o>>]
              \/ /\ row[<<"revoke", o>>].status # "absent"
                 /\ row'[<<"revoke", o>>].status # "absent"
    BY RowsStay, JobsAre
  <1>1. CASE StopOffering \/ Merge \/ \E j \in Jobs : Skip(j) \/ LeaseTimesOut(j)
    <2>1. UNCHANGED <<order, worker, access, raced>> /\ (offered' => offered)
      BY <1>1 DEF StopOffering, Merge, Skip, LeaseTimesOut, hubVars, ghosts
    <2>2. RefundShape'
      BY <1>0, <2>1, RefundKept
    <2>3. \A o \in Orders : Kept(o)
      BY <2>1 DEF Kept, NoGrants, At
    <2>4. \A pcs : \A o \in Orders, v \in Workers :
             At(v, pcs, <<"revoke", o>>)' <=> At(v, pcs, <<"revoke", o>>)
      BY <2>1 DEF At
    <2>5. \A k \in Jobs : row'[k].status = "succeeded" => row[k].status = "succeeded"
      BY <1>1 DEF StopOffering, Merge, Skip, LeaseTimesOut, jobVars, TypeOK, Row
    <2> QED
      BY <1>0, <2>1, <2>2, <2>3, <2>4, <2>5, AccessKept
  <1>2. ASSUME NEW w \in Workers, NEW j \in Jobs, Dispatch(w, j) \/ Retry(w, j)
        PROVE  AccessShape'
    <2>1. /\ \A v \in Workers \ {w} : worker'[v] = worker[v]
          /\ worker'[w].pc = "claim"
          /\ UNCHANGED <<order, offered, access, raced>>
      BY <1>2, DispatchIs, RetryIs DEF hubVars, ghosts
    <2>2. Quiet(w)
      BY <2>1 DEF Quiet
    <2>3. \A k \in Jobs : row'[k].status = "succeeded" => row[k].status = "succeeded"
      BY <1>2, DispatchRows, RetryIs DEF jobVars
    <2> QED
      BY <1>0, <2>1, <2>2, <2>3, QuietAccess
  <1>3. ASSUME NEW w \in Workers, NEW o \in Orders, Reissue(w, o) PROVE AccessShape'
    <2>1. /\ \A v \in Workers \ {w} : worker'[v] = worker[v]
          /\ worker'[w].pc = "reissue" /\ worker'[w].job = <<"provision", o>>
          /\ order[o].common # None
          /\ UNCHANGED <<row, order, offered, access, raced>>
      BY <1>3, ReissueIs DEF jobVars, hubVars, ghosts
    <2>2. RefundShape'
      BY <1>0, <2>1, RefundKept
    <2>3. \A q \in Orders : Kept(q)
      BY <2>1 DEF Kept, NoGrants, At
    <2>4. \A q \in Orders, v \in Workers :
             /\ At(v, {"store"}, <<"revoke", q>>)' => At(v, {"store"}, <<"revoke", q>>)
             /\ At(v, {"succeed"}, <<"revoke", q>>)' => At(v, {"succeed"}, <<"revoke", q>>)
      BY <2>1 DEF At
    <2>5. \A v \in Workers :
             /\ worker'[v].pc = "reissue"
                  => \/ worker'[v] = worker[v]
                     \/ \E q \in Orders : /\ worker'[v].job = <<"provision", q>>
                                          /\ order[q].common # None
             /\ worker'[v].pc = "decline" => worker'[v] = worker[v]
      BY <2>1
    <2> QED
      BY <2>1, <2>2, <2>3, <2>4, <2>5, AccessKept
  <1>4. ASSUME NEW w \in Workers, Claim(w) PROVE AccessShape'
    <2>1. /\ \A v \in Workers \ {w} : worker'[v] = worker[v]
          /\ worker'[w].pc \in {"idle", "load"}
          /\ UNCHANGED <<order, offered, access, raced>>
      BY <1>4, ClaimIs DEF hubVars, ghosts, Left, After
    <2>2. Quiet(w)
      BY <2>1 DEF Quiet
    <2>3. \A k \in Jobs : row'[k].status = "succeeded" => row[k].status = "succeeded"
      BY <1>4, ClaimIs DEF jobVars
    <2> QED
      BY <1>0, <2>1, <2>2, <2>3, QuietAccess
  <1>5. ASSUME NEW w \in Workers, Succeed(w) \/ Block(w) \/ Fail(w) PROVE AccessShape'
    <2>1. /\ \A v \in Workers \ {w} : worker'[v] = worker[v]
          /\ UNCHANGED <<order, offered, access, raced>>
      BY <1>5, SettleIs DEF hubVars, Left, After
    <2>2. Quiet(w)
      BY <1>5, SettleIs DEF Quiet, Left, After
    <2>3. \A k \in Jobs : row'[k].status = "succeeded"
                            => row[k].status = "succeeded" \/ At(w, {"succeed"}, k)
      BY <1>5, SettleIs DEF At
    <2> QED
      BY <1>0, <2>1, <2>2, <2>3, QuietAccess
  <1>6. ASSUME NEW w \in Workers, MarkOrderProvisioningFailed(w) \/ Crash(w)
        PROVE  AccessShape'
    <2>1. /\ Left(w) /\ UNCHANGED <<row, offered, access, raced>>
      BY <1>6, FinishLeft DEF MarkOrderProvisioningFailed, Crash, jobVars, hubVars, ghosts
    <2>2. Quiet(w)
      BY <2>1 DEF Quiet, Left
    <2>3. \A q \in Orders :
             /\ order'[q].pay = order[q].pay /\ order'[q].common = order[q].common
             /\ \/ order'[q].access = order[q].access
                \/ order'[q].access \in {"failed", "pending"}
      BY <1>6 DEF MarkOrderProvisioningFailed, Crash, TypeOK, OrderRow
    <2> QED
      BY <1>0, <2>1, <2>2, <2>3, QuietAccess DEF Left
  <1> QED
    BY <1>1, <1>2, <1>3, <1>4, <1>5, <1>6, LoadAccess, CallAccess, StoreAccess, ReissueAccess
       DEF Next, Step, Settle

LEMMA NextIInv == IInv /\ [Next]_vars => IInv'
  <1>1. ASSUME IInv, Next PROVE IInv'
    <2>1. AccessShape'
      BY <1>1, NextAccess, OrderAccess
    <2> QED
      BY <1>1, <2>1, NextTypes, NextJobs, NextIdentity DEF IInv
  <1>2. ASSUME IInv, UNCHANGED vars PROVE IInv'
    <2> USE <1>2 DEF IInv, vars, jobVars, hubVars, ghosts
    <2>1. TypeOK' /\ JobShape' /\ Leases' /\ IdentityShape'
      BY DEF TypeOK, JobShape, Leases, Running, IdentityShape
    <2>2. AccessShape'
      BY DEF AccessShape, GrantShape, BeforeId, RefundShape, RevokeShape, Closed, NoGrants, At
    <2> QED
      BY <2>1, <2>2
  <1> QED
    BY <1>1, <1>2

LEMMA Invariant == Spec => []IInv
BY InitIInv, NextIInv, PTL DEF Spec

-----------------------------------------------------------------------------
(* Theorems *)

\* The variables have their types, and calls that need the buyer's id carry one.
THEOREM TypeCorrect == Spec => []TypeOK
  <1>1. IInv => TypeOK
    BY DEF IInv
  <1> QED
    BY <1>1, Invariant, PTL

\* After a revoked refund the buyer has no account and the order claims none.
THEOREM RefundEndsAccessHolds == Spec => []RefundEndsAccess
  <1>1. IInv => RefundEndsAccess
    BY DEF IInv, AccessShape, RefundShape, RevokeShape, Closed, RefundEndsAccess
  <1> QED
    BY <1>1, Invariant, PTL

\* A recorded common user id is never replaced, unless a lease was called in
\* under a live worker.
THEOREM IdentityIsKeptHolds == Spec => IdentityIsKept
  <1>1. IInv /\ [Next]_vars =>
          [Resolve \notin contested /\ user.identity # None
             => user'.identity = user.identity]_vars
    BY NextIdentity
  <1> QED
    BY <1>1, Invariant, PTL DEF Spec, IdentityIsKept
=============================================================================

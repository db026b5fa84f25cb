------------------------- MODULE OrderRecordsProofs -------------------------
(***************************************************************************)
(* Proofs about OrderRecords, for any number of overlapping requests, any  *)
(* attempts and failures, and any order.                                   *)
(***************************************************************************)
EXTENDS OrderRecords, TLAPS

-----------------------------------------------------------------------------
(* Types *)

\* The row of the issue.
IssueRow == [status: IssueStatuses \cup {"none"}, wallet: BOOLEAN, request: BOOLEAN,
             attempt: 0..MaxAttempts, noted: BOOLEAN]

LEMMA InitTypeOK == Init => TypeOK
  <1> SUFFICES ASSUME Init PROVE TypeOK
    OBVIOUS
  <1>1. 0 \in 0..MaxAttempts /\ 0 \in 0..MishapLimit
    BY AttemptAssumption, MishapAssumption
  <1>2. issue \in IssueRow /\ req \in [Requests -> Busy \cup {Idle}]
    BY <1>1 DEF Init, IssueRow
  <1> QED
    BY <1>1, <1>2 DEF Init, TypeOK, IssueRow, OrderStatuses, NoRefund

\* Fields of the row are written one by one.
LEMMA IssueFields ==
    ASSUME NEW row \in IssueRow
    PROVE  /\ \A s \in IssueStatuses \cup {"none"} : [row EXCEPT !.status = s] \in IssueRow
           /\ \A b \in BOOLEAN : [row EXCEPT !.wallet = b] \in IssueRow
           /\ \A b \in BOOLEAN : [row EXCEPT !.request = b] \in IssueRow
           /\ \A b \in BOOLEAN : [row EXCEPT !.noted = b] \in IssueRow
           /\ \A n \in 0..MaxAttempts : [row EXCEPT !.attempt = n] \in IssueRow
BY DEF IssueRow

\* A request that has done something stands at one of its points.
LEMMA GotoTypes ==
    ASSUME TypeOK, NEW r \in Requests, NEW pc, req[r].pc # "idle", req[r].pc # "claim",
           req[r].pc \notin {"status", "commission", "export"},
           pc \in {"submit", "record", "ask", "confirm", "fail"}, Goto(r, pc)
    PROVE  req' \in [Requests -> Busy \cup {Idle}]
  <1>1. req[r] \in [pc: {"issue", "submit", "record", "ask", "confirm", "fail"},
                    to: IssueStatuses]
    BY DEF TypeOK, Busy, Idle
  <1>2. [req[r] EXCEPT !.pc = pc] \in Busy
    BY <1>1 DEF Busy
  <1> QED
    BY <1>2 DEF Goto, TypeOK

LEMMA FinishTypes ==
    ASSUME TypeOK, NEW r \in Requests, Finish(r)
    PROVE  req' \in [Requests -> Busy \cup {Idle}]
BY DEF TypeOK, Finish

LEMMA StartTypes ==
    ASSUME TypeOK, NEW r \in Requests, NEW b \in Busy, req' = [req EXCEPT ![r] = b]
    PROVE  req' \in [Requests -> Busy \cup {Idle}]
BY DEF TypeOK

LEMMA MishapTypes ==
    ASSUME TypeOK, Mishap \/ UNCHANGED mishaps
    PROVE  mishaps' \in 0..MishapLimit
BY MishapAssumption DEF TypeOK, Mishap

\* A step that writes the issue alone.
LEMMA IssueTypes ==
    ASSUME TypeOK, issue' \in IssueRow, stuck' = FALSE,
           UNCHANGED <<goods, order, commission, provider, refund, req, mishaps>>,
           UNCHANGED <<byHand, contested, loose>>
    PROVE  TypeOK'
  <1>1. issue' \in [status: IssueStatuses \cup {"none"}, wallet: BOOLEAN, request: BOOLEAN,
                    attempt: 0..MaxAttempts, noted: BOOLEAN]
    BY DEF IssueRow
  <1>2. /\ req' \in [Requests -> Busy \cup {Idle}] /\ mishaps' \in 0..MishapLimit
        /\ order' = order /\ commission' = commission /\ refund' = refund
    BY DEF TypeOK
  <1> QED
    BY <1>1, <1>2 DEF TypeOK

\* Payment, wallet, refund and time keep the types.
LEMMA OtherTypes ==
    ASSUME TypeOK,
           \/ Pay \/ VerifyWallet \/ BeginRefund \/ CommitRefund \/ AbortRefund
           \/ MintSettles \/ TenMinutesPass
    PROVE  TypeOK'
  <1> USE DEF TypeOK, records, ghosts, OrderStatuses, CommissionStatuses, IssueStatuses
  <1>0. issue \in IssueRow
    BY DEF IssueRow
  <1>1. CASE Pay
    <2>1. PICK c \in {"pending", "cancelled", "none"}, verified \in BOOLEAN :
            /\ order' = [pay |-> "paid", status |-> "paid", commission |-> c]
            /\ commission' = [commission EXCEPT !.status = c]
            /\ issue' = [issue EXCEPT
                           !.wallet = verified,
                           !.status = IF ~goods.nft THEN "none"
                                      ELSE IF verified THEN "ready_to_issue"
                                      ELSE "wallet_required"]
      BY <1>1 DEF Pay
    <2> DEFINE row == [issue EXCEPT !.wallet = verified]
    <2>2. row \in IssueRow
      BY <1>0, IssueFields
    <2>3. issue' \in IssueRow
      <3>1. issue' = [row EXCEPT !.status = IF ~goods.nft THEN "none"
                                            ELSE IF verified THEN "ready_to_issue"
                                            ELSE "wallet_required"]
        BY <2>1
      <3> HIDE DEF row
      <3> QED
        BY <2>2, <3>1, IssueFields
    <2> QED
      BY <1>1, <2>1, <2>3, ZenonT(30) DEF Pay, IssueRow
  <1>2. CASE VerifyWallet
    <2> DEFINE row == [issue EXCEPT !.wallet = TRUE]
    <2>1. row \in IssueRow
      BY <1>0, IssueFields
    <2>2. issue' \in IssueRow
      <3>1. issue' = [row EXCEPT !.status = "ready_to_issue"]
        BY <1>2 DEF VerifyWallet
      <3> HIDE DEF row
      <3> QED
        BY <2>1, <3>1, IssueFields
    <2> HIDE DEF row
    <2>3. /\ stuck' = FALSE
          /\ UNCHANGED <<goods, order, commission, provider, refund, req, mishaps>>
          /\ UNCHANGED <<byHand, contested, loose>>
      BY <1>2 DEF VerifyWallet
    <2> QED
      BY <2>2, <2>3, IssueTypes
  <1>3. CASE BeginRefund
    BY <1>3 DEF BeginRefund
  <1>4. CASE CommitRefund
    <2> DEFINE row == [issue EXCEPT !.status = IF refund.cancels THEN "cancelled" ELSE @]
    <2>1. row \in IssueRow
      <3>1. (IF refund.cancels THEN "cancelled" ELSE issue.status)
              \in IssueStatuses \cup {"none"}
        OBVIOUS
      <3> QED
        BY <1>0, <3>1, IssueFields
    <2>2. issue' \in IssueRow
      <3>1. PICK b \in BOOLEAN : issue' = [row EXCEPT !.noted = b]
        BY <1>4 DEF CommitRefund
      <3> HIDE DEF row
      <3> QED
        BY <2>1, <3>1, IssueFields
    <2>3. /\ order' \in [pay: {"pending", "paid", "refunded"}, status: OrderStatuses,
                          commission: CommissionStatuses \cup {"none"}]
          /\ commission' \in [status: CommissionStatuses \cup {"none"}, noted: BOOLEAN]
      BY <1>4 DEF CommitRefund
    <2>4. stuck' \in BOOLEAN /\ loose' \in BOOLEAN
      BY <1>4 DEF CommitRefund
    <2> QED
      BY <1>4, <2>2, <2>3, <2>4 DEF CommitRefund, NoRefund, IssueRow
  <1>5. CASE AbortRefund
    BY <1>5, MishapTypes DEF AbortRefund, NoRefund
  <1>6. CASE MintSettles
    BY <1>6, MishapTypes DEF MintSettles
  <1>7. CASE TenMinutesPass
    BY <1>7 DEF TenMinutesPass
  <1> QED
    BY <1>1, <1>2, <1>3, <1>4, <1>5, <1>6, <1>7

\* The requests that begin, and the crash, change nothing but the request.
LEMMA BeginTypes ==
    ASSUME TypeOK, NEW r \in Requests,
           \/ \E to \in OrderStatuses : EditStatus(r, to)
           \/ \E to \in CommissionStatuses : EditCommission(r, to)
           \/ \E to \in IssueStatuses : EditIssue(r, to)
           \/ Export(r) \/ Mint(r) \/ Poll(r) \/ Crash(r)
    PROVE  TypeOK'
  <1>1. ASSUME UNCHANGED <<goods, records, provider, refund, ghosts>>,
               mishaps' \in 0..MishapLimit, req' \in [Requests -> Busy \cup {Idle}]
        PROVE  TypeOK'
    BY <1>1 DEF TypeOK, records, ghosts
  <1>2. ASSUME NEW to \in OrderStatuses, EditStatus(r, to) PROVE TypeOK'
    <2>1. [pc |-> "status", to |-> to] \in Busy
      BY DEF Busy
    <2> QED
      BY <1>1, <1>2, <2>1, StartTypes, MishapTypes DEF EditStatus
  <1>3. ASSUME NEW to \in CommissionStatuses, EditCommission(r, to) PROVE TypeOK'
    <2>1. [pc |-> "commission", to |-> to] \in Busy
      BY DEF Busy
    <2> QED
      BY <1>1, <1>3, <2>1, StartTypes, MishapTypes DEF EditCommission
  <1>4. ASSUME NEW to \in IssueStatuses, EditIssue(r, to) PROVE TypeOK'
    <2>1. [pc |-> "issue", to |-> to] \in Busy
      BY DEF Busy
    <2> QED
      BY <1>1, <1>4, <2>1, StartTypes, MishapTypes DEF EditIssue
  <1>5. CASE Export(r)
    <2>1. [pc |-> "export", to |-> "approved"] \in Busy
      BY DEF Busy, CommissionStatuses
    <2> QED
      BY <1>1, <1>5, <2>1, StartTypes, MishapTypes DEF Export
  <1>6. CASE Mint(r)
    <2>1. [pc |-> "claim"] \in Busy
      BY DEF Busy
    <2> QED
      BY <1>1, <1>6, <2>1, StartTypes, MishapTypes DEF Mint
  <1>7. CASE Poll(r)
    <2>1. [pc |-> IF issue.request THEN "ask" ELSE "fail", to |-> "processing"] \in Busy
      BY DEF Busy, IssueStatuses
    <2> QED
      BY <1>1, <1>7, <2>1, StartTypes, MishapTypes DEF Poll
  <1>8. CASE Crash(r)
    BY <1>1, <1>8, FinishTypes, MishapTypes DEF Crash
  <1> QED
    BY <1>2, <1>3, <1>4, <1>5, <1>6, <1>7, <1>8

\* A write to the issue keeps its type.
LEMMA WriteTypes ==
    ASSUME TypeOK, NEW r \in Requests, NEW new, WriteIssue(r, new),
           new \in IssueRow
    PROVE  /\ issue' = new /\ stuck' \in BOOLEAN
           /\ loose' \in BOOLEAN /\ contested' \in BOOLEAN
BY DEF TypeOK, WriteIssue, TakenFrom

LEMMA StepTypes ==
    ASSUME TypeOK, NEW r \in Requests, Step(r)
    PROVE  TypeOK'
  <1>0. issue \in IssueRow
    BY DEF TypeOK, IssueRow
  <1>1. CASE WriteStatus(r)
    <2>1. req[r].to \in OrderStatuses
      BY <1>1 DEF WriteStatus, TypeOK, Busy, Idle
    <2> QED
      BY <1>1, <2>1, FinishTypes DEF WriteStatus, TypeOK, ghosts
  <1>2. CASE WriteCommission(r)
    <2>1. req[r].to \in CommissionStatuses
      BY <1>2 DEF WriteCommission, TypeOK, Busy, Idle
    <2> QED
      BY <1>2, <2>1, FinishTypes DEF WriteCommission, TypeOK, ghosts
  <1>3. CASE WriteIssueStatus(r)
    <2>1. req[r].to \in IssueStatuses
      BY <1>3 DEF WriteIssueStatus, TypeOK, Busy, Idle
    <2> DEFINE new == [issue EXCEPT !.status = req[r].to]
    <2>2. new \in IssueRow
      BY <1>0, <2>1, IssueFields
    <2> HIDE DEF new
    <2>3. WriteIssue(r, new)
      BY <1>3 DEF WriteIssueStatus, new
    <2> QED
      BY <1>3, <2>2, <2>3, WriteTypes, FinishTypes DEF WriteIssueStatus, TypeOK, IssueRow
  <1>4. CASE Claim(r)
    <2>1. [pc |-> "submit", to |-> "processing"] \in Busy
      BY DEF Busy, IssueStatuses
    <2>2. req' \in [Requests -> Busy \cup {Idle}]
      BY <1>4, <2>1, StartTypes, FinishTypes DEF Claim
    <2>3. issue' = issue \/ issue' = [issue EXCEPT !.status = "processing"]
      BY <1>4 DEF Claim
    <2>4. stuck' \in BOOLEAN
      BY <1>4 DEF Claim, TypeOK
    <2> QED
      BY <1>4, <2>2, <2>3, <2>4 DEF Claim, TypeOK, ghosts, IssueStatuses
  <1>5. CASE ReturnForWallet(r)
    <2> DEFINE new == [issue EXCEPT !.status = "wallet_required"]
    <2>1. new \in IssueRow
      BY <1>0, IssueFields DEF IssueStatuses
    <2> HIDE DEF new
    <2>2. WriteIssue(r, new)
      BY <1>5 DEF ReturnForWallet, new
    <2> QED
      BY <1>5, <2>1, <2>2, WriteTypes, FinishTypes DEF ReturnForWallet, TypeOK, IssueRow
  <1>6. CASE Submit(r)
    <2>1. req' \in [Requests -> Busy \cup {Idle}]
      BY <1>6, GotoTypes DEF Submit
    <2>2. provider' \in {"none", "pending", "success", "failed"}
      BY <1>6 DEF Submit, Taken, TypeOK
    <2>3. mishaps' \in 0..MishapLimit
      BY <1>6, MishapTypes DEF Submit
    <2> QED
      BY <1>6, <2>1, <2>2, <2>3 DEF Submit, TypeOK, records, ghosts
  <1>7. CASE Record(r)
    <2> DEFINE recorded == [issue EXCEPT !.request = TRUE]
               returned == [issue EXCEPT !.status = "ready_to_issue"]
    <2>1. \A new \in {recorded, returned} :
            new \in IssueRow
      BY <1>0, IssueFields DEF IssueStatuses
    <2> HIDE DEF recorded, returned
    <2>2. \E new \in {recorded, returned} : WriteIssue(r, new)
      BY <1>7 DEF Record, recorded, returned
    <2>3. req' \in [Requests -> Busy \cup {Idle}]
      BY <1>7, GotoTypes, FinishTypes DEF Record
    <2> QED
      BY <1>7, <2>1, <2>2, <2>3, WriteTypes DEF Record, TypeOK, IssueRow
  <1>8. CASE Ask(r)
    <2>1. req' \in [Requests -> Busy \cup {Idle}]
      BY <1>8, GotoTypes, FinishTypes DEF Ask
    <2>2. mishaps' \in 0..MishapLimit
      BY <1>8, MishapTypes DEF Ask
    <2> QED
      BY <1>8, <2>1, <2>2 DEF Ask, TypeOK, records, ghosts
  <1>9. CASE Confirm(r)
    <2> DEFINE new == [issue EXCEPT !.status = "issued"]
    <2>1. new \in IssueRow
      BY <1>0, IssueFields DEF IssueStatuses
    <2> HIDE DEF new
    <2>2. WriteIssue(r, new)
      BY <1>9 DEF Confirm, new
    <2> QED
      BY <1>9, <2>1, <2>2, WriteTypes, FinishTypes DEF Confirm, TypeOK, IssueRow
  <1>10. CASE Fail(r)
    <2> DEFINE n == issue.attempt + 1
               m == IF n > MaxAttempts THEN issue.attempt ELSE n
               row == [issue EXCEPT !.attempt = m]
               new == [issue EXCEPT
                 !.status = IF n >= MaxAttempts THEN "failed" ELSE "ready_to_issue",
                 !.attempt = IF n > MaxAttempts THEN @ ELSE n]
    <2>0. m \in 0..MaxAttempts
      BY <1>0, AttemptAssumption DEF IssueRow
    <2>3. row \in IssueRow
      BY <1>0, <2>0, IssueFields
    <2>1. new \in IssueRow
      <3>1. new = [row EXCEPT !.status = IF n >= MaxAttempts THEN "failed"
                                         ELSE "ready_to_issue"]
        BY DEF IssueRow
      <3>2. (IF n >= MaxAttempts THEN "failed" ELSE "ready_to_issue") \in IssueStatuses
        BY DEF IssueStatuses
      <3> HIDE DEF row, new, n
      <3> QED
        BY <2>3, <3>1, <3>2, IssueFields
    <2> HIDE DEF new, row, m
    <2>2. WriteIssue(r, new)
      BY <1>10 DEF Fail, new
    <2> QED
      BY <1>10, <2>1, <2>2, WriteTypes, FinishTypes DEF Fail, TypeOK, IssueRow
  <1> QED
    BY <1>1, <1>2, <1>3, <1>4, <1>5, <1>6, <1>7, <1>8, <1>9, <1>10 DEF Step

LEMMA NextTypeOK == TypeOK /\ [Next]_vars => TypeOK'
  <1>1. ASSUME TypeOK, Next PROVE TypeOK'
    BY <1>1, OtherTypes, BeginTypes, StepTypes DEF Next
  <1>2. ASSUME TypeOK, UNCHANGED vars PROVE TypeOK'
    BY <1>2 DEF TypeOK, vars, records, ghosts
  <1> QED
    BY <1>1, <1>2

\* The variables have their types, and a request carries a status of the record
\* it is about to write.
THEOREM TypeCorrect == Spec => []TypeOK
BY InitTypeOK, NextTypeOK, PTL DEF Spec

-----------------------------------------------------------------------------
(* The inductive invariant *)

\* Points at which a request is going to write the issue.
AtWork(r) ==
    req[r].pc \in {"issue", "claim", "submit", "record", "ask", "confirm", "fail"}

\* Only a paid order is refunded, and the refund holds the issue it cancels.
RefundShape ==
    /\ refund.open => order.pay = "paid"
    /\ IssueLocked => issue.status \in {"wallet_required", "ready_to_issue"}

\* The payment creates the issue, and nobody works on an issue before.
BeforePayment ==
    /\ order.pay = "pending" => issue.status = "none"
    /\ issue.status = "none" => \A r \in Requests : ~AtWork(r)

\* What a request learnt of the provider stays true until it writes it down.
ProviderKnown ==
    \A r \in Requests : /\ req[r].pc = "confirm" => provider = "success"
                        /\ req[r].pc = "record" => provider # "none"

\* The issue of an undisturbed submitter is in flight.
SubmitterClaimed ==
    contested \/ \A r \in Requests : Submitting(r) => issue.status = "processing"

\* The refund leaves nothing to mint, but for what it noted or left open.
ClosedByRefund ==
    order.pay = "refunded" /\ ~issue.noted /\ ~loose
      => issue.status \in {"none", "cancelled", "issued"}

\* What the requests and the records keep to, beside their types.
RequestsAgree ==
    /\ CacheAgrees /\ RefundShape /\ BeforePayment
    /\ ProviderKnown /\ IssuedIsMinted
    /\ SubmitterClaimed /\ SingleSubmitter /\ ClosedByRefund

IInv == TypeOK /\ RequestsAgree

LEMMA InitIInv == Init => IInv
  <1> SUFFICES ASSUME Init PROVE RequestsAgree
    BY InitTypeOK DEF IInv
  <1>1. \A r \in Requests : req[r].pc = "idle"
    BY DEF Init, Idle
  <1> QED
    BY <1>1 DEF Init, NoRefund, RequestsAgree, CacheAgrees, RefundShape, IssueLocked,
       BeforePayment, AtWork, ProviderKnown, IssuedIsMinted, SubmitterClaimed,
       SingleSubmitter, Submitting, ClosedByRefund

\* Where the requests stand after a step of one of them.
LEMMA FinishPc ==
    ASSUME TypeOK, NEW r \in Requests, Finish(r)
    PROVE  \A s \in Requests : req'[s].pc = IF s = r THEN "idle" ELSE req[s].pc
BY DEF TypeOK, Finish, Idle

LEMMA GotoPc ==
    ASSUME TypeOK, NEW r \in Requests, NEW pc, Goto(r, pc)
    PROVE  \A s \in Requests : req'[s].pc = IF s = r THEN pc ELSE req[s].pc
  <1>1. req[r] \in Busy \cup {Idle}
    BY DEF TypeOK
  <1>2. [req[r] EXCEPT !.pc = pc].pc = pc
    BY <1>1 DEF Busy, Idle
  <1> QED
    BY <1>2 DEF TypeOK, Goto

\* A request that starts, stops or goes on without writing anything, and takes
\* none of the points that say something of the provider or of the issue.
LEMMA BeginKeeps ==
    ASSUME IInv, NEW r \in Requests, NEW pc,
           UNCHANGED <<goods, records, provider, refund, ghosts>>,
           \A s \in Requests : req'[s].pc = IF s = r THEN pc ELSE req[s].pc,
           pc \notin {"submit", "record", "confirm"},
           pc \in {"issue", "claim", "ask", "fail"} => issue.status # "none"
    PROVE  RequestsAgree'
  <1> USE DEF IInv, RequestsAgree, records, ghosts
  <1>1. (CacheAgrees /\ RefundShape /\ IssuedIsMinted /\ ClosedByRefund)'
    BY DEF CacheAgrees, RefundShape, IssueLocked, IssuedIsMinted, ClosedByRefund
  <1>2. BeforePayment'
    BY DEF BeforePayment, AtWork
  <1>3. ProviderKnown'
    BY DEF ProviderKnown
  <1>4. (SubmitterClaimed /\ SingleSubmitter)'
    BY DEF SubmitterClaimed, SingleSubmitter, Submitting
  <1> QED
    BY <1>1, <1>2, <1>3, <1>4

\* A write to the issue by a request that has been at work on it, after which
\* it is done or asks the provider.
LEMMA WriteKeeps ==
    ASSUME IInv, NEW r \in Requests, NEW new, NEW pc, WriteIssue(r, new), AtWork(r),
           \A s \in Requests : req'[s].pc = IF s = r THEN pc ELSE req[s].pc,
           pc \in {"idle", "ask"},
           UNCHANGED <<goods, order, commission, provider, refund>>,
           new.status # "none", new.noted = issue.noted,
           new.status = "issued" => provider = "success" \/ byHand',
           new.request => provider # "none"
    PROVE  RequestsAgree'
  <1> USE DEF IInv, RequestsAgree, WriteIssue
  <1>0. issue.status # "none"
    BY DEF BeforePayment
  <1>1. CacheAgrees' /\ RefundShape'
    BY DEF CacheAgrees, RefundShape, IssueLocked
  <1>2. BeforePayment'
    BY <1>0 DEF BeforePayment
  <1>3. ProviderKnown'
    BY DEF ProviderKnown
  <1>4. IssuedIsMinted'
    BY DEF IssuedIsMinted
  <1>5. (SubmitterClaimed /\ SingleSubmitter)'
    BY DEF SubmitterClaimed, SingleSubmitter, Submitting, TakenFrom
  <1>6. ClosedByRefund'
    BY <1>0 DEF ClosedByRefund
  <1> QED
    BY <1>1, <1>2, <1>3, <1>4, <1>5, <1>6

\* The payment, the wallet, the refund, the provider and time.
LEMMA OtherKeeps ==
    ASSUME IInv,
           \/ Pay \/ VerifyWallet \/ BeginRefund \/ CommitRefund \/ AbortRefund
           \/ MintSettles \/ TenMinutesPass
    PROVE  RequestsAgree'
  <1> USE DEF IInv, RequestsAgree, records, ghosts
  <1>0. issue \in IssueRow
    BY DEF TypeOK, IssueRow
  <1>1. CASE Pay
    <2>1. issue.status = "none" /\ order.pay = "pending" /\ ~refund.open
      BY <1>1 DEF Pay, BeforePayment, RefundShape
    <2>2. \A s \in Requests : ~AtWork(s)
      BY <2>1 DEF BeforePayment
    <2>3. PICK c \in {"pending", "cancelled", "none"} :
            /\ order' = [pay |-> "paid", status |-> "paid", commission |-> c]
            /\ commission' = [commission EXCEPT !.status = c]
      BY <1>1 DEF Pay
    <2>4. /\ issue'.status \in {"none", "ready_to_issue", "wallet_required"}
          /\ issue'.request = issue.request
      BY <1>0, <1>1 DEF Pay, IssueRow
    <2>5. UNCHANGED <<provider, refund, req, byHand, contested>>
      BY <1>1 DEF Pay
    <2>6. CacheAgrees'
      BY <2>3 DEF CacheAgrees, TypeOK
    <2>7. (RefundShape /\ BeforePayment /\ ClosedByRefund)'
      BY <2>1, <2>2, <2>3, <2>5 DEF RefundShape, IssueLocked, BeforePayment, AtWork, ClosedByRefund
    <2>8. (ProviderKnown /\ IssuedIsMinted)'
      BY <2>4, <2>5 DEF ProviderKnown, IssuedIsMinted
    <2>9. (SubmitterClaimed /\ SingleSubmitter)'
      BY <2>2, <2>5 DEF SubmitterClaimed, SingleSubmitter, Submitting, AtWork
    <2> QED
      BY <2>6, <2>7, <2>8, <2>9
  <1>2. CASE VerifyWallet
    <2>1. /\ issue.status = "wallet_required" /\ ~IssueLocked
          /\ issue'.status = "ready_to_issue"
          /\ issue'.request = issue.request /\ issue'.noted = issue.noted
          /\ UNCHANGED <<order, commission, provider, refund, req>>
          /\ UNCHANGED <<byHand, contested, loose>>
      BY <1>0, <1>2 DEF VerifyWallet, IssueRow
    <2>2. (CacheAgrees /\ RefundShape /\ BeforePayment /\ ClosedByRefund)'
      BY <2>1 DEF CacheAgrees, RefundShape, IssueLocked, BeforePayment, AtWork, ClosedByRefund
    <2>3. (ProviderKnown /\ IssuedIsMinted)'
      BY <2>1 DEF ProviderKnown, IssuedIsMinted
    <2>4. (SubmitterClaimed /\ SingleSubmitter)'
      BY <2>1 DEF SubmitterClaimed, SingleSubmitter, Submitting
    <2> QED
      BY <2>2, <2>3, <2>4
  <1>3. CASE BeginRefund
    <2>1. (CacheAgrees /\ RefundShape /\ BeforePayment /\ ClosedByRefund)'
      BY <1>3 DEF BeginRefund, CacheAgrees, RefundShape, IssueLocked, BeforePayment, AtWork,
         ClosedByRefund
    <2>2. (ProviderKnown /\ IssuedIsMinted)'
      BY <1>3 DEF BeginRefund, ProviderKnown, IssuedIsMinted
    <2>3. (SubmitterClaimed /\ SingleSubmitter)'
      BY <1>3 DEF BeginRefund, SubmitterClaimed, SingleSubmitter, Submitting
    <2> QED
      BY <2>1, <2>2, <2>3
  <1>4. CASE CommitRefund
    <2>1. /\ refund.open /\ order.pay = "paid" /\ refund' = NoRefund
          /\ order'.pay = "refunded"
          /\ issue'.status = (IF refund.cancels THEN "cancelled" ELSE issue.status)
          /\ issue'.request = issue.request
          /\ issue'.noted = (issue.noted \/ (~refund.cancels /\ issue.status = "processing"))
          /\ loose' = (loose \/ (~refund.cancels
               /\ issue.status \in {"failed", "ready_to_issue", "wallet_required"}))
          /\ UNCHANGED <<provider, req, byHand, contested>>
      BY <1>0, <1>4 DEF CommitRefund, RefundShape, IssueRow
    <2>2. CacheAgrees'
      BY <1>4 DEF CommitRefund, CacheAgrees, TypeOK
    <2>3. (RefundShape /\ BeforePayment)'
      BY <2>1 DEF RefundShape, IssueLocked, NoRefund, BeforePayment, AtWork
    <2>4. ClosedByRefund'
      BY <1>0, <2>1 DEF ClosedByRefund, IssueRow, IssueStatuses
    <2>5. (ProviderKnown /\ IssuedIsMinted)'
      BY <2>1 DEF ProviderKnown, IssuedIsMinted
    <2>6. (SubmitterClaimed /\ SingleSubmitter)'
      BY <2>1 DEF SubmitterClaimed, SingleSubmitter, Submitting, RefundShape, IssueLocked
    <2> QED
      BY <2>2, <2>3, <2>4, <2>5, <2>6
  <1>5. CASE AbortRefund
    <2>1. UNCHANGED <<order, commission, issue, provider, req, byHand, contested, loose>>
      BY <1>5 DEF AbortRefund
    <2>2. refund'.open = FALSE
      BY <1>5 DEF AbortRefund, NoRefund
    <2>3. (CacheAgrees /\ RefundShape /\ BeforePayment /\ ClosedByRefund)'
      BY <2>1, <2>2 DEF CacheAgrees, RefundShape, IssueLocked, BeforePayment, AtWork, ClosedByRefund
    <2>4. (ProviderKnown /\ IssuedIsMinted)'
      BY <2>1 DEF ProviderKnown, IssuedIsMinted
    <2>5. (SubmitterClaimed /\ SingleSubmitter)'
      BY <2>1 DEF SubmitterClaimed, SingleSubmitter, Submitting
    <2> QED
      BY <2>3, <2>4, <2>5
  <1>6. CASE MintSettles
    <2>1. /\ provider = "pending" /\ provider' \in {"success", "failed"}
          /\ UNCHANGED <<order, commission, issue, refund, req, byHand, contested, loose>>
      BY <1>6 DEF MintSettles
    <2>2. (CacheAgrees /\ RefundShape /\ BeforePayment /\ ClosedByRefund)'
      BY <2>1 DEF CacheAgrees, RefundShape, IssueLocked, BeforePayment, AtWork, ClosedByRefund
    <2>3. (ProviderKnown /\ IssuedIsMinted)'
      BY <2>1 DEF ProviderKnown, IssuedIsMinted
    <2>4. (SubmitterClaimed /\ SingleSubmitter)'
      BY <2>1 DEF SubmitterClaimed, SingleSubmitter, Submitting
    <2> QED
      BY <2>2, <2>3, <2>4
  <1>7. CASE TenMinutesPass
    <2>1. UNCHANGED <<order, commission, issue, provider, refund, req,
                      byHand, contested, loose>>
      BY <1>7 DEF TenMinutesPass
    <2> QED
      BY <2>1 DEF CacheAgrees, RefundShape, IssueLocked, BeforePayment, AtWork,
         ClosedByRefund, ProviderKnown, IssuedIsMinted, SubmitterClaimed, SingleSubmitter,
         Submitting
  <1> QED
    BY <1>1, <1>2, <1>3, <1>4, <1>5, <1>6, <1>7

\* Requests that begin, and the crash.
LEMMA BeginsKeep ==
    ASSUME IInv, NEW r \in Requests,
           \/ \E to \in OrderStatuses : EditStatus(r, to)
           \/ \E to \in CommissionStatuses : EditCommission(r, to)
           \/ \E to \in IssueStatuses : EditIssue(r, to)
           \/ Export(r) \/ Mint(r) \/ Poll(r) \/ Crash(r)
    PROVE  RequestsAgree'
  <1> USE DEF IInv
  <1>1. ASSUME NEW to \in OrderStatuses, EditStatus(r, to) PROVE RequestsAgree'
    <2>1. \A s \in Requests : req'[s].pc = IF s = r THEN "status" ELSE req[s].pc
      BY <1>1 DEF EditStatus, TypeOK
    <2> QED
      BY <1>1, <2>1, BeginKeeps DEF EditStatus
  <1>2. ASSUME NEW to \in CommissionStatuses, EditCommission(r, to) PROVE RequestsAgree'
    <2>1. \A s \in Requests : req'[s].pc = IF s = r THEN "commission" ELSE req[s].pc
      BY <1>2 DEF EditCommission, TypeOK
    <2> QED
      BY <1>2, <2>1, BeginKeeps DEF EditCommission
  <1>3. ASSUME NEW to \in IssueStatuses, EditIssue(r, to) PROVE RequestsAgree'
    <2>1. \A s \in Requests : req'[s].pc = IF s = r THEN "issue" ELSE req[s].pc
      BY <1>3 DEF EditIssue, TypeOK
    <2> QED
      BY <1>3, <2>1, BeginKeeps DEF EditIssue
  <1>4. CASE Export(r)
    <2>1. \A s \in Requests : req'[s].pc = IF s = r THEN "export" ELSE req[s].pc
      BY <1>4 DEF Export, TypeOK
    <2> QED
      BY <1>4, <2>1, BeginKeeps DEF Export
  <1>5. CASE Mint(r)
    <2>1. \A s \in Requests : req'[s].pc = IF s = r THEN "claim" ELSE req[s].pc
      BY <1>5 DEF Mint, TypeOK
    <2> QED
      BY <1>5, <2>1, BeginKeeps DEF Mint
  <1>6. CASE Poll(r)
    <2> DEFINE pc == IF issue.request THEN "ask" ELSE "fail"
    <2>1. \A s \in Requests : req'[s].pc = IF s = r THEN pc ELSE req[s].pc
      BY <1>6 DEF Poll, TypeOK
    <2>2. pc \in {"ask", "fail"} /\ issue.status # "none"
      BY <1>6 DEF Poll
    <2> HIDE DEF pc
    <2> QED
      BY <1>6, <2>1, <2>2, BeginKeeps DEF Poll
  <1>7. CASE Crash(r)
    <2>1. \A s \in Requests : req'[s].pc = IF s = r THEN "idle" ELSE req[s].pc
      BY <1>7, FinishPc DEF Crash
    <2> QED
      BY <1>7, <2>1, BeginKeeps DEF Crash
  <1> QED
    BY <1>1, <1>2, <1>3, <1>4, <1>5, <1>6, <1>7

\* The steps of the requests that have begun.
LEMMA StepsKeep ==
    ASSUME IInv, NEW r \in Requests, Step(r)
    PROVE  RequestsAgree'
  <1> USE DEF IInv
  <1>0. issue \in IssueRow
    BY DEF TypeOK, IssueRow
  <1>1. CASE WriteStatus(r)
    <2>1. \A s \in Requests : req'[s].pc = IF s = r THEN "idle" ELSE req[s].pc
      BY <1>1, FinishPc DEF WriteStatus
    <2>2. order'.pay = order.pay /\ order'.commission = order.commission
      BY <1>1 DEF WriteStatus, TypeOK
    <2>3. UNCHANGED <<commission, issue, provider, refund, byHand, contested, loose>>
      BY <1>1 DEF WriteStatus, ghosts
    <2>4. (CacheAgrees /\ RefundShape /\ BeforePayment /\ ClosedByRefund)'
      BY <2>1, <2>2, <2>3 DEF RequestsAgree, CacheAgrees, RefundShape, IssueLocked,
         BeforePayment, AtWork, ClosedByRefund
    <2>5. (ProviderKnown /\ IssuedIsMinted)'
      BY <2>1, <2>3 DEF RequestsAgree, ProviderKnown, IssuedIsMinted
    <2>6. (SubmitterClaimed /\ SingleSubmitter)'
      BY <2>1, <2>3 DEF RequestsAgree, SubmitterClaimed, SingleSubmitter, Submitting
    <2> QED
      BY <2>4, <2>5, <2>6 DEF RequestsAgree
  <1>2. CASE WriteCommission(r)
    <2>1. \A s \in Requests : req'[s].pc = IF s = r THEN "idle" ELSE req[s].pc
      BY <1>2, FinishPc DEF WriteCommission
    <2>2. order'.pay = order.pay /\ order'.commission = commission'.status
      BY <1>2 DEF WriteCommission, TypeOK
    <2>3. UNCHANGED <<issue, provider, refund, byHand, contested, loose>>
      BY <1>2 DEF WriteCommission, ghosts
    <2>4. (CacheAgrees /\ RefundShape /\ BeforePayment /\ ClosedByRefund)'
      BY <2>1, <2>2, <2>3 DEF RequestsAgree, CacheAgrees, RefundShape, IssueLocked,
         BeforePayment, AtWork, ClosedByRefund
    <2>5. (ProviderKnown /\ IssuedIsMinted)'
      BY <2>1, <2>3 DEF RequestsAgree, ProviderKnown, IssuedIsMinted
    <2>6. (SubmitterClaimed /\ SingleSubmitter)'
      BY <2>1, <2>3 DEF RequestsAgree, SubmitterClaimed, SingleSubmitter, Submitting
    <2> QED
      BY <2>4, <2>5, <2>6 DEF RequestsAgree
  <1>3. CASE WriteIssueStatus(r)
    <2> DEFINE new == [issue EXCEPT !.status = req[r].to]
    <2>1. \A s \in Requests : req'[s].pc = IF s = r THEN "idle" ELSE req[s].pc
      BY <1>3, FinishPc DEF WriteIssueStatus
    <2>2. req[r].to \in IssueStatuses
      BY <1>3 DEF WriteIssueStatus, TypeOK, Busy, Idle
    <2>3. /\ new.status = req[r].to /\ new.noted = issue.noted
          /\ new.request = issue.request
      BY <1>0 DEF IssueRow
    <2> HIDE DEF new
    <2>4. WriteIssue(r, new) /\ AtWork(r)
      BY <1>3 DEF WriteIssueStatus, new, AtWork
    <2>5. new.status # "none"
      BY <2>2, <2>3 DEF IssueStatuses
    <2>6. byHand' = (byHand \/ req[r].to = "issued")
      BY <1>3 DEF WriteIssueStatus
    <2>7. new.request => provider # "none"
      BY <2>3 DEF RequestsAgree, IssuedIsMinted
    <2> QED
      BY <1>3, <2>1, <2>3, <2>4, <2>5, <2>6, <2>7, WriteKeeps DEF WriteIssueStatus
  <1>4. CASE Claim(r)
    <2>1. CASE issue.status = "ready_to_issue"
      <3>1. \A s \in Requests : req'[s].pc = IF s = r THEN "submit" ELSE req[s].pc
        BY <1>4, <2>1 DEF Claim, TypeOK
      <3>2. /\ ~IssueLocked
            /\ issue'.status = "processing"
            /\ issue'.request = issue.request /\ issue'.noted = issue.noted
            /\ UNCHANGED <<order, commission, provider, refund>>
            /\ UNCHANGED <<byHand, contested, loose>>
        BY <1>0, <1>4, <2>1 DEF Claim, IssueRow, ghosts
      <3>3. (CacheAgrees /\ RefundShape /\ BeforePayment /\ ClosedByRefund)'
        BY <2>1, <3>1, <3>2 DEF RequestsAgree, CacheAgrees, RefundShape, IssueLocked,
           BeforePayment, AtWork, ClosedByRefund
      <3>4. (ProviderKnown /\ IssuedIsMinted)'
        BY <3>1, <3>2 DEF RequestsAgree, ProviderKnown, IssuedIsMinted
      <3>5. (SubmitterClaimed /\ SingleSubmitter)'
        BY <2>1, <3>1, <3>2 DEF RequestsAgree, SubmitterClaimed, SingleSubmitter, Submitting
      <3> QED
        BY <3>3, <3>4, <3>5 DEF RequestsAgree
    <2>2. CASE issue.status # "ready_to_issue"
      <3>1. \A s \in Requests : req'[s].pc = IF s = r THEN "idle" ELSE req[s].pc
        BY <1>4, <2>2, FinishPc DEF Claim
      <3> QED
        BY <1>4, <2>2, <3>1, BeginKeeps DEF Claim, records, ghosts
    <2> QED
      BY <2>1, <2>2
  <1>5. CASE ReturnForWallet(r)
    <2> DEFINE new == [issue EXCEPT !.status = "wallet_required"]
    <2>1. \A s \in Requests : req'[s].pc = IF s = r THEN "idle" ELSE req[s].pc
      BY <1>5, FinishPc DEF ReturnForWallet
    <2>2. /\ new.status = "wallet_required" /\ new.noted = issue.noted
          /\ new.request = issue.request
      BY <1>0 DEF IssueRow
    <2> HIDE DEF new
    <2>3. WriteIssue(r, new) /\ AtWork(r)
      BY <1>5 DEF ReturnForWallet, new, AtWork
    <2>4. new.request => provider # "none"
      BY <2>2 DEF RequestsAgree, IssuedIsMinted
    <2> QED
      BY <1>5, <2>1, <2>2, <2>3, <2>4, WriteKeeps DEF ReturnForWallet
  <1>6. CASE Submit(r)
    <2>1. PICK pc \in {"record", "fail"} :
            /\ \A s \in Requests : req'[s].pc = IF s = r THEN pc ELSE req[s].pc
            /\ pc = "record" => provider' # "none"
      BY <1>6, GotoPc DEF Submit, Taken
    <2>2. /\ req[r].pc = "submit"
          /\ provider # "none" => provider' # "none"
          /\ provider = "success" => provider' = "success"
          /\ UNCHANGED <<order, commission, issue, refund, byHand, contested, loose>>
      BY <1>6 DEF Submit, Taken, records, ghosts
    <2>3. (CacheAgrees /\ RefundShape /\ BeforePayment /\ ClosedByRefund)'
      BY <2>1, <2>2 DEF RequestsAgree, CacheAgrees, RefundShape, IssueLocked, BeforePayment,
         AtWork, ClosedByRefund
    <2>4. (ProviderKnown /\ IssuedIsMinted)'
      BY <2>1, <2>2 DEF RequestsAgree, ProviderKnown, IssuedIsMinted
    <2>5. (SubmitterClaimed /\ SingleSubmitter)'
      BY <2>1, <2>2 DEF RequestsAgree, SubmitterClaimed, SingleSubmitter, Submitting
    <2> QED
      BY <2>3, <2>4, <2>5 DEF RequestsAgree
  <1>7. CASE Record(r)
    <2>0. req[r].pc = "record" /\ AtWork(r) /\ provider # "none"
      BY <1>7 DEF Record, AtWork, RequestsAgree, ProviderKnown
    <2>1. issue.status # "none" /\ issue.status # "processing" => contested
      BY <2>0 DEF RequestsAgree, SubmitterClaimed, Submitting
    <2>2. CASE WriteIssue(r, [issue EXCEPT !.request = TRUE]) /\ Goto(r, "ask")
      <3> DEFINE new == [issue EXCEPT !.request = TRUE]
      <3>1. \A s \in Requests : req'[s].pc = IF s = r THEN "ask" ELSE req[s].pc
        BY <2>2, GotoPc
      <3>2. new.status = issue.status /\ new.noted = issue.noted
        BY <1>0 DEF IssueRow
      <3> HIDE DEF new
      <3>3. WriteIssue(r, new)
        BY <2>2 DEF new
      <3>4. issue.status # "none" /\ (issue.status = "issued" => provider = "success" \/ byHand)
        BY <2>0 DEF RequestsAgree, BeforePayment, IssuedIsMinted
      <3>5. byHand' = byHand
        BY <1>7 DEF Record
      <3> QED
        BY <1>7, <2>0, <3>1, <3>2, <3>3, <3>4, <3>5, WriteKeeps DEF Record
    <2>3. CASE WriteIssue(r, [issue EXCEPT !.status = "ready_to_issue"]) /\ Finish(r)
      <3> DEFINE new == [issue EXCEPT !.status = "ready_to_issue"]
      <3>1. \A s \in Requests : req'[s].pc = IF s = r THEN "idle" ELSE req[s].pc
        BY <2>3, FinishPc
      <3>2. new.status = "ready_to_issue" /\ new.noted = issue.noted
        BY <1>0 DEF IssueRow
      <3> HIDE DEF new
      <3>3. WriteIssue(r, new)
        BY <2>3 DEF new
      <3> QED
        BY <1>7, <2>0, <3>1, <3>2, <3>3, WriteKeeps DEF Record
    <2> QED
      BY <1>7, <2>2, <2>3 DEF Record
  <1>8. CASE Ask(r)
    <2>1. PICK pc \in {"confirm", "idle", "fail"} :
            /\ \A s \in Requests : req'[s].pc = IF s = r THEN pc ELSE req[s].pc
            /\ pc = "confirm" => provider = "success"
      <3>1. \/ provider = "success" /\ Goto(r, "confirm")
            \/ Finish(r)
            \/ Goto(r, "fail")
        BY <1>8 DEF Ask
      <3>2. \A p : Goto(r, p) =>
              \A s \in Requests : req'[s].pc = IF s = r THEN p ELSE req[s].pc
        BY GotoPc
      <3> QED
        BY <3>1, <3>2, FinishPc
    <2>2. CASE pc = "confirm"
      <3>1. /\ req[r].pc = "ask"
            /\ UNCHANGED <<order, commission, issue, provider, refund, byHand, contested, loose>>
        BY <1>8 DEF Ask, records, ghosts
      <3>2. (CacheAgrees /\ RefundShape /\ BeforePayment /\ ClosedByRefund)'
        BY <2>1, <3>1 DEF RequestsAgree, CacheAgrees, RefundShape, IssueLocked, BeforePayment,
           AtWork, ClosedByRefund
      <3>3. (ProviderKnown /\ IssuedIsMinted)'
        BY <2>1, <3>1 DEF RequestsAgree, ProviderKnown, IssuedIsMinted
      <3>4. (SubmitterClaimed /\ SingleSubmitter)'
        BY <2>1, <2>2, <3>1 DEF RequestsAgree, SubmitterClaimed, SingleSubmitter, Submitting
      <3> QED
        BY <3>2, <3>3, <3>4 DEF RequestsAgree
    <2>3. CASE pc # "confirm"
      <3>1. issue.status # "none"
        BY <1>8 DEF Ask, RequestsAgree, BeforePayment, AtWork
      <3> QED
        BY <1>8, <2>1, <2>3, <3>1, BeginKeeps DEF Ask
    <2> QED
      BY <2>2, <2>3
  <1>9. CASE Confirm(r)
    <2> DEFINE new == [issue EXCEPT !.status = "issued"]
    <2>1. \A s \in Requests : req'[s].pc = IF s = r THEN "idle" ELSE req[s].pc
      BY <1>9, FinishPc DEF Confirm
    <2>2. new.status = "issued" /\ new.noted = issue.noted
      BY <1>0 DEF IssueRow
    <2> HIDE DEF new
    <2>3. WriteIssue(r, new) /\ AtWork(r)
      BY <1>9 DEF Confirm, new, AtWork
    <2>4. provider = "success"
      BY <1>9 DEF Confirm, RequestsAgree, ProviderKnown
    <2> QED
      BY <1>9, <2>1, <2>2, <2>3, <2>4, WriteKeeps DEF Confirm
  <1>10. CASE Fail(r)
    <2> DEFINE n == issue.attempt + 1
               new == [issue EXCEPT
                 !.status = IF n >= MaxAttempts THEN "failed" ELSE "ready_to_issue",
                 !.attempt = IF n > MaxAttempts THEN @ ELSE n]
    <2>1. \A s \in Requests : req'[s].pc = IF s = r THEN "idle" ELSE req[s].pc
      BY <1>10, FinishPc DEF Fail
    <2>2. /\ new.status \in {"failed", "ready_to_issue"} /\ new.noted = issue.noted
          /\ new.request = issue.request
      BY <1>0 DEF IssueRow
    <2> HIDE DEF new
    <2>3. WriteIssue(r, new) /\ AtWork(r)
      BY <1>10 DEF Fail, new, AtWork
    <2>4. new.request => provider # "none"
      BY <2>2 DEF RequestsAgree, IssuedIsMinted
    <2> QED
      BY <1>10, <2>1, <2>2, <2>3, <2>4, WriteKeeps DEF Fail
  <1> QED
    BY <1>1, <1>2, <1>3, <1>4, <1>5, <1>6, <1>7, <1>8, <1>9, <1>10 DEF Step

LEMMA NextIInv == IInv /\ [Next]_vars => IInv'
  <1>1. ASSUME IInv, Next PROVE RequestsAgree'
    BY <1>1, OtherKeeps, BeginsKeep, StepsKeep DEF Next
  <1>2. ASSUME IInv, UNCHANGED vars PROVE RequestsAgree'
    BY <1>2 DEF IInv, vars, records, ghosts, RequestsAgree, CacheAgrees, RefundShape,
       IssueLocked, BeforePayment, AtWork, ProviderKnown, IssuedIsMinted, SubmitterClaimed,
       SingleSubmitter, Submitting, ClosedByRefund
  <1> QED
    BY <1>1, <1>2, NextTypeOK DEF IInv

LEMMA Invariant == Spec => []IInv
BY InitIInv, NextIInv, PTL DEF Spec

-----------------------------------------------------------------------------
(* Theorems *)

\* The commission's status on the order is that of the commissions row, through
\* payments, refunds, edits and exports that overlap.
THEOREM CacheAgreesHolds == Spec => []CacheAgrees
  <1>1. IInv => CacheAgrees
    BY DEF IInv, RequestsAgree
  <1> QED
    BY <1>1, Invariant, PTL

\* Two requests submit one issue only if it was taken from the one that claimed it.
THEOREM SingleSubmitterHolds == Spec => []SingleSubmitter
  <1>1. IInv => SingleSubmitter
    BY DEF IInv, RequestsAgree
  <1> QED
    BY <1>1, Invariant, PTL

\* What is marked issued was minted, or recorded by an operator.
THEOREM IssuedIsMintedHolds == Spec => []IssuedIsMinted
  <1>1. IInv => IssuedIsMinted
    BY DEF IInv, RequestsAgree
  <1> QED
    BY <1>1, Invariant, PTL

\* After a refund no mint starts that the refund did not leave to the operators.
THEOREM RefundStopsMintHolds == Spec => RefundStopsMint
  <1> DEFINE Starts == issue.status # "processing" /\ issue'.status = "processing"
                         => order.pay # "refunded" \/ issue.noted \/ loose \/ loose'
  <1>1. IInv /\ [Next]_vars => [Starts]_vars
    <2> SUFFICES ASSUME IInv, Next, issue.status # "processing",
                        issue'.status = "processing", ~loose, ~loose', ~issue.noted,
                        order.pay = "refunded"
                 PROVE  FALSE
      OBVIOUS
    <2>0. issue \in IssueRow
      BY DEF IInv, TypeOK, IssueRow
    <2>1. issue.status \in {"none", "cancelled", "issued"}
      BY DEF IInv, RequestsAgree, ClosedByRefund
    <2>2. issue.status = "none" => \A r \in Requests : ~AtWork(r)
      BY DEF IInv, RequestsAgree, BeforePayment
    <2>3. CASE \/ Pay \/ VerifyWallet \/ BeginRefund \/ CommitRefund \/ AbortRefund
               \/ MintSettles \/ TenMinutesPass
      <3>1. ~Pay /\ ~VerifyWallet /\ (CommitRefund => issue'.status # "processing")
        BY <2>0, <2>1 DEF Pay, VerifyWallet, CommitRefund, IssueRow
      <3> QED
        BY <2>3, <3>1 DEF BeginRefund, AbortRefund, MintSettles, TenMinutesPass, records
    <2>4. ASSUME NEW r \in Requests,
                 \/ \E to \in OrderStatuses : EditStatus(r, to)
                 \/ \E to \in CommissionStatuses : EditCommission(r, to)
                 \/ \E to \in IssueStatuses : EditIssue(r, to)
                 \/ Export(r) \/ Mint(r) \/ Poll(r) \/ Crash(r)
          PROVE  FALSE
      BY <2>4 DEF EditStatus, EditCommission, EditIssue, Export, Mint, Poll, Crash, records
    <2>5. ASSUME NEW r \in Requests, Step(r) PROVE FALSE
      <3>1. ASSUME NEW new, WriteIssue(r, new), AtWork(r) PROVE FALSE
        BY <2>1, <2>2, <3>1 DEF WriteIssue
      <3>2. ~Claim(r)
        BY <2>1 DEF Claim
      <3>3. WriteIssueStatus(r) \/ ReturnForWallet(r) \/ Record(r) \/ Confirm(r) \/ Fail(r)
              => AtWork(r) /\ \E new : WriteIssue(r, new)
        BY DEF WriteIssueStatus, ReturnForWallet, Record, Confirm, Fail, AtWork
      <3> QED
        BY <2>5, <3>1, <3>2, <3>3 DEF Step, WriteStatus, WriteCommission, Submit, Ask, records
    <2> QED
      BY <2>3, <2>4, <2>5 DEF Next
  <1> QED
    BY <1>1, Invariant, PTL DEF Spec, RefundStopsMint
=============================================================================

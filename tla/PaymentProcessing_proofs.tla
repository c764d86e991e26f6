----------------------- MODULE PaymentProcessing_proofs -----------------------
(***************************************************************************)
(* Proofs about PaymentProcessing that need no order of calls: type        *)
(* correctness; that no payment is recorded complete before one PAY of it  *)
(* reached the operator; and that the payment thread leaves a payment of   *)
(* an online provider to the worker.                                       *)
(***************************************************************************)
EXTENDS PaymentProcessing, TLAPS

-----------------------------------------------------------------------------
(* What the operators the actions are built from return.                   *)

\* The answers of the server, and the states it leaves its sessions in.
LEMMA CheckType ==
    ASSUME NEW s \in SessionStates, NEW r \in Check(s)
    PROVE  r[1] \in SessionStates /\ r[2] \in Answers \union {"none"}
BY DEF Check, SessionStates, Answers, CheckAnswers

\* The answers to PAY, and the states it leaves a session in.
LEMMA PayType ==
    ASSUME NEW s \in SessionStates, NEW r \in Pay(s)
    PROVE  r[1] \in SessionStates /\ r[2] \in Answers \union {"none"}
BY DEF Pay, SessionStates, Answers, PayAnswers

\* The answers to STATUS.
LEMMA StatusType ==
    ASSUME NEW s \in SessionStates, NEW r \in Status(s)
    PROVE  r \in Answers \union {"none"}
BY DEF Status, SessionStates, Answers, StatusAnswers

\* The payment system settles a session into one of its states.
LEMMA SettleType ==
    ASSUME NEW s, NEW r \in Settle(s)
    PROVE  r \in SessionStates
BY DEF Settle, SessionStates

\* A CHECK takes no money.
LEMMA CheckTakesNothing ==
    ASSUME NEW s \in SessionStates, s \notin Charged, NEW r \in Check(s)
    PROVE  r[1] \notin Charged
BY DEF Check, SessionStates, Charged

\* The server never says of a session that took money that it is not paid.
LEMMA StatusTruthful ==
    ASSUME NEW s \in Charged
    PROVE  Status(s) \intersect SaysNotPaid = {}
BY DEF Status, Charged, SaysNotPaid

\* The kiosk's handling of an unsuccessful answer yields a payment.
LEMMA SetProcessErrorType ==
    ASSUME NEW p \in Payment, NEW n \in BOOLEAN
    PROVE  SetProcessError(p, n) \in Payment
<1> DEFINE st == IF p.tries > TriesLimit THEN "BadPayment" ELSE "ProcessError"
           tr == IF ~n THEN Counted(p.tries) ELSE IF p.tries = 0 THEN 1 ELSE p.tries
<1>1. p.tries \in 0 .. TriesLimit + 1
  BY DEF Payment
<1>2. tr \in 0 .. TriesLimit + 1
  BY <1>1, LimitAssumption DEF Counted
<1>3. st \in Statuses
  BY DEF Statuses, Queued
<1>4. SetProcessError(p, n) = [p EXCEPT !.status = st, !.tries = tr]
  BY DEF SetProcessError, Payment
<1> HIDE DEF st, tr
<1>5. QED
  BY <1>2, <1>3, <1>4 DEF Payment

\* The payment of createPayment and the empty row.
LEMMA DummyType == NewPayment \in Payment /\ Dummy \in Payment /\ ~Dummy.stepSet
BY LimitAssumption DEF NewPayment, Dummy, Payment, Statuses, Queued

\* Setting one parameter of a payment to a value of its kind yields a payment.
LEMMA SetParameterType ==
    ASSUME NEW p \in Payment
    PROVE  /\ \A v \in Statuses : [p EXCEPT !.status = v] \in Payment
           /\ \A v \in {"Online", "Offline", "Low"} : [p EXCEPT !.priority = v] \in Payment
           /\ \A v \in Sessions \union {NoSession} : [p EXCEPT !.session = v] \in Payment
           /\ \A v \in {"Init", "Pay"} : SetStep(p, v) \in Payment
BY DEF Payment, SetStep

\* What isStored compares of a payment.
LEMMA SignatureType ==
    ASSUME NEW p \in Payment
    PROVE  Signature(p) \in Statuses \X {"Init", "Pay"} \X (Sessions \union {NoSession})
BY DEF Payment, Signature

\* A saved object is a payment with no parameter marked as updated.
LEMMA SavedType ==
    ASSUME row \in Payment, NEW p \in Payment
    PROVE  Saved(p) \in Payment /\ ~Saved(p).stepSet
<1> DEFINE st == IF p.stepSet THEN p.step ELSE row.step
<1>1. st \in {"Init", "Pay"}
  BY DEF Payment
<1>2. Saved(p) = [p EXCEPT !.step = st, !.stepSet = FALSE]
  BY DEF Saved
<1> HIDE DEF st
<1>3. QED
  BY <1>1, <1>2 DEF Payment

\* A failed attempt turns a payment into a payment.
LEMMA FailedType ==
    ASSUME NEW a \in Actors, Own(a) \in Payment
    PROVE  Failed(a) \in Payment
<1> DEFINE p == SetProcessError(Own(a), answer[a] = "net")
<1>1. p \in Payment
  BY SetProcessErrorType
<1>2. [p EXCEPT !.status = "BadPayment", !.priority = "Low"] \in Payment
  BY <1>1 DEF Payment, Statuses
<1>3. QED
  BY <1>1, <1>2 DEF Failed

-----------------------------------------------------------------------------
(* Type correctness.  A process reads the object it holds, so that its     *)
(* type is that of a payment only where Holding says that there is one.    *)

TInv == TypeOK /\ Holding

\* An action of the scenario that sets the shared object to a payment.
LEMMA ChangeAndSaveType ==
    ASSUME TInv, NEW p \in Payment, ChangeAndSave(p)
    PROVE  TInv'
BY DEF TInv, TypeOK, Holding, ChangeAndSave, UiUnchanged, Goto, Procs, Actors, Objects,
       HoldsObject, Processing

\* An actor that holds an object holds one of the two, and a payment in it.
LEMMA OwnType ==
    ASSUME TInv, NEW a \in Actors, pc[a] \in HoldsObject
    PROVE  use[a] \in Objects /\ Own(a) \in Payment
BY DEF TInv, TypeOK, Holding, Own, Objects, Actors, NoObject

\* getPayment gives a process an object.
LEMMA GetPaymentType ==
    ASSUME TInv, NEW a \in Actors, NEW p \in Payment, GetPayment(a, p)
    PROVE  /\ mem' \in [Objects -> Payment]
           /\ use' = [use EXCEPT ![a] = IF active THEN "shared" ELSE a]
           /\ row' \in Payment /\ ~row'.stepSet
           /\ rowSig' \in {NoSignature} \union
                 (Statuses \X {"Init", "Pay"} \X (Sessions \union {NoSession}))
           /\ faults' \in 0 .. MaxFaults
<1>1. LoadedPayment \in Payment /\ (~active => ~LoadedPayment.stepSet)
  <2>1. row \in Payment /\ ~row.stepSet /\ mem["shared"] \in Payment
    BY DEF TInv, TypeOK, Objects
  <2>2. [row EXCEPT !.status = "Cheated"] \in Payment /\ ~[row EXCEPT !.status = "Cheated"].stepSet
    BY <2>1 DEF Payment, Statuses
  <2>3. QED
    BY <2>1, <2>2 DEF LoadedPayment
<1>2. CASE UNCHANGED <<row, rowSig, faults>>
  BY <1>2 DEF GetPayment, TInv, TypeOK, LoadedObject, Objects, Actors
<1>3. CASE ~active /\ ~Genuine /\ SaveCheated
  <2>1. CASE row' = LoadedPayment /\ rowSig' = Signature(LoadedPayment) /\ UNCHANGED faults
    BY <1>1, <1>3, <2>1, SignatureType DEF GetPayment, TInv, TypeOK, LoadedObject, Objects, Actors
  <2>2. CASE FailWrite
    BY <1>3, <2>2, LimitAssumption DEF GetPayment, TInv, TypeOK, LoadedObject, Objects, Actors, FailWrite
  <2>3. QED
    BY <1>3, <2>1, <2>2 DEF SaveCheated
<1>4. QED
  BY <1>2, <1>3 DEF GetPayment

\* A process that held none goes on with the object getPayment gave it.
LEMMA GoOnType ==
    ASSUME TInv, NEW a \in Actors, NEW p \in Payment, NEW l \in HoldsObject,
           GetPayment(a, p), Goto(a, l), UNCHANGED <<server, active, sig>>,
           answer' \in [Actors -> Answers \union {"none"}], held' \in Sessions \union {NoSession}
    PROVE  TInv'
<1>1. /\ mem' \in [Objects -> Payment]
      /\ use' = [use EXCEPT ![a] = IF active THEN "shared" ELSE a]
      /\ row' \in Payment /\ ~row'.stepSet
      /\ rowSig' \in {NoSignature} \union
            (Statuses \X {"Init", "Pay"} \X (Sessions \union {NoSession}))
      /\ faults' \in 0 .. MaxFaults
  BY GetPaymentType
<1>2. pc' = [pc EXCEPT ![a] = l]
  BY DEF Goto
<1>3. TypeOK'
  <2>1. use' \in [Actors -> Objects \union {NoObject}]
    BY <1>1 DEF TInv, TypeOK, Objects, Actors
  <2>2. QED
    BY <1>1, <1>2, <2>1 DEF TInv, TypeOK, HoldsObject, Processing
<1>4. Holding'
  <2>1. ASSUME NEW b \in Actors, b # a
        PROVE  pc'[b] = pc[b] /\ use'[b] = use[b]
    BY <1>1, <1>2, <2>1 DEF TInv, TypeOK
  <2>2. pc'[a] = l /\ use'[a] = IF active THEN "shared" ELSE a
    BY <1>1, <1>2 DEF TInv, TypeOK, Procs
  <2>3. l \notin {"closing", "dropping"} /\ "shared" # a /\ NoObject \notin {"shared", a}
    BY DEF HoldsObject, Processing, Actors, NoObject
  <2>4. QED
    BY <2>1, <2>2, <2>3 DEF TInv, Holding
<1>5. QED
  BY <1>3, <1>4 DEF TInv

\* What is read from the database is a payment.
LEMMA LoadedType == TInv => LoadedPayment \in Payment
<1> SUFFICES ASSUME TInv PROVE LoadedPayment \in Payment
  OBVIOUS
<1>1. row \in Payment /\ mem["shared"] \in Payment
  BY DEF TInv, TypeOK, Objects
<1>2. [row EXCEPT !.status = "Cheated"] \in Payment
  BY <1>1, SetParameterType DEF Statuses
<1>3. QED
  BY <1>1, <1>2 DEF LoadedPayment

\* The handling of an answer keeps the object's type if it yields a payment.
LEMMA HandleType ==
    ASSUME TInv, NEW a \in Actors, NEW p \in Payment, NEW l \in HoldsObject,
           pc[a] \in HoldsObject, Handle(a, p, l)
    PROVE  TInv'
<1>1. use[a] \in Objects
  BY OwnType
<1>2. QED
  BY <1>1 DEF TInv, TypeOK, Holding, Handle, SetOwn, Goto, ProcessUnchanged, Procs, Actors,
             HoldsObject, Processing

\* Letting go of an object.
LEMMA ReleaseType ==
    ASSUME TInv, NEW a \in Actors, Release(a)
    PROVE  /\ mem' \in [Objects -> Payment]
           /\ use' = [use EXCEPT ![a] = NoObject]
BY DummyType DEF TInv, TypeOK, Release

\* The types at the first start.
LEMMA TypeInit == Init => TInv
BY DummyType, SessionAssumption, LimitAssumption
   DEF Init, TInv, TypeOK, Holding, Procs, Actors, Objects, SessionStates, HoldsObject, Processing,
       NoObject

\* A write of the row, or the failure of one.
LEMMA WriteType ==
    ASSUME TInv, NEW p \in Procs, Object(p) \in Objects, MayWriteRow(p)
    PROVE  /\ row' \in Payment /\ ~row'.stepSet
           /\ rowSig' \in {NoSignature} \union
                 (Statuses \X {"Init", "Pay"} \X (Sessions \union {NoSession}))
           /\ faults' \in 0 .. MaxFaults
<1>1. row \in Payment /\ ~row.stepSet /\ mem[Object(p)] \in Payment
  BY DEF TInv, TypeOK
<1>2. CASE WriteRow(p)
  BY <1>1, <1>2, SavedType DEF WriteRow, TInv, TypeOK
<1>3. CASE FailWrite
  BY <1>1, <1>3, LimitAssumption DEF FailWrite, TInv, TypeOK
<1>4. QED
  BY <1>2, <1>3 DEF MayWriteRow

\* A step of the scenario keeps the types.
LEMMA TypeUi == TInv /\ Ui => TInv'
<1> SUFFICES ASSUME TInv, Ui PROVE TInv'
  OBVIOUS
<1> DEFINE m == mem["shared"]
<1>0. m \in Payment
  BY DEF TInv, TypeOK, Objects
<1>1. CASE UiUpdate
  BY <1>0, <1>1, ChangeAndSaveType DEF UiUpdate
<1>2. CASE UiProcessOnline
  BY <1>2 DEF UiProcessOnline, UiUnchanged, Goto, TInv, TypeOK, Holding, Procs, Actors,
              HoldsObject, Processing
<1>3. CASE UiProcessOffline
  <2>1. [m EXCEPT !.priority = "Offline", !.status = "ReadyForCheck"] \in Payment
    BY <1>0 DEF Payment, Statuses, Queued
  <2>2. QED
    BY <1>3, <2>1, ChangeAndSaveType DEF UiProcessOffline
<1>4. CASE UiDataCheck
  BY <1>4 DEF UiDataCheck, UiUnchanged, Goto, TInv, TypeOK, Holding, Procs, Actors,
              HoldsObject, Processing
<1>5. CASE UiCancel
  <2>1. [m EXCEPT !.status = "Canceled"] \in Payment
    BY <1>0, SetParameterType DEF Statuses
  <2>2. QED
    BY <1>5, <2>1, ChangeAndSaveType DEF UiCancel
<1>6. CASE UiStop
  <2>1. [m EXCEPT !.status = "BadPayment"] \in Payment
    BY <1>0, SetParameterType DEF Statuses
  <2>2. QED
    BY <1>6, <2>1, ChangeAndSaveType DEF UiStop
<1>7. CASE UiDeactivate
  BY <1>7 DEF UiDeactivate, UiUnchanged, Goto, TInv, TypeOK, Holding, Procs, Actors,
              HoldsObject, Processing
<1>8. CASE UiAbandon
  BY <1>8, DummyType DEF UiAbandon, DropActive, UiUnchanged, TInv, TypeOK, Holding
<1>9. QED
  BY <1>1, <1>2, <1>3, <1>4, <1>5, <1>6, <1>7, <1>8 DEF Ui

\* A save keeps the types.
LEMMA TypeSaves == TInv /\ Saves => TInv'
<1> SUFFICES ASSUME TInv, Saves PROVE TInv'
  OBVIOUS
<1>1. ASSUME NEW p \in Procs, Sign(p) PROVE TInv'
  <2>1. Object(p) \in Objects
    BY <1>1, OwnType DEF Object, Sign, Signing, Objects, Procs, Actors, HoldsObject, Processing,
                         TInv, Holding
  <2>2. Signature(mem[Object(p)]) \in Statuses \X {"Init", "Pay"} \X (Sessions \union {NoSession})
    BY <2>1, SignatureType DEF TInv, TypeOK
  <2>3. QED
    BY <1>1, <2>2 DEF Sign, Signing, Goto, TInv, TypeOK, Holding, Procs, Actors, HoldsObject, Processing
<1>2. ASSUME NEW a \in Actors, WriteBeforePay(a) PROVE TInv'
  <2>1. Object(a) \in Objects /\ a \in Procs
    BY <1>2, OwnType DEF Object, WriteBeforePay, Procs, Actors, HoldsObject, Processing
  <2>2. MayWriteRow(a)
    BY <1>2 DEF WriteBeforePay, MayWriteRow
  <2>3. \E l \in {"pay", "finish"} : Written(a, l)
    BY <1>2 DEF WriteBeforePay
  <2>4. QED
    BY <1>2, <2>1, <2>2, <2>3, WriteType
    DEF WriteBeforePay, Written, Goto, TInv, TypeOK, Holding, Procs, Actors, HoldsObject, Processing
<1>3. ASSUME NEW a \in Actors, WriteFound(a) PROVE TInv'
  <2>1. Object(a) \in Objects /\ a \in Procs
    BY <1>3, OwnType DEF Object, WriteFound, Procs, Actors, HoldsObject
  <2>2. QED
    BY <1>3, <2>1, WriteType
    DEF WriteFound, Written, Goto, TInv, TypeOK, Holding, Procs, Actors, HoldsObject, Processing
<1>4. ASSUME NEW a \in Actors, Finish(a) PROVE TInv'
  <2>1. Object(a) \in Objects /\ a \in Procs
    BY <1>4, OwnType DEF Object, Finish, Procs, Actors, HoldsObject
  <2>2. QED
    BY <1>4, <2>1, WriteType, ReleaseType
    DEF Finish, Written, Goto, TInv, TypeOK, Holding, Procs, Actors, HoldsObject, Processing, NoObject
<1>5. CASE UiFinish
  BY <1>5, WriteType
  DEF UiFinish, Written, Goto, TInv, TypeOK, Holding, Procs, Actors, Object, Objects, HoldsObject, Processing
<1>6. CASE UiDrop
  BY <1>6, WriteType, DummyType
  DEF UiDrop, DropActive, Written, Goto, TInv, TypeOK, Holding, Procs, Actors, Object, Objects,
      HoldsObject, Processing
<1>7. QED
  BY <1>1, <1>2, <1>3, <1>4, <1>5, <1>6 DEF Saves

\* The session a process asks about is one the server has a state for.
LEMMA StateOfType == TInv => \A s : StateOf(s) \in SessionStates
BY DEF TInv, TypeOK, StateOf, SessionStates

\* CHECK keeps the types, its answer and the new state of the session included.
LEMMA TypeSendCheck ==
    ASSUME TInv, NEW a \in Actors, SendCheck(a)
    PROVE  TInv'
<1>1. pc[a] \in HoldsObject /\ use[a] \in Objects /\ Own(a) \in Payment
  BY OwnType DEF SendCheck, HoldsObject, Processing
<1>2. PICK s \in Sessions : \E r \in Check(Renewed(s)) :
          /\ SetOwn(a, [Own(a) EXCEPT !.session = s])
          /\ server' = [server EXCEPT ![s] = r[1]]
          /\ answer' = [answer EXCEPT ![a] = r[2]]
  BY DEF SendCheck
<1>3. PICK r \in Check(Renewed(s)) :
          /\ SetOwn(a, [Own(a) EXCEPT !.session = s])
          /\ server' = [server EXCEPT ![s] = r[1]]
          /\ answer' = [answer EXCEPT ![a] = r[2]]
  BY <1>2
<1>4. Renewed(s) \in SessionStates
  BY DEF Renewed, TInv, TypeOK, SessionStates
<1>5. r[1] \in SessionStates /\ r[2] \in Answers \union {"none"}
  BY <1>4, CheckType
<1>6. [Own(a) EXCEPT !.session = s] \in Payment
  BY <1>1, SetParameterType
<1>7. QED
  BY <1>1, <1>3, <1>5, <1>6
  DEF SendCheck, SetOwn, Goto, ProcessUnchanged, TInv, TypeOK, Holding, Procs, Actors,
      HoldsObject, Processing

\* A step of a payment under processing keeps the types.
LEMMA TypeProcess ==
    ASSUME TInv, NEW a \in Actors, Process(a)
    PROVE  TInv'
<1>0. Statuses = {"Init", "ReadyForCheck", "ProcessError", "Completed", "Canceled",
                  "BadPayment", "Deleted", "Cheated"}
  BY DEF Statuses, Queued
<1>H. /\ {"process", "check", "recheck", "sign", "signDone", "pay", "payAnswer", "status",
           "finish"} \subseteq HoldsObject
      /\ pc[a] \in HoldsObject => use[a] \in Objects /\ Own(a) \in Payment /\ Failed(a) \in Payment
  BY OwnType, FailedType DEF HoldsObject, Processing
<1>1. CASE SendCheck(a)
  BY <1>1, TypeSendCheck
<1>2. CASE SendStatus(a)
  <2>1. PICK r \in Status(StateOf(Own(a).session)) : answer' = [answer EXCEPT ![a] = r]
    BY <1>2 DEF SendStatus, AskStatus
  <2>2. r \in Answers \union {"none"}
    BY StateOfType, StatusType
  <2>3. QED
    BY <1>2, <2>1, <2>2 DEF SendStatus, Goto, ProcessUnchanged, TInv, TypeOK, Holding, Procs, Actors,
                            HoldsObject, Processing
<1>3. CASE Skip(a)
  BY <1>3 DEF Skip, Goto, ProcessUnchanged, TInv, TypeOK, Holding, Procs, Actors,
              HoldsObject, Processing
<1>4. CASE CheckAccepted(a)
  BY <1>4, <1>H, HandleType, SetParameterType DEF CheckAccepted
<1>5. CASE CheckRefused(a)
  BY <1>5, <1>H, HandleType DEF CheckRefused
<1>6. CASE CheckExists(a)
  <2>1. PICK r \in Status(StateOf(Own(a).session)) : answer' = [answer EXCEPT ![a] = r]
    BY <1>6 DEF CheckExists, AskStatus
  <2>2. r \in Answers \union {"none"}
    BY StateOfType, StatusType
  <2>3. use[a] \in Objects /\ Failed(a) \in Payment
    BY <1>6, <1>H DEF CheckExists
  <2>4. QED
    BY <1>6, <2>1, <2>2, <2>3 DEF CheckExists, SetOwn, Goto, ProcessUnchanged, TInv, TypeOK, Holding,
                            Procs, Actors, HoldsObject, Processing
<1>7. CASE FoundComplete(a)
  <2>1. SetStep(Own(a), "Pay") \in Payment
    BY <1>7, <1>H, SetParameterType DEF FoundComplete
  <2>2. [SetStep(Own(a), "Pay") EXCEPT !.status = "Completed"] \in Payment
    BY <1>0, <2>1, SetParameterType
  <2>3. QED
    BY <1>7, <1>H, <2>2, HandleType DEF FoundComplete
<1>8. CASE FoundOpen(a)
  BY <1>8, <1>H, HandleType DEF FoundOpen
<1>9. CASE SendPay(a)
  <2>1. PICK r \in Pay(StateOf(Own(a).session)) :
          /\ server' = [s \in Sessions |-> IF s = Own(a).session THEN r[1] ELSE server[s]]
          /\ answer' = [answer EXCEPT ![a] = r[2]]
    BY <1>9 DEF SendPay
  <2>2. r[1] \in SessionStates /\ r[2] \in Answers \union {"none"}
    BY StateOfType, PayType
  <2>3. QED
    BY <1>9, <2>1, <2>2 DEF SendPay, Goto, ProcessUnchanged, TInv, TypeOK, Holding, Procs, Actors,
                            HoldsObject, Processing
<1>10. CASE PayAnswered(a)
  <2>1. [Own(a) EXCEPT !.status = "Completed"] \in Payment
    BY <1>0, <1>10, <1>H, SetParameterType DEF PayAnswered
  <2>2. QED
    BY <1>10, <1>H, <2>1, HandleType DEF PayAnswered
<1>11. CASE StatusNotPaid(a)
  BY <1>11, <1>H, HandleType, SetParameterType DEF StatusNotPaid
<1>12. CASE StatusPaid(a)
  BY <1>0, <1>12, <1>H, HandleType, SetParameterType DEF StatusPaid
<1>13. CASE StatusOpen(a)
  BY <1>13, <1>H, HandleType DEF StatusOpen
<1>14. CASE StatusUnknown(a)
  BY <1>14, <1>H, HandleType DEF StatusUnknown
<1>15. QED
  BY <1>1, <1>2, <1>3, <1>4, <1>5, <1>6, <1>7, <1>8, <1>9, <1>10, <1>11, <1>12, <1>13, <1>14
  DEF Process

\* A step of the worker thread keeps the types.
LEMMA TypeWorker == TInv /\ Worker => TInv'
<1> SUFFICES ASSUME TInv, Worker PROVE TInv'
  OBVIOUS
<1>0. LoadedPayment \in Payment
  BY LoadedType
<1>1. CASE WorkerPays
  <2>1. [LoadedPayment EXCEPT !.status = "ProcessError"] \in Payment
    BY <1>0, SetParameterType DEF Statuses, Queued
  <2>2. QED
    BY <1>1, <2>1, GoOnType DEF WorkerPays, TInv, TypeOK, Actors, HoldsObject, Processing
<1>2. CASE WorkerChecks
  <2>1. PICK s \in Sessions : GetPayment("worker", [LoadedPayment EXCEPT !.session = s])
    BY <1>2 DEF WorkerChecks
  <2>2. [LoadedPayment EXCEPT !.session = s] \in Payment
    BY <1>0, SetParameterType
  <2>3. LoadedPayment.session \in Sessions \union {NoSession}
    BY <1>0 DEF Payment
  <2>4. QED
    BY <1>2, <2>1, <2>2, <2>3, GoOnType DEF WorkerChecks, TInv, TypeOK, Actors, HoldsObject
<1>3. CASE WorkerChecked
  <2>1. Own("worker") \in Payment /\ use["worker"] \in Objects
    BY <1>3, OwnType DEF WorkerChecked, HoldsObject, Actors
  <2>2. [Own("worker") EXCEPT !.session = held] \in Payment
    BY <2>1, SetParameterType DEF TInv, TypeOK
  <2>3. QED
    BY <1>3, <2>1, <2>2 DEF WorkerChecked, SetOwn, Goto, TInv, TypeOK, Holding, Procs, Actors,
                            HoldsObject, Processing
<1>4. QED
  BY <1>1, <1>2, <1>3 DEF Worker

\* The payment thread loads the payment and goes on to l.
LEMMA ThreadLoadsType ==
    ASSUME TInv, NEW k \in {"pick", "force", "update", "remove"}, NEW p \in Payment,
           NEW l \in {"claim", "finish"}, ThreadLoads(k, p, l)
    PROVE  TInv'
BY GoOnType DEF ThreadLoads, TInv, TypeOK, Actors, HoldsObject

\* A step of the payment thread keeps the types.
LEMMA TypeThread == TInv /\ Thread => TInv'
<1> SUFFICES ASSUME TInv, Thread PROVE TInv'
  OBVIOUS
<1>0. LoadedPayment \in Payment
  BY LoadedType
<1>S. Statuses = {"Init", "ReadyForCheck", "ProcessError", "Completed", "Canceled",
                  "BadPayment", "Deleted", "Cheated"}
  BY DEF Statuses, Queued
<1>H. /\ {"process", "claim", "removal", "finish"} \subseteq HoldsObject /\ "thread" \in Actors
      /\ pc["thread"] \in HoldsObject => Own("thread") \in Payment
  BY OwnType DEF HoldsObject, Processing, Actors
<1>1. CASE Pick
  BY <1>1 DEF Pick, Goto, TInv, TypeOK, Holding, Procs, Actors, HoldsObject, Processing
<1>2. ASSUME NEW c \in Commands, Command(c) PROVE TInv'
  BY <1>2, OptionAssumption
  DEF Command, Goto, TInv, TypeOK, Holding, Procs, Actors, HoldsObject, Processing
<1>3. CASE LoadQueued
  BY <1>0, <1>3, ThreadLoadsType DEF LoadQueued
<1>4. CASE LoadForced
  <2>1. 1 \in 0 .. TriesLimit + 1
    BY LimitAssumption
  <2>2. [LoadedPayment EXCEPT !.status = "ProcessError", !.tries = 1] \in Payment
    BY <1>0, <1>S, <2>1 DEF Payment
  <2>3. QED
    BY <1>4, <2>2, ThreadLoadsType DEF LoadForced
<1>5. CASE LoadUpdated
  BY <1>0, <1>5, ThreadLoadsType DEF LoadUpdated
<1>6. CASE RemoveUnpaid
  BY <1>0, <1>S, <1>6, ThreadLoadsType, SetParameterType DEF RemoveUnpaid
<1>7. CASE RemoveAsks
  <2>1. PICK r \in Status(StateOf(LoadedPayment.session)) :
           answer' = [answer EXCEPT !["thread"] = r]
    BY <1>7 DEF RemoveAsks
  <2>2. r \in Answers \union {"none"}
    BY StateOfType, StatusType
  <2>3. QED
    BY <1>0, <1>7, <2>1, <2>2, GoOnType DEF RemoveAsks, TInv, TypeOK, Actors, HoldsObject
<1>8. CASE RemoveAgreed
  BY <1>8, <1>S, <1>H, HandleType, SetParameterType DEF RemoveAgreed
<1>9. ASSUME pc["thread"] \in HoldsObject, Leave PROVE TInv'
  BY <1>9, ReleaseType DEF Leave, Goto, TInv, TypeOK, Holding, Procs, Actors, HoldsObject,
                           Processing, NoObject
<1>10. CASE RemoveRefused
  BY <1>9, <1>10, <1>H DEF RemoveRefused
<1>11. CASE ClaimDenied
  BY <1>9, <1>11, <1>H DEF ClaimDenied
<1>12. CASE ClaimOffline
  BY <1>12, <1>H, HandleType, SetParameterType DEF ClaimOffline
<1>13. CASE ClaimOnline
  BY <1>13, <1>S, <1>H, HandleType, SetParameterType DEF ClaimOnline
<1>14. QED
  BY <1>1, <1>2, <1>3, <1>4, <1>5, <1>6, <1>7, <1>8, <1>10, <1>11, <1>12, <1>13 DEF Thread

\* So do the payment system and a stop of the program.
LEMMA TypeEnvironment == TInv /\ (ServerSettles \/ Crash) => TInv'
<1> SUFFICES ASSUME TInv, ServerSettles \/ Crash PROVE TInv'
  OBVIOUS
<1>1. CASE ServerSettles
  BY <1>1, SettleType DEF ServerSettles, TInv, TypeOK, Holding, HoldsObject, Processing
<1>2. CASE Crash
  <2>1. faults' \in 0 .. MaxFaults
    BY <1>2, LimitAssumption DEF Crash, TInv, TypeOK
  <2>2. TypeOK'
    BY <1>2, <2>1, DummyType DEF Crash, TInv, TypeOK
  <2>3. Holding'
    BY <1>2 DEF Crash, Holding, HoldsObject, Processing, Procs, Actors, NoObject
  <2>4. QED
    BY <2>2, <2>3 DEF TInv
<1>3. QED
  BY <1>1, <1>2

\* Every step keeps the types.
LEMMA TypeNext == TInv /\ [Next]_vars => TInv'
<1>1. ASSUME TInv, UNCHANGED vars PROVE TInv'
  BY <1>1 DEF vars, TInv, TypeOK, Holding, HoldsObject, Processing
<1>2. QED
  BY <1>1, TypeUi, TypeWorker, TypeThread, TypeSaves, TypeProcess, TypeEnvironment DEF Next

\* The program's data have the types the declarations give them, and a process
\* inside a job holds the payment object it works on, for every choice of the
\* constants: a scenario that waits or not, every set of commands.
THEOREM TypeCorrect == Spec => []TypeOK
<1>1. Init => TInv
  BY TypeInit
<1>2. TInv /\ [Next]_vars => TInv'
  BY TypeNext
<1>3. TInv => TypeOK
  BY DEF TInv
<1>4. QED
  BY <1>1, <1>2, <1>3, PTL DEF Spec

-----------------------------------------------------------------------------
(* "Completed" is said after PAY, whatever the scenario does: the verdict   *)
(* comes from an answer, and the answer from a session that PAY reached.    *)

Sent == \E s \in Sessions : server[s] \in Charged \union {"failed"}

\* The row or an object says that the payment is complete.
SomeCompleted ==
    row.status = "Completed" \/ \E o \in Objects : mem[o].status = "Completed"

\* The answers of which the kiosk makes a complete payment.
SaysComplete(a) ==
    \/ answer[a] = "ok" /\ pc[a] = "payAnswer"
    \/ answer[a] = "paid"
    \/ answer[a] \in {"sent", "beyond"} /\ pc[a] = "recheck"

\* An action that changes the object o to p and leaves the row, or saves in it
\* what an object says.
LEMMA VerdictOfObject ==
    ASSUME TInv, NEW o, NEW p, mem' = [mem EXCEPT ![o] = p],
           p.status = "Completed" => SomeCompleted,
           row'.status = "Completed" => SomeCompleted
    PROVE  SomeCompleted' => SomeCompleted
BY DEF SomeCompleted, TInv, TypeOK

\* A save writes Completed only from an object that is Completed.
LEMMA VerdictSaved ==
    ASSUME TInv, NEW p \in Procs, Object(p) \in Objects, MayWriteRow(p)
    PROVE  row'.status = "Completed" => SomeCompleted
<1>1. mem[Object(p)] \in Payment /\ Saved(mem[Object(p)]).status = mem[Object(p)].status
  BY DEF TInv, TypeOK, Saved, Payment
<1>2. QED
  BY <1>1 DEF MayWriteRow, WriteRow, FailWrite, SomeCompleted

\* A step that leaves the objects alone and saves no new verdict.
LEMMA VerdictKept ==
    ASSUME UNCHANGED mem, row'.status = "Completed" => SomeCompleted
    PROVE  SomeCompleted' => SomeCompleted
BY DEF SomeCompleted

\* The scenario gives no verdict.
LEMMA VerdictUi ==
    ASSUME TInv, Ui
    PROVE  SomeCompleted' => SomeCompleted
<1> DEFINE m == mem["shared"]
<1>0. m \in Payment /\ (m.status = "Completed" => SomeCompleted)
  BY DEF TInv, TypeOK, Objects, SomeCompleted
<1>1. ASSUME NEW p, ChangeAndSave(p), p.status = "Completed" => SomeCompleted
      PROVE  SomeCompleted' => SomeCompleted
  BY <1>1, VerdictOfObject DEF ChangeAndSave, UiUnchanged, SomeCompleted
<1>2. CASE UiUpdate
  BY <1>0, <1>1, <1>2 DEF UiUpdate
<1>3. CASE UiProcessOffline
  <2>1. [m EXCEPT !.priority = "Offline", !.status = "ReadyForCheck"].status = "ReadyForCheck"
    BY <1>0 DEF Payment
  <2>2. QED
    BY <1>1, <1>3, <2>1 DEF UiProcessOffline
<1>4. \A v : [m EXCEPT !.status = v].status = v
  BY <1>0 DEF Payment
<1>5. CASE UiCancel
  BY <1>1, <1>4, <1>5 DEF UiCancel
<1>6. CASE UiStop
  BY <1>1, <1>4, <1>6 DEF UiStop
<1>7. CASE UiProcessOnline \/ UiDataCheck \/ UiDeactivate
  BY <1>7, VerdictKept DEF UiProcessOnline, UiDataCheck, UiDeactivate, UiUnchanged, SomeCompleted
<1>8. CASE UiAbandon
  BY <1>8 DEF UiAbandon, DropActive, UiUnchanged, SomeCompleted, Dummy, TInv, TypeOK
<1>9. QED
  BY <1>2, <1>3, <1>5, <1>6, <1>7, <1>8 DEF Ui

\* Neither does a save.
LEMMA VerdictSaves ==
    ASSUME TInv, Saves
    PROVE  SomeCompleted' => SomeCompleted
<1>1. ASSUME NEW a \in Actors, pc[a] \in HoldsObject
      PROVE  a \in Procs /\ Object(a) \in Objects
  BY <1>1, OwnType DEF Object, Procs, Actors
<1>2. "ui" \in Procs /\ Object("ui") \in Objects
  BY DEF Procs, Object, Objects
<1>3. ASSUME NEW p \in Procs, Sign(p) PROVE SomeCompleted' => SomeCompleted
  BY <1>3 DEF Sign, SomeCompleted
<1>4. ASSUME NEW a \in Actors, WriteBeforePay(a) \/ WriteFound(a)
      PROVE  SomeCompleted' => SomeCompleted
  <2>1. pc[a] \in HoldsObject /\ MayWriteRow(a) /\ UNCHANGED mem
    BY <1>4 DEF WriteBeforePay, WriteFound, MayWriteRow, HoldsObject, Processing
  <2>2. QED
    BY <1>1, <2>1, VerdictSaved, VerdictKept
<1>5. ASSUME NEW a \in Actors, Finish(a) PROVE SomeCompleted' => SomeCompleted
  <2>1. pc[a] \in HoldsObject /\ MayWriteRow(a)
    BY <1>5 DEF Finish, HoldsObject
  <2>2. row'.status = "Completed" => SomeCompleted
    BY <1>1, <2>1, VerdictSaved
  <2>3. Dummy.status = "Deleted"
    BY DEF Dummy
  <2>4. QED
    BY <1>5, <2>2, <2>3, VerdictOfObject, VerdictKept DEF Finish, Release
<1>6. CASE UiFinish
  BY <1>2, <1>6, VerdictSaved, VerdictKept DEF UiFinish
<1>7. CASE UiDrop
  <2>1. row'.status = "Completed" => SomeCompleted
    BY <1>2, <1>7, VerdictSaved DEF UiDrop
  <2>2. Dummy.status = "Deleted"
    BY DEF Dummy
  <2>3. QED
    BY <1>7, <2>1, <2>2, VerdictOfObject, VerdictKept DEF UiDrop, DropActive
<1>8. QED
  BY <1>3, <1>4, <1>5, <1>6, <1>7 DEF Saves

\* The failure of a request completes nothing.
LEMMA FailedStatus ==
    ASSUME NEW a \in Actors, Own(a) \in Payment
    PROVE  Failed(a).status \in {"BadPayment", "ProcessError"}
<1> DEFINE p == SetProcessError(Own(a), answer[a] = "net")
<1>1. p \in Payment /\ p.status \in {"BadPayment", "ProcessError"}
  BY SetProcessErrorType DEF SetProcessError, Payment
<1> HIDE DEF p
<1>2. Failed(a) = IF answer[a] = "critical"
                  THEN [p EXCEPT !.status = "BadPayment", !.priority = "Low"] ELSE p
  BY DEF Failed, p
<1>3. QED
  BY <1>1, <1>2 DEF Payment

\* Inside Payment::process only an answer that says so completes the payment.
LEMMA VerdictProcess ==
    ASSUME TInv, NEW a \in Actors, Process(a), ~SaysComplete(a)
    PROVE  SomeCompleted' => SomeCompleted
<1>0. /\ {"process", "check", "recheck", "pay", "payAnswer", "status"} \subseteq HoldsObject
      /\ pc[a] \in HoldsObject =>
            /\ use[a] \in Objects /\ Own(a) \in Payment
            /\ Own(a).status = "Completed" => SomeCompleted
            /\ Failed(a).status # "Completed"
  <2>1. pc[a] \in HoldsObject => use[a] \in Objects /\ Own(a) \in Payment
    BY OwnType
  <2>2. QED
    BY <2>1, FailedStatus DEF HoldsObject, Processing, Own, SomeCompleted
<1>1. ASSUME NEW p, SetOwn(a, p), UNCHANGED row, p.status = "Completed" => SomeCompleted
      PROVE  SomeCompleted' => SomeCompleted
  BY <1>1, VerdictOfObject DEF SetOwn, SomeCompleted
<1>2. ASSUME NEW p, NEW l, Handle(a, p, l), p.status = "Completed" => SomeCompleted
      PROVE  SomeCompleted' => SomeCompleted
  BY <1>1, <1>2 DEF Handle, ProcessUnchanged
<1>3. pc[a] \in HoldsObject => \A v \in {"Init", "Pay"} : SetStep(Own(a), v).status = Own(a).status
  BY <1>0 DEF SetStep, Payment
<1>4. CASE SendCheck(a)
  <2>1. PICK s \in Sessions : SetOwn(a, [Own(a) EXCEPT !.session = s])
    BY <1>4 DEF SendCheck
  <2>2. pc[a] \in HoldsObject /\ UNCHANGED row
    BY <1>0, <1>4 DEF SendCheck, ProcessUnchanged
  <2>3. [Own(a) EXCEPT !.session = s].status = Own(a).status
    BY <1>0, <2>2 DEF Payment
  <2>4. QED
    BY <1>0, <1>1, <2>1, <2>2, <2>3
<1>5. CASE SendStatus(a) \/ Skip(a) \/ SendPay(a)
  BY <1>5 DEF SendStatus, Skip, SendPay, ProcessUnchanged, SomeCompleted
<1>6. CASE CheckAccepted(a)
  BY <1>0, <1>2, <1>3, <1>6 DEF CheckAccepted
<1>7. CASE CheckRefused(a)
  BY <1>0, <1>2, <1>7 DEF CheckRefused
<1>8. CASE CheckExists(a)
  BY <1>0, <1>1, <1>8 DEF CheckExists, ProcessUnchanged
<1>9. CASE FoundComplete(a)
  BY <1>9 DEF FoundComplete, SaysComplete
<1>10. CASE FoundOpen(a)
  BY <1>0, <1>2, <1>10 DEF FoundOpen
<1>11. CASE PayAnswered(a)
  BY <1>0, <1>2, <1>11 DEF PayAnswered, SaysComplete
<1>12. CASE StatusNotPaid(a)
  BY <1>0, <1>2, <1>3, <1>12 DEF StatusNotPaid
<1>13. CASE StatusPaid(a)
  BY <1>13 DEF StatusPaid, SaysComplete
<1>14. CASE StatusOpen(a)
  BY <1>0, <1>2, <1>14 DEF StatusOpen
<1>15. CASE StatusUnknown(a)
  BY <1>0, <1>2, <1>15 DEF StatusUnknown
<1>16. QED
  BY <1>4, <1>5, <1>6, <1>7, <1>8, <1>9, <1>10, <1>11, <1>12, <1>13, <1>14, <1>15 DEF Process

\* Nor does getPayment, which reads the row or the active object.
LEMMA VerdictLoaded ==
    ASSUME TInv
    PROVE  /\ LoadedPayment.status = "Completed" => SomeCompleted
           /\ \A s : [LoadedPayment EXCEPT !.session = s].status = LoadedPayment.status
           /\ \A v : [LoadedPayment EXCEPT !.status = v].status = v
<1>1. LoadedPayment \in Payment
  BY LoadedType
<1>2. LoadedPayment.status = "Completed" => SomeCompleted
  BY DEF LoadedPayment, TInv, TypeOK, Payment, Objects, SomeCompleted
<1>3. QED
  BY <1>1, <1>2 DEF Payment

\* A payment loaded brings no verdict the row does not hold.
LEMMA VerdictGet ==
    ASSUME TInv, NEW a \in Actors, NEW p, GetPayment(a, p), p.status = "Completed" => SomeCompleted
    PROVE  SomeCompleted' => SomeCompleted
<1>1. row'.status = "Completed" => SomeCompleted
  BY VerdictLoaded DEF GetPayment, SaveCheated, FailWrite, SomeCompleted
<1>2. mem' = [mem EXCEPT ![LoadedObject(a)] = p]
  BY DEF GetPayment
<1>3. QED
  BY <1>1, <1>2, VerdictOfObject

\* An object dropped takes none away.
LEMMA VerdictLeave ==
    ASSUME TInv, NEW a \in Actors, Release(a), UNCHANGED row
    PROVE  SomeCompleted' => SomeCompleted
<1>1. Dummy.status = "Deleted"
  BY DEF Dummy
<1>2. row'.status = "Completed" => SomeCompleted
  BY DEF SomeCompleted
<1>3. QED
  BY <1>1, <1>2, VerdictOfObject, VerdictKept DEF Release

\* The worker thread gives no verdict.
LEMMA VerdictWorker ==
    ASSUME TInv, Worker
    PROVE  SomeCompleted' => SomeCompleted
<1>0. "worker" \in Actors
  BY DEF Actors
<1>1. CASE WorkerPays
  BY <1>0, <1>1, VerdictLoaded, VerdictGet DEF WorkerPays
<1>2. CASE WorkerChecks
  <2>1. PICK s \in Sessions : GetPayment("worker", [LoadedPayment EXCEPT !.session = s])
    BY <1>2 DEF WorkerChecks
  <2>2. QED
    BY <1>0, <2>1, VerdictLoaded, VerdictGet
<1>3. CASE WorkerChecked
  <2>1. use["worker"] \in Objects /\ Own("worker") \in Payment
    BY <1>0, <1>3, OwnType DEF WorkerChecked, HoldsObject
  <2>2. /\ [Own("worker") EXCEPT !.session = held].status = Own("worker").status
        /\ Own("worker").status = "Completed" => SomeCompleted
        /\ row'.status = "Completed" => SomeCompleted
    BY <1>3, <2>1 DEF Payment, Own, SomeCompleted, WorkerChecked
  <2>3. QED
    BY <1>3, <2>2, VerdictOfObject DEF WorkerChecked, SetOwn
<1>4. QED
  BY <1>1, <1>2, <1>3 DEF Worker

\* Outside of the processing the payment thread gives none.
LEMMA VerdictThread ==
    ASSUME TInv, Thread
    PROVE  SomeCompleted' => SomeCompleted
<1>0. "thread" \in Actors
  BY DEF Actors
<1>1. CASE Pick \/ \E c \in Commands : Command(c)
  BY <1>1 DEF Pick, Command, SomeCompleted
<1>2. ASSUME NEW l, NEW p, NEW k, ThreadLoads(l, p, k), p.status = "Completed" => SomeCompleted
      PROVE  SomeCompleted' => SomeCompleted
  BY <1>0, <1>2, VerdictGet DEF ThreadLoads
<1>3. CASE LoadQueued \/ LoadUpdated
  BY <1>2, <1>3, VerdictLoaded DEF LoadQueued, LoadUpdated
<1>4. CASE LoadForced
  <2>1. [LoadedPayment EXCEPT !.status = "ProcessError", !.tries = 1].status = "ProcessError"
    BY LoadedType DEF Payment
  <2>2. QED
    BY <1>2, <1>4, <2>1 DEF LoadForced
<1>5. CASE RemoveUnpaid
  BY <1>2, <1>5, VerdictLoaded DEF RemoveUnpaid
<1>6. CASE RemoveAsks
  BY <1>0, <1>6, VerdictLoaded, VerdictGet DEF RemoveAsks
<1>7. ASSUME pc["thread"] \in HoldsObject, NEW p, NEW l, Handle("thread", p, l),
             p.status \in {Own("thread").status, "Deleted", "BadPayment"}
      PROVE  SomeCompleted' => SomeCompleted
  <2>1. Own("thread").status = "Completed" => SomeCompleted
    BY <1>0, <1>7, OwnType DEF Own, SomeCompleted
  <2>2. row'.status = "Completed" => SomeCompleted
    BY <1>7 DEF Handle, ProcessUnchanged, SomeCompleted
  <2>3. QED
    BY <1>7, <2>1, <2>2, VerdictOfObject DEF Handle, SetOwn
<1>8. pc["thread"] \in {"removal", "claim"} =>
         /\ pc["thread"] \in HoldsObject
         /\ \A v : [Own("thread") EXCEPT !.status = v].status = v
         /\ \A v : [Own("thread") EXCEPT !.priority = v].status = Own("thread").status
  <2>1. {"removal", "claim"} \subseteq HoldsObject
    BY DEF HoldsObject
  <2>2. QED
    BY <1>0, <2>1, OwnType DEF Payment
<1>9. CASE RemoveAgreed
  BY <1>7, <1>8, <1>9 DEF RemoveAgreed
<1>10. CASE RemoveRefused \/ ClaimDenied
  BY <1>0, <1>10, VerdictLeave DEF RemoveRefused, ClaimDenied, Leave
<1>11. CASE ClaimOffline
  BY <1>7, <1>8, <1>11 DEF ClaimOffline
<1>12. CASE ClaimOnline
  BY <1>7, <1>8, <1>12 DEF ClaimOnline
<1>13. QED
  BY <1>1, <1>3, <1>4, <1>5, <1>6, <1>9, <1>10, <1>11, <1>12 DEF Thread

\* Nothing but such an answer completes the payment.
LEMMA VerdictComes ==
    ASSUME TInv, [Next]_vars, SomeCompleted'
    PROVE  SomeCompleted \/ \E a \in Actors : SaysComplete(a)
<1>1. ASSUME ServerSettles \/ UNCHANGED vars PROVE SomeCompleted
  BY <1>1 DEF ServerSettles, SomeCompleted, vars
<1>2. ASSUME Crash PROVE SomeCompleted
  BY <1>2 DEF Crash, SomeCompleted, Dummy
<1>3. QED
  BY <1>1, <1>2, VerdictUi, VerdictSaves, VerdictProcess, VerdictWorker, VerdictThread DEF Next

-----------------------------------------------------------------------------
(* The server keeps what PAY has done, and the answers tell of it.          *)

Paid == \E s \in Sessions : server[s] = "paid"

\* Only two requests and the operator's decision change a session.
LEMMA ServerSteps ==
    ASSUME [Next]_vars
    PROVE  \/ UNCHANGED server
           \/ (\E a \in Actors : SendCheck(a) \/ SendPay(a)) \/ ServerSettles
<1>1. ASSUME NEW a \in Actors, Process(a)
      PROVE  UNCHANGED server \/ SendCheck(a) \/ SendPay(a)
  BY <1>1 DEF Process, SendStatus, Skip, CheckAccepted, CheckRefused, CheckExists, FoundComplete,
              FoundOpen, PayAnswered, StatusNotPaid, StatusPaid, StatusOpen, StatusUnknown, Handle
<1>2. CASE Ui
  BY <1>2 DEF Ui, UiUpdate, UiProcessOnline, UiProcessOffline, UiDataCheck, UiCancel, UiStop,
              UiDeactivate, UiAbandon, ChangeAndSave, UiUnchanged
<1>3. CASE Worker
  BY <1>3 DEF Worker, WorkerPays, WorkerChecks, WorkerChecked
<1>4. CASE Thread
  BY <1>4 DEF Thread, Pick, Command, LoadQueued, LoadForced, LoadUpdated, ThreadLoads,
              RemoveUnpaid, RemoveAsks, RemoveAgreed, RemoveRefused, Leave, Handle, ClaimDenied,
              ClaimOffline, ClaimOnline
<1>5. CASE Saves
  BY <1>5 DEF Saves, Sign, WriteBeforePay, WriteFound, Finish, UiFinish, UiDrop, Written
<1>6. CASE Crash \/ UNCHANGED vars
  BY <1>6 DEF Crash, vars
<1>7. QED
  BY <1>1, <1>2, <1>3, <1>4, <1>5, <1>6 DEF Next

\* CHECK changes at most the mark of a session that PAY has not reached.
LEMMA SendCheckKeeps ==
    ASSUME TInv, NEW a \in Actors, SendCheck(a), NEW t \in Sessions
    PROVE  \/ server'[t] = server[t]
           \/ server[t] \in {"none", "checked"} /\ server'[t] \in {"none", "checked"}
<1>1. PICK s \in Sessions : NextSession(Own(a), s) /\ \E r \in Check(Renewed(s)) :
          server' = [server EXCEPT ![s] = r[1]]
  BY DEF SendCheck
<1>2. PICK r \in Check(Renewed(s)) : server' = [server EXCEPT ![s] = r[1]]
  BY <1>1
<1>3. server[s] \in SessionStates
  BY DEF TInv, TypeOK
<1>4. CASE s = InitialSession
  BY <1>2, <1>3, <1>4 DEF Renewed, Check, SessionStates, TInv, TypeOK
<1>5. CASE s # InitialSession
  <2>1. server[s] \in {"none", "checked"}
    BY <1>1, <1>5 DEF NextSession, Fresh
  <2>2. r[1] \in {"none", "checked"}
    BY <1>2, <1>5 DEF Renewed, Check
  <2>3. QED
    BY <1>2, <2>1, <2>2 DEF TInv, TypeOK
<1>6. QED
  BY <1>4, <1>5

\* What PAY does to a session it reaches, and to no other.
LEMMA SendPayKeeps ==
    ASSUME TInv, NEW a \in Actors, SendPay(a), NEW t \in Sessions
    PROVE  \/ server'[t] = server[t]
           \/ /\ t = Own(a).session /\ server[t] = "checked"
              /\ server'[t] \in {"pending", "paid", "failed"}
<1>1. PICK r \in Pay(StateOf(Own(a).session)) :
          server' = [s \in Sessions |-> IF s = Own(a).session THEN r[1] ELSE server[s]]
  BY DEF SendPay
<1>2. CASE t # Own(a).session
  BY <1>1, <1>2
<1>3. CASE t = Own(a).session
  <2>1. StateOf(Own(a).session) = server[t] /\ server'[t] = r[1]
    BY <1>1, <1>3 DEF StateOf
  <2>2. QED
    BY <1>1, <1>3, <2>1 DEF Pay
<1>4. QED
  BY <1>2, <1>3

\* A session changes only when it is pending, and then it is settled.
LEMMA SettleKeeps ==
    ASSUME TInv, ServerSettles, NEW t \in Sessions
    PROVE  \/ server'[t] = server[t]
           \/ server[t] = "pending" /\ server'[t] \in {"paid", "failed"}
BY DEF ServerSettles, Settle, TInv, TypeOK

\* So money that was sent stays sent, and a paid session stays paid.
LEMMA SentStays ==
    ASSUME TInv, [Next]_vars
    PROVE  (Sent => Sent') /\ (Paid => Paid')
<1>1. ASSUME NEW t \in Sessions
      PROVE  /\ server[t] \in {"pending", "paid", "failed"} => server'[t] \in {"pending", "paid", "failed"}
             /\ server[t] = "paid" => server'[t] = "paid"
  BY ServerSteps, SendCheckKeeps, SendPayKeeps, SettleKeeps
<1>2. QED
  BY <1>1 DEF Sent, Paid, Charged

\* An answer that makes the kiosk take a payment for complete is true.
Truthful ==
    \A a \in Actors :
        /\ answer[a] \in {"sent", "beyond"} => Sent
        /\ answer[a] = "paid" => Paid
        /\ pc[a] = "payAnswer" /\ answer[a] = "ok" => Paid

\* Where a process reads an answer of STATUS.
LEMMA StatusTrue ==
    ASSUME TInv, NEW s, NEW r \in Status(StateOf(s))
    PROVE  r # "ok" /\ (r \in {"sent", "beyond"} => Sent) /\ (r = "paid" => Paid)
<1>1. StateOf(s) \in SessionStates
  BY StateOfType
<1>2. /\ r # "ok"
      /\ r \in {"sent", "beyond"} => StateOf(s) \in {"pending", "paid", "failed"}
      /\ r = "paid" => StateOf(s) = "paid"
  BY <1>1 DEF Status, SessionStates
<1>3. StateOf(s) # "none" => s \in Sessions /\ StateOf(s) = server[s]
  BY DEF StateOf
<1>4. QED
  BY <1>2, <1>3 DEF Sent, Paid, Charged

\* Where the answer of process a after the step is, or comes from.
AnswerKept(a) ==
    \/ answer'[a] = answer[a] /\ (pc'[a] = "payAnswer" => pc[a] = "payAnswer")
    \/ answer'[a] = "none"

\* Going on to a step other than the answer to PAY keeps the answers.
LEMMA GotoAnswer ==
    ASSUME TInv, UNCHANGED answer, NEW p \in Procs, NEW l, l # "payAnswer", Goto(p, l)
    PROVE  \A a \in Actors : AnswerKept(a)
BY DEF TInv, TypeOK, Goto, AnswerKept, Procs

\* So does handing the result of an attempt on.
LEMMA HandleAnswer ==
    ASSUME TInv, NEW b \in Actors, NEW p, NEW l, l # "payAnswer", Handle(b, p, l)
    PROVE  \A a \in Actors : AnswerKept(a)
BY DEF TInv, TypeOK, Handle, Goto, AnswerKept, Procs

\* A step of the scenario keeps the answers.
LEMMA AnswerUi ==
    ASSUME TInv, Ui
    PROVE  \A a \in Actors : AnswerKept(a)
<1>1. {"ui", "worker"} \subseteq Procs
  BY DEF Procs, Actors
<1>2. \/ UNCHANGED <<pc, answer>>
      \/ /\ UNCHANGED answer
         /\ \E p \in {"ui", "worker"}, l \in {"finish", "closing", "queued", "queuedCheck"} : Goto(p, l)
  BY DEF Ui, UiUpdate, UiProcessOnline, UiProcessOffline, UiDataCheck, UiCancel, UiStop,
         UiDeactivate, UiAbandon, ChangeAndSave, UiUnchanged
<1>3. QED
  BY <1>1, <1>2, GotoAnswer DEF AnswerKept

\* A save keeps the answers.
LEMMA AnswerSaves ==
    ASSUME TInv, Saves
    PROVE  \A a \in Actors : AnswerKept(a)
<1>1. UNCHANGED answer /\ \E p \in Procs, l \in {"write", "writeDone", "ending", "dropping", "pay",
                                                 "finish", "idle"} : Goto(p, l)
  BY DEF Saves, Sign, Signing, WriteBeforePay, WriteFound, Finish, UiFinish, UiDrop, Written, Procs
<1>2. QED
  BY <1>1, GotoAnswer

\* Only a request brings an answer while a payment is processed.
LEMMA AnswerProcess ==
    ASSUME TInv, NEW a \in Actors, Process(a)
    PROVE  SendCheck(a) \/ SendStatus(a) \/ CheckExists(a) \/ SendPay(a) \/ \A b \in Actors : AnswerKept(b)
<1>1. CASE Skip(a)
  BY <1>1, GotoAnswer DEF Skip, Procs
<1>2. CASE \/ CheckAccepted(a) \/ CheckRefused(a) \/ FoundComplete(a) \/ FoundOpen(a)
           \/ PayAnswered(a) \/ StatusNotPaid(a) \/ StatusPaid(a) \/ StatusOpen(a) \/ StatusUnknown(a)
  BY <1>2, HandleAnswer
  DEF CheckAccepted, CheckRefused, FoundComplete, FoundOpen, PayAnswered, StatusNotPaid,
      StatusPaid, StatusOpen, StatusUnknown
<1>3. QED
  BY <1>1, <1>2 DEF Process

\* The worker thread keeps the answers.
LEMMA AnswerWorker ==
    ASSUME TInv, Worker
    PROVE  \A a \in Actors : AnswerKept(a)
<1>1. "worker" \in Procs
  BY DEF Procs, Actors
<1>2. UNCHANGED answer /\ \E l \in {"process", "fakeCheck", "finish"} : Goto("worker", l)
  BY DEF Worker, WorkerPays, WorkerChecks, WorkerChecked
<1>3. QED
  BY <1>1, <1>2, GotoAnswer

\* The payment thread keeps them, but for STATUS before a removal.
LEMMA AnswerThread ==
    ASSUME TInv, Thread
    PROVE  RemoveAsks \/ \A a \in Actors : AnswerKept(a)
<1>1. "thread" \in Procs /\ "thread" \in Actors
  BY DEF Procs, Actors
<1>2. CASE Pick \/ LoadQueued \/ LoadForced \/ LoadUpdated \/ RemoveUnpaid
  <2>1. UNCHANGED answer /\ \E l \in {"pick", "claim", "finish"} : Goto("thread", l)
    BY <1>2 DEF Pick, LoadQueued, LoadForced, LoadUpdated, RemoveUnpaid, ThreadLoads
  <2>2. QED
    BY <1>1, <2>1, GotoAnswer
<1>3. ASSUME NEW c \in Commands, Command(c) PROVE \A a \in Actors : AnswerKept(a)
  <2>1. UNCHANGED answer /\ Goto("thread", c) /\ c # "payAnswer"
    BY <1>3, OptionAssumption DEF Command
  <2>2. QED
    BY <1>1, <2>1, GotoAnswer
<1>4. CASE RemoveAgreed \/ ClaimOffline \/ ClaimOnline
  BY <1>1, <1>4, HandleAnswer DEF RemoveAgreed, ClaimOffline, ClaimOnline
<1>5. CASE RemoveRefused \/ ClaimDenied
  BY <1>5 DEF RemoveRefused, ClaimDenied, Leave, Goto, AnswerKept, TInv, TypeOK, Procs, Actors
<1>6. QED
  BY <1>2, <1>3, <1>4, <1>5 DEF Thread

\* Every step keeps the answers true.
LEMMA TruthfulNext ==
    ASSUME TInv, Truthful, [Next]_vars
    PROVE  Truthful'
<1>1. (Sent => Sent') /\ (Paid => Paid')
  BY SentStays
<1>2. ASSUME \A b \in Actors : AnswerKept(b)
      PROVE  Truthful'
  BY <1>1, <1>2 DEF Truthful, AnswerKept
<1>3. ASSUME NEW a \in Actors, NEW r, answer' = [answer EXCEPT ![a] = r],
             \A b \in Actors : b # a => pc'[b] = pc[b],
             r \in {"sent", "beyond"} => Sent', r = "paid" => Paid',
             pc'[a] = "payAnswer" /\ r = "ok" => Paid'
      PROVE  Truthful'
  BY <1>1, <1>3 DEF Truthful, TInv, TypeOK
<1>4. ASSUME NEW a \in Actors, NEW l, Goto(a, l)
      PROVE  pc'[a] = l /\ \A b \in Actors : b # a => pc'[b] = pc[b]
  BY <1>4 DEF Goto, TInv, TypeOK, Procs
<1>5. ASSUME NEW a \in Actors, NEW s, NEW r \in Status(StateOf(s)), NEW l,
             answer' = [answer EXCEPT ![a] = r], Goto(a, l)
      PROVE  Truthful'
  <2>1. r # "ok" /\ (r \in {"sent", "beyond"} => Sent) /\ (r = "paid" => Paid)
    BY StatusTrue
  <2>2. \A b \in Actors : b # a => pc'[b] = pc[b]
    BY <1>4, <1>5
  <2>3. QED
    BY <1>1, <1>3, <1>5, <2>1, <2>2
<1>6. ASSUME NEW a \in Actors, SendCheck(a) PROVE Truthful'
  <2>1. PICK s \in Sessions : \E r \in Check(Renewed(s)) : answer' = [answer EXCEPT ![a] = r[2]]
    BY <1>6 DEF SendCheck
  <2>2. PICK r \in Check(Renewed(s)) : answer' = [answer EXCEPT ![a] = r[2]]
    BY <2>1
  <2>3. r[2] \notin {"sent", "beyond", "paid"}
    BY <2>2 DEF Check
  <2>4. Goto(a, "check")
    BY <1>6 DEF SendCheck
  <2>5. pc'[a] = "check" /\ \A b \in Actors : b # a => pc'[b] = pc[b]
    BY <1>4, <2>4
  <2>6. QED
    BY <1>3, <2>2, <2>3, <2>5
<1>7. ASSUME NEW a \in Actors, SendPay(a) PROVE Truthful'
  <2>1. PICK r \in Pay(StateOf(Own(a).session)) :
          /\ server' = [s \in Sessions |-> IF s = Own(a).session THEN r[1] ELSE server[s]]
          /\ answer' = [answer EXCEPT ![a] = r[2]]
    BY <1>7 DEF SendPay
  <2>2. r[2] \notin {"sent", "beyond", "paid"}
    BY <2>1 DEF Pay
  <2>3. r[2] = "ok" => r[1] = "paid" /\ StateOf(Own(a).session) = "checked"
    BY <2>1 DEF Pay
  <2>4. r[2] = "ok" => Paid'
    BY <2>1, <2>3 DEF Paid, StateOf
  <2>5. Goto(a, "payAnswer")
    BY <1>7 DEF SendPay
  <2>6. \A b \in Actors : b # a => pc'[b] = pc[b]
    BY <1>4, <2>5
  <2>7. QED
    BY <1>3, <2>1, <2>2, <2>4, <2>6
<1>8. ASSUME NEW a \in Actors, SendStatus(a) PROVE Truthful'
  <2>1. PICK r \in Status(StateOf(Own(a).session)) : answer' = [answer EXCEPT ![a] = r]
    BY <1>8 DEF SendStatus, AskStatus
  <2>2. QED
    BY <1>5, <1>8, <2>1 DEF SendStatus
<1>9. ASSUME NEW a \in Actors, CheckExists(a) PROVE Truthful'
  <2>1. PICK r \in Status(StateOf(Own(a).session)) : answer' = [answer EXCEPT ![a] = r]
    BY <1>9 DEF CheckExists, AskStatus
  <2>2. QED
    BY <1>5, <1>9, <2>1 DEF CheckExists
<1>10. CASE RemoveAsks
  <2>1. PICK r \in Status(StateOf(LoadedPayment.session)) : answer' = [answer EXCEPT !["thread"] = r]
    BY <1>10 DEF RemoveAsks
  <2>2. "thread" \in Actors /\ Goto("thread", "removal")
    BY <1>10 DEF RemoveAsks, Actors
  <2>3. QED
    BY <1>5, <2>1, <2>2
<1>11. ASSUME NEW a \in Actors, Process(a) PROVE Truthful'
  BY <1>2, <1>6, <1>7, <1>8, <1>9, <1>11, AnswerProcess
<1>12. CASE Crash
  BY <1>2, <1>12 DEF Crash, AnswerKept
<1>13. CASE ServerSettles \/ UNCHANGED vars
  BY <1>2, <1>13 DEF ServerSettles, vars, AnswerKept
<1>14. QED
  BY <1>2, <1>10, <1>11, <1>12, <1>13, AnswerUi, AnswerSaves, AnswerWorker, AnswerThread DEF Next

\* At the first start nobody has an answer.
LEMMA TruthfulInit == Init => Truthful
BY DEF Init, Truthful

\* Whatever the scenario does, and whatever is lost, the payment is recorded
\* complete only after a PAY of it has reached the operator.
THEOREM NotCompleteUnsent == Spec => []CompletedIsSent
<1> DEFINE Inv == TInv /\ Truthful /\ (SomeCompleted => Sent)
<1>1. Init => Inv
  BY TypeInit, TruthfulInit DEF Init, SomeCompleted, Dummy, NewPayment
<1>2. Inv /\ [Next]_vars => Inv'
  <2> SUFFICES ASSUME Inv, [Next]_vars PROVE Inv'
    OBVIOUS
  <2>1. TInv' /\ Truthful' /\ (Sent => Sent')
    BY TypeNext, TruthfulNext, SentStays
  <2>2. Paid => Sent
    BY DEF Paid, Sent, Charged
  <2>3. SomeCompleted' => Sent
    BY <2>2, VerdictComes DEF Truthful, SaysComplete
  <2>4. QED
    BY <2>1, <2>3
<1>3. Inv => CompletedIsSent
  BY DEF SomeCompleted, Sent, CompletedIsSent
<1> HIDE DEF Inv
<1>4. QED
  BY <1>1, <1>2, <1>3, PTL DEF Spec

\* With a provider that must be paid online the payment thread stays outside of
\* Payment::process.
LEMMA ThreadStaysOutside ==
    ASSUME TInv, PayOnline, pc["thread"] \notin Processing, [Next]_vars
    PROVE  pc'["thread"] \notin Processing
<1>0. {"ui", "worker", "thread"} = Procs /\ Actors = {"worker", "thread"}
  BY DEF Procs, Actors
<1>1. ASSUME NEW p \in Procs, NEW l, Goto(p, l), p = "thread" => l \notin Processing
      PROVE  pc'["thread"] \notin Processing
  BY <1>0, <1>1 DEF Goto, TInv, TypeOK
<1>2. CASE Ui
  <2>1. \/ UNCHANGED pc
        \/ \E p \in {"ui", "worker"}, l \in {"finish", "closing", "queued", "queuedCheck"} : Goto(p, l)
    BY <1>2 DEF Ui, UiUpdate, UiProcessOnline, UiProcessOffline, UiDataCheck, UiCancel, UiStop,
           UiDeactivate, UiAbandon, ChangeAndSave, UiUnchanged
  <2>2. QED
    BY <1>0, <1>1, <2>1
<1>3. CASE Worker
  <2>1. \E l \in {"process", "fakeCheck", "finish"} : Goto("worker", l)
    BY <1>3 DEF Worker, WorkerPays, WorkerChecks, WorkerChecked
  <2>2. QED
    BY <1>0, <1>1, <2>1
<1>4. CASE Thread
  <2> DEFINE L == {"pick", "claim", "finish", "removal", "idle"} \union Commands
  <2>1. \A l \in L : l \notin Processing
    BY OptionAssumption DEF Processing
  <2>2. \E l \in L : Goto("thread", l)
    BY <1>4 DEF Thread, Pick, Command, LoadQueued, LoadForced, LoadUpdated, ThreadLoads, RemoveUnpaid,
                RemoveAsks, RemoveAgreed, RemoveRefused, Leave, Handle, ClaimDenied, ClaimOffline,
                ClaimOnline
  <2> HIDE DEF L
  <2>3. QED
    BY <1>0, <1>1, <2>1, <2>2
<1>5. CASE Saves
  <2>1. \E p \in Procs : \E l : Goto(p, l) /\ (pc[p] \in Processing \/ l \notin Processing)
    BY <1>0, <1>5 DEF Saves, Sign, Signing, WriteBeforePay, WriteFound, Finish, UiFinish, UiDrop, Written,
                Processing
  <2>2. QED
    BY <1>1, <2>1
<1>6. ASSUME NEW a \in Actors, Process(a) PROVE pc'["thread"] \notin Processing
  <2>1. \E l : Goto(a, l) /\ (pc[a] \in Processing \/ l \notin Processing)
    BY <1>6 DEF Process, SendCheck, SendStatus, Skip, CheckAccepted, CheckRefused, CheckExists,
                FoundComplete, FoundOpen, SendPay, PayAnswered, StatusNotPaid, StatusPaid, StatusOpen,
                StatusUnknown, Handle, Processing
  <2>2. QED
    BY <1>0, <1>1, <2>1
<1>7. CASE Crash \/ ServerSettles \/ UNCHANGED vars
  BY <1>0, <1>7 DEF Crash, ServerSettles, vars, Processing
<1>8. QED
  BY <1>2, <1>3, <1>4, <1>5, <1>6, <1>7 DEF Next

\* A payment that may only be paid online takes money only while the scenario's
\* own worker asks for it: the payment thread never gets into Payment::process.
THEOREM OnlineStaysWithWorker ==
    ASSUME PayOnline
    PROVE  Spec => OnlyWorkerPays
<1> DEFINE Inv == TInv /\ pc["thread"] \notin Processing
<1>1. Init => Inv
  BY TypeInit DEF Init, Processing, Procs, Actors
<1>2. Inv /\ [Next]_vars => Inv'
  BY TypeNext, ThreadStaysOutside
<1>3. Inv /\ [Next]_vars => [\A s \in Sessions : ~Taken(s) /\ Taken(s)' => pc["worker"] = "pay"]_vars
  <2> SUFFICES ASSUME Inv, [Next]_vars, NEW s \in Sessions, ~Taken(s), Taken(s)'
               PROVE  pc["worker"] = "pay"
    OBVIOUS
  <2>1. \E a \in Actors : SendPay(a)
    BY ServerSteps, SendCheckKeeps, SettleKeeps DEF Taken, Charged
  <2>2. QED
    BY <2>1 DEF SendPay, Actors, Processing
<1> HIDE DEF Inv
<1>4. QED
  BY <1>1, <1>2, <1>3, PTL DEF Spec, OnlyWorkerPays
=============================================================================

-------------------------- MODULE PaymentProcessing --------------------------
(***************************************************************************)
(* One payment of the kiosk and everybody who may touch it:                *)
(*                                                                         *)
(*   "ui"      the scenario script on the main thread, through the         *)
(*             scripting proxy and PaymentService;                         *)
(*   "worker"  the pool thread PaymentService::processPaymentStep runs a   *)
(*             step of the active payment on;                              *)
(*   "thread"  the payment thread: PaymentService::onProcessPayments with  *)
(*             the database queue and the queue of commands.               *)
(*                                                                         *)
(* The payment exists as a database row and as objects in memory: the      *)
(* object createPayment made ("shared": the scenario's, and the one        *)
(* getPayment hands to everybody while the payment is active) and the      *)
(* copies the worker and the payment thread load when it is not.           *)
(***************************************************************************)
EXTENDS HumoServer, Naturals

CONSTANTS
    Sessions,        \* session numbers
    InitialSession,  \* the one the payment was created with
    NoSession,       \* the empty session of a payment never processed
    TriesLimit,      \* CPayment::TriesLimit
    PayOnline,       \* the provider's processor.payOnline
    UiWaits,         \* the scenario waits for stepCompleted (see MayTouch)
    Commands,        \* the commands others queue for the payment thread
    MaxFaults        \* BOUND: restarts of the program and failed writes in a behaviour

ASSUME SessionAssumption ==
    InitialSession \in Sessions /\ NoSession \notin Sessions
ASSUME LimitAssumption ==
    TriesLimit \in Nat /\ MaxFaults \in Nat
ASSUME OptionAssumption ==
    /\ PayOnline \in BOOLEAN
    /\ UiWaits \in BOOLEAN
    /\ Commands \subseteq {"force", "remove", "update"}

Actors  == {"worker", "thread"}
Procs   == Actors \union {"ui"}
Objects == Actors \union {"shared"}
NoObject == "none"

VARIABLES
    server,   \* state of every session on the processing server
    row,      \* the row of the payment in the database
    rowSig,   \* the signature stored with it
    mem,      \* the payment objects in memory
    active,   \* m_ActivePayment holds the shared object
    pc,       \* what each process is about to do
    use,      \* the object the worker and the thread hold
    answer,   \* the answer the worker and the thread have received
    sig,      \* the signature a process has computed and not yet written
    held,     \* the session a number check has put aside
    faults    \* number of restarts and failed writes so far

vars == <<server, row, rowSig, mem, active, pc, use, answer, sig, held, faults>>

-----------------------------------------------------------------------------
(* Payments *)

Queued   == {"Init", "ReadyForCheck", "ProcessError"}
Statuses == Queued \union {"Completed", "Canceled", "BadPayment", "Deleted", "Cheated"}

\* A payment's parameters.  stepSet: Step carries the mark of an updated
\* parameter, so that saving writes it; a loaded one is written only when set.
Payment == [status   : Statuses,
            step     : {"Init", "Pay"},
            session  : Sessions \union {NoSession},
            priority : {"Online", "Offline", "Low"},
            tries    : 0 .. TriesLimit + 1,
            stepSet  : BOOLEAN]

NewPayment == [status |-> "Init", step |-> "Init", session |-> NoSession,
               priority |-> "Online", tries |-> 0, stepSet |-> TRUE]

\* The row createDummyPayment inserts; also the value of an object nobody has.
Dummy == [status |-> "Deleted", step |-> "Init", session |-> NoSession,
          priority |-> "Online", tries |-> 0, stepSet |-> FALSE]

Signature(p) == <<p.status, p.step, p.session>>
NoSignature == <<>>

SetStep(p, s) == [p EXCEPT !.step = s, !.stepSet = TRUE]

\* BOUND: the count of tries stops one above the limit.
Counted(n) == IF n > TriesLimit THEN n ELSE n + 1

SetProcessError(p, network) ==
    [p EXCEPT !.status = IF p.tries > TriesLimit THEN "BadPayment" ELSE "ProcessError",
              !.tries  = IF ~network THEN Counted(@) ELSE IF @ = 0 THEN 1 ELSE @]

\* Mutant: saving leaves the parameters marked as updated.
SavedWithMarks(p) == [p EXCEPT !.step = IF p.stepSet THEN p.step ELSE row.step]

\* The object as the database keeps it.
Saved(p) == [p EXCEPT !.step = IF p.stepSet THEN p.step ELSE row.step,
                      !.stepSet = FALSE]

-----------------------------------------------------------------------------
TypeOK ==
    /\ server \in [Sessions -> SessionStates]
    /\ row \in Payment /\ ~row.stepSet
    /\ rowSig \in {NoSignature} \union (Statuses \X {"Init", "Pay"} \X (Sessions \union {NoSession}))
    /\ mem \in [Objects -> Payment]
    /\ active \in BOOLEAN
    /\ pc \in [Procs -> {"idle", "queued", "queuedCheck", "pick", "force", "remove",
                         "update", "claim", "fakeCheck", "process", "check", "recheck",
                         "sign", "write", "signDone", "writeDone", "pay", "payAnswer",
                         "status", "removal", "finish", "ending", "closing", "dropping"}]
    /\ use \in [Actors -> Objects \union {NoObject}]
    /\ answer \in [Actors -> Answers \union {"none"}]
    /\ sig \in [Procs -> {NoSignature} \union
                         (Statuses \X {"Init", "Pay"} \X (Sessions \union {NoSession}))]
    /\ held \in Sessions \union {NoSession}
    /\ faults \in 0 .. MaxFaults

Init ==
    /\ server = [s \in Sessions |-> "none"]
    /\ row = Dummy
    /\ rowSig = NoSignature
    /\ mem = [o \in Objects |-> IF o = "shared" THEN NewPayment ELSE Dummy]
    /\ active = TRUE
    /\ pc = [p \in Procs |-> "idle"]
    /\ use = [a \in Actors |-> NoObject]
    /\ answer = [a \in Actors |-> "none"]
    /\ sig = [p \in Procs |-> NoSignature]
    /\ held = NoSession
    /\ faults = 0

-----------------------------------------------------------------------------
(* Helpers of the actions *)

Goto(p, l) == pc' = [pc EXCEPT ![p] = l]

Own(a) == mem[use[a]]

SetOwn(a, p) == mem' = [mem EXCEPT ![use[a]] = p]

\* createPaymentSession: a number nobody has used.  Numbers are recycled: one
\* that was at most checked, and that nothing in the program refers to any more,
\* is as good as new.
References ==
    {row.session, held} \union {mem[o].session : o \in Objects} \union
    {g[3] : g \in ({rowSig} \union {sig[p] : p \in Procs}) \ {NoSignature}}

Fresh(s) == /\ s \in Sessions \ ({InitialSession} \union References)
            /\ server[s] \in {"none", "checked"}

NextSession(p, s) == IF p.session = NoSession THEN s = InitialSession ELSE Fresh(s)

Renewed(s) == IF s = InitialSession THEN server[s] ELSE "none"

\* deactivatePayment holds m_PaymentLock from before its save until it has
\* dropped the payment: getPayment and isPaymentActive wait for it.
PaymentLockFree == pc["ui"] \notin {"closing", "dropping"}

\* PaymentService::getPayment: the active payment, or a copy loaded from the
\* database, marked as cheated (and saved so) when its signature is wrong.
Genuine == rowSig = Signature(row)
LoadedObject(a) == IF active THEN "shared" ELSE a
\* Mutant: restore() loses the step of a payment that is loaded again.
LoadedAtFirstStep == IF active THEN mem["shared"] ELSE [row EXCEPT !.step = "Init"]

LoadedPayment == IF active THEN mem["shared"]
                 ELSE IF Genuine THEN row ELSE [row EXCEPT !.status = "Cheated"]

\* A write that the database refuses or rolls back.
FailWrite ==
    /\ faults < MaxFaults /\ faults' = faults + 1
    /\ UNCHANGED <<row, rowSig>>

SaveCheated ==
    \/ row' = LoadedPayment /\ rowSig' = Signature(LoadedPayment) /\ UNCHANGED faults
    \/ FailWrite

\* getPayment by process a, which then changes the object to p.
GetPayment(a, p) ==
    /\ PaymentLockFree
    /\ use' = [use EXCEPT ![a] = LoadedObject(a)]
    /\ mem' = [mem EXCEPT ![LoadedObject(a)] = p]
    /\ \/ (active \/ Genuine) /\ UNCHANGED <<row, rowSig, faults>>
       \/ ~active /\ ~Genuine /\ SaveCheated

Others(a) == Actors \ {a}

\* The process lets go of its object; one that nobody holds any more is gone.
Release(a) ==
    /\ use' = [use EXCEPT ![a] = NoObject]
    /\ mem' = IF \/ use[a] = a
                 \/ use[a] = "shared" /\ ~active /\ \A b \in Others(a) : use[b] # "shared"
              THEN [mem EXCEPT ![use[a]] = Dummy] ELSE mem

DropActive ==
    /\ active' = FALSE
    /\ mem' = IF \A a \in Actors : use[a] # "shared"
              THEN [mem EXCEPT !["shared"] = Dummy] ELSE mem

-----------------------------------------------------------------------------
(* The scenario: calls of the scripting proxy on the active payment. *)

\* UiWaits: a scenario calls nothing on a payment whose step is being run, and
\* changes it no more after it has handed it over to the payment thread.
MayLeave == active /\ pc["ui"] = "idle" /\ (UiWaits => pc["worker"] = "idle")
MayTouch == MayLeave /\ (UiWaits => mem["shared"].priority = "Online")

UiUnchanged == UNCHANGED <<server, row, rowSig, use, answer, sig, held, faults>>

\* A handler of the scenario that ends in savePayment.
ChangeAndSave(p) ==
    /\ mem' = [mem EXCEPT !["shared"] = p]
    /\ Goto("ui", "finish")
    /\ UNCHANGED active
    /\ UiUnchanged

\* updatePaymentFields, unless the payment thread is processing the payment.
UiUpdate ==
    /\ MayTouch
    /\ pc["thread"] \in {"idle", "pick", "force", "remove", "update", "claim", "removal"}
    /\ ChangeAndSave(mem["shared"])

\* processPayment: an online payment is processed by a worker, ...
UiProcessOnline ==
    /\ MayTouch
    /\ mem["shared"].status \in Queued
    /\ pc["worker"] = "idle"                    \* BOUND: one step at a time
    /\ Goto("worker", "queued")
    /\ UNCHANGED <<mem, active>>
    /\ UiUnchanged

\* ... and an offline one is saved for the payment thread.
UiProcessOffline ==
    /\ MayTouch
    /\ ~PayOnline
    /\ mem["shared"].status \in Queued
    /\ ChangeAndSave([mem["shared"] EXCEPT !.priority = "Offline", !.status = "ReadyForCheck"])

\* processPaymentStep(DataCheck): check of the number before the money is in.
UiDataCheck ==
    /\ MayTouch
    /\ UiWaits => mem["shared"].status = "Init"
    /\ pc["worker"] = "idle"                    \* BOUND: one step at a time
    /\ Goto("worker", "queuedCheck")
    /\ UNCHANGED <<mem, active>>
    /\ UiUnchanged

UiCancel ==
    /\ MayTouch
    /\ mem["shared"].step = "Init"
    /\ ChangeAndSave([mem["shared"] EXCEPT !.status = "Canceled"])

UiStop ==
    /\ MayTouch
    /\ ChangeAndSave([mem["shared"] EXCEPT !.status = "BadPayment"])

\* deactivatePayment: lock, save, drop.
UiDeactivate ==
    /\ MayLeave
    /\ Goto("ui", "closing")
    /\ UNCHANGED <<mem, active>>
    /\ UiUnchanged

\* createPayment for the next client drops the active payment unsaved.
UiAbandon ==
    /\ MayLeave
    /\ DropActive
    /\ UNCHANGED pc
    /\ UiUnchanged

Ui == \/ UiUpdate \/ UiProcessOnline \/ UiProcessOffline \/ UiDataCheck
      \/ UiCancel \/ UiStop \/ UiDeactivate \/ UiAbandon

-----------------------------------------------------------------------------
(* savePayment: the signature is computed first, the row written under the *)
(* database mutex afterwards.                                              *)

Object(p) == IF p = "ui" THEN "shared" ELSE use[p]

Signing == [sign |-> "write", signDone |-> "writeDone",
            finish |-> "ending", closing |-> "dropping"]

Sign(p) ==
    /\ pc[p] \in DOMAIN Signing
    /\ sig' = [sig EXCEPT ![p] = Signature(mem[Object(p)])]
    /\ Goto(p, Signing[pc[p]])
    /\ UNCHANGED <<server, row, rowSig, mem, active, use, answer, held, faults>>

WriteRow(p) ==
    /\ row' = Saved(mem[Object(p)])
    /\ rowSig' = sig[p]
    /\ UNCHANGED faults

MayWriteRow(p) == WriteRow(p) \/ FailWrite

Written(p, l) ==
    /\ sig' = [sig EXCEPT ![p] = NoSignature]
    /\ Goto(p, l)
    /\ UNCHANGED <<server, held>>

\* Mutant: PAY is sent even if the save before it has failed.
WriteOrPay(a) ==
    /\ pc[a] = "write"
    /\ MayWriteRow(a) /\ Written(a, "pay")
    /\ UNCHANGED <<mem, active, use, answer>>

\* The save of perform_TransactionPay: no PAY without it.
WriteBeforePay(a) ==
    /\ pc[a] = "write"
    /\ \/ WriteRow(a) /\ Written(a, "pay")
       \/ FailWrite /\ Written(a, "finish")
    /\ UNCHANGED <<mem, active, use, answer>>

\* The first save of a payment found complete by perform_Transaction.
WriteFound(a) ==
    /\ pc[a] = "writeDone"
    /\ MayWriteRow(a) /\ Written(a, "finish")
    /\ UNCHANGED <<mem, active, use, answer>>

\* The save that ends processPaymentStep, processPaymentInternal, removePayment.
Finish(a) ==
    /\ pc[a] = "ending"
    /\ MayWriteRow(a) /\ Written(a, "idle")
    /\ Release(a)
    /\ UNCHANGED <<active, answer>>

UiFinish ==
    /\ pc["ui"] = "ending"
    /\ MayWriteRow("ui") /\ Written("ui", "idle")
    /\ UNCHANGED <<mem, active, use, answer>>

UiDrop ==
    /\ pc["ui"] = "dropping"
    /\ MayWriteRow("ui") /\ Written("ui", "idle")
    /\ DropActive
    /\ UNCHANGED <<use, answer>>

-----------------------------------------------------------------------------
(* Payment::process on the object of process a. *)

ProcessUnchanged == UNCHANGED <<row, rowSig, active, use, sig, held, faults>>

\* Every attempt from the first step takes a new session number.
SendCheck(a) ==
    /\ pc[a] = "process"
    /\ Own(a).status \in Queued /\ Own(a).step = "Init"
    /\ \E s \in Sessions : NextSession(Own(a), s) /\
       \E r \in Check(Renewed(s)) :
          /\ SetOwn(a, [Own(a) EXCEPT !.session = s])
          /\ server' = [server EXCEPT ![s] = r[1]]
          /\ answer' = [answer EXCEPT ![a] = r[2]]
    /\ Goto(a, "check")
    /\ ProcessUnchanged

StateOf(s) == IF s \in Sessions THEN server[s] ELSE "none"

AskStatus(a) ==
    \E r \in Status(StateOf(Own(a).session)) : answer' = [answer EXCEPT ![a] = r]

\* After PAY may have been sent: ask what has become of the session.
SendStatus(a) ==
    /\ pc[a] = "process"
    /\ Own(a).status \in Queued /\ Own(a).step = "Pay"
    /\ AskStatus(a)
    /\ Goto(a, "status")
    /\ UNCHANGED <<server, mem>>
    /\ ProcessUnchanged

\* Any other status is left alone.
Skip(a) ==
    /\ pc[a] = "process"
    /\ Own(a).status \notin Queued
    /\ Goto(a, "finish")
    /\ UNCHANGED <<server, mem, answer>>
    /\ ProcessUnchanged

\* The part of an answer's handling that only changes the payment to p.
Handle(a, p, l) ==
    /\ SetOwn(a, p)
    /\ answer' = [answer EXCEPT ![a] = "none"]
    /\ Goto(a, l)
    /\ UNCHANGED server
    /\ ProcessUnchanged

Failed(a) ==
    LET p == SetProcessError(Own(a), answer[a] = "net")
    IN  IF answer[a] = "critical"
        THEN [p EXCEPT !.status = "BadPayment", !.priority = "Low"] ELSE p

\* Mutant: the new step is set without the mark that has it saved.
CheckAcceptedUnmarked(a) ==
    /\ pc[a] = "check" /\ answer[a] = "ok"
    /\ Handle(a, [Own(a) EXCEPT !.step = "Pay"], "sign")

CheckAccepted(a) ==
    /\ pc[a] = "check" /\ answer[a] = "ok"
    /\ Handle(a, SetStep(Own(a), "Pay"), "sign")

CheckRefused(a) ==
    /\ pc[a] = "check" /\ answer[a] \in {"soft", "critical", "net"}
    /\ Handle(a, Failed(a), "finish")

\* The server knows the session: perhaps it is paid already.
CheckExists(a) ==
    /\ pc[a] = "check" /\ answer[a] = "exists"
    /\ SetOwn(a, Failed(a))
    /\ AskStatus(a)
    /\ Goto(a, "recheck")
    /\ UNCHANGED server
    /\ ProcessUnchanged

\* Mutant: a known session is taken for a paid one.
FoundKnown(a) ==
    /\ pc[a] = "recheck" /\ answer[a] \in {"sent", "paid", "beyond", "notpaid"}
    /\ Handle(a, [SetStep(Own(a), "Pay") EXCEPT !.status = "Completed"], "signDone")

\* Passed on to the operator, or beyond: RESULT >= Error3 and no error.
FoundComplete(a) ==
    /\ pc[a] = "recheck" /\ answer[a] \in {"sent", "paid", "beyond"}
    /\ Handle(a, [SetStep(Own(a), "Pay") EXCEPT !.status = "Completed"], "signDone")

\* Any other answer, "sent" and "beyond" with an error too.
FoundOpen(a) ==
    /\ pc[a] = "recheck" /\ answer[a] # "paid"
    /\ Handle(a, Own(a), "finish")

SendPay(a) ==
    /\ pc[a] = "pay"
    /\ \E r \in Pay(StateOf(Own(a).session)) :
          /\ server' = [s \in Sessions |-> IF s = Own(a).session THEN r[1] ELSE server[s]]
          /\ answer' = [answer EXCEPT ![a] = r[2]]
    /\ Goto(a, "payAnswer")
    /\ UNCHANGED mem
    /\ ProcessUnchanged

\* Mutant: a PAY that is only delayed completes the payment.
PayDelayed(a) ==
    /\ pc[a] = "payAnswer"
    /\ Handle(a, IF answer[a] \in {"ok", "soft"}
                 THEN [Own(a) EXCEPT !.status = "Completed"] ELSE Failed(a), "finish")

PayAnswered(a) ==
    /\ pc[a] = "payAnswer"
    /\ Handle(a, IF answer[a] = "ok" THEN [Own(a) EXCEPT !.status = "Completed"] ELSE Failed(a),
              "finish")

\* Mutant: process() reads an error without a result as remove() does.
StatusNotPaidOrError(a) ==
    /\ pc[a] = "status" /\ answer[a] \in SaysNotPaid \union {"error"}
    /\ Handle(a, SetStep(Own(a), "Init"), "process")

\* STATUS says that the session took no money: once more from the first step.
StatusNotPaid(a) ==
    /\ pc[a] = "status" /\ answer[a] \in SaysNotPaid
    /\ Handle(a, SetStep(Own(a), "Init"), "process")

\* Mutant: process() reads "sent to the operator" as the recheck does.
StatusPaidOrSent(a) ==
    /\ pc[a] = "status" /\ answer[a] \in {"paid", "sent"}
    /\ Handle(a, [Own(a) EXCEPT !.status = "Completed"], "finish")

StatusPaid(a) ==
    /\ pc[a] = "status" /\ answer[a] = "paid"
    /\ Handle(a, [Own(a) EXCEPT !.status = "Completed"], "finish")

StatusOpen(a) ==
    /\ pc[a] = "status" /\ answer[a] \in SaysInProgress \union {"error", "net"}
    /\ Handle(a, Failed(a), "finish")

StatusUnknown(a) ==
    /\ pc[a] = "status" /\ answer[a] \in {"unknown", "beyond"}
    /\ Handle(a, Own(a), "finish")

Process(a) ==
    \/ SendCheck(a) \/ SendStatus(a) \/ Skip(a)
    \/ CheckAccepted(a) \/ CheckRefused(a) \/ CheckExists(a)
    \/ FoundComplete(a) \/ FoundOpen(a)
    \/ SendPay(a) \/ PayAnswered(a)
    \/ StatusNotPaid(a) \/ StatusPaid(a) \/ StatusOpen(a) \/ StatusUnknown(a)

-----------------------------------------------------------------------------
(* The worker: processPaymentStep(aBlocking). *)

\* perform_Step(Pay)
WorkerPays ==
    /\ pc["worker"] = "queued"
    /\ GetPayment("worker", [LoadedPayment EXCEPT !.status = "ProcessError"])
    /\ Goto("worker", "process")
    /\ UNCHANGED <<server, active, answer, sig, held>>

\* perform_Step(DataCheck): a temporary session while the number is checked.
WorkerChecks ==
    /\ pc["worker"] = "queuedCheck"
    /\ \E s \in Sessions :
          /\ Fresh(s)
          /\ GetPayment("worker", [LoadedPayment EXCEPT !.session = s])
    /\ held' = LoadedPayment.session
    /\ Goto("worker", "fakeCheck")
    /\ UNCHANGED <<server, active, answer, sig>>

WorkerChecked ==
    /\ pc["worker"] = "fakeCheck"
    /\ SetOwn("worker", [Own("worker") EXCEPT !.session = held])
    /\ held' = NoSession
    /\ Goto("worker", "finish")
    /\ UNCHANGED <<server, row, rowSig, active, use, answer, sig, faults>>

Worker == WorkerPays \/ WorkerChecks \/ WorkerChecked

-----------------------------------------------------------------------------
(* The payment thread. *)

\* Mutant: the query of the queue leaves out payments whose last try failed.
PickUntried ==
    /\ pc["thread"] = "idle"
    /\ row.status \in Queued \ {"ProcessError"}
    /\ Goto("thread", "pick")
    /\ UNCHANGED <<server, row, rowSig, mem, active, use, answer, sig, held, faults>>

\* The payment is first in the queue of the database: saved, due, and the
\* terminal is connected (how long that takes is left open).
Pick ==
    /\ pc["thread"] = "idle"
    /\ row.status \in Queued
    /\ Goto("thread", "pick")
    /\ UNCHANGED <<server, row, rowSig, mem, active, use, answer, sig, held, faults>>

\* A queued command for the payment is run (one that finds it in the database).
Command(c) ==
    /\ pc["thread"] = "idle"
    /\ c \in Commands
    /\ rowSig # NoSignature
    /\ Goto("thread", c)
    /\ UNCHANGED <<server, row, rowSig, mem, active, use, answer, sig, held, faults>>

ThreadLoads(l, p, next) ==
    /\ pc["thread"] = l
    /\ GetPayment("thread", p)
    /\ Goto("thread", next)
    /\ UNCHANGED <<server, active, answer, sig, held>>

LoadQueued == ThreadLoads("pick", LoadedPayment, "claim")

\* registerForcePaymentCommand: whatever its status, process it now.
LoadForced ==
    ThreadLoads("force", [LoadedPayment EXCEPT !.status = "ProcessError", !.tries = 1], "claim")

\* The delayed part of updatePaymentFields.
LoadUpdated == ThreadLoads("update", LoadedPayment, "finish")

\* removePayment: at the first step, the payment is deleted; ...
RemoveUnpaid ==
    /\ LoadedPayment.step = "Init"
    /\ ThreadLoads("remove", [LoadedPayment EXCEPT !.status = "Deleted"], "finish")

\* ... later, only if the server does not have it.
RemoveAsks ==
    /\ pc["thread"] = "remove"
    /\ LoadedPayment.step = "Pay"
    /\ GetPayment("thread", LoadedPayment)
    /\ \E r \in Status(StateOf(LoadedPayment.session)) :
          answer' = [answer EXCEPT !["thread"] = r]
    /\ Goto("thread", "removal")
    /\ UNCHANGED <<server, active, sig, held>>

RemoveAgreed ==
    /\ pc["thread"] = "removal" /\ answer["thread"] \in SaysNotPaid \union {"error"}
    /\ Handle("thread", [Own("thread") EXCEPT !.status = "Deleted"], "finish")

Leave ==
    /\ Release("thread")
    /\ answer' = [answer EXCEPT !["thread"] = "none"]
    /\ Goto("thread", "idle")
    /\ UNCHANGED <<server, row, rowSig, active, sig, held, faults>>

RemoveRefused ==
    /\ pc["thread"] = "removal" /\ answer["thread"] \notin SaysNotPaid \union {"error"}
    /\ Leave

\* Mutant: the payment thread also takes the payment of the scenario.
NotLeft == FALSE

\* processPaymentInternal: the scenario's own payment is left to it ...
OnlineActive == use["thread"] = "shared" /\ active /\ Own("thread").priority = "Online"

ClaimDenied ==
    /\ pc["thread"] = "claim" /\ PaymentLockFree
    /\ OnlineActive
    /\ Leave

\* ... a payment that may be processed offline is processed, ...
ClaimOffline ==
    /\ pc["thread"] = "claim" /\ PaymentLockFree
    /\ ~OnlineActive /\ ~PayOnline
    /\ Handle("thread", [Own("thread") EXCEPT !.priority = "Offline"], "process")

\* Mutant: an online payment that has not failed is processed all the same.
ClaimAny ==
    /\ pc["thread"] = "claim" /\ PaymentLockFree
    /\ ~OnlineActive /\ PayOnline
    /\ IF Own("thread").status = "ProcessError"
       THEN Handle("thread", [Own("thread") EXCEPT !.status = "BadPayment"], "finish")
       ELSE Handle("thread", Own("thread"), "process")

\* ... and another is given up after a failure or too long a time.
ClaimOnline ==
    /\ pc["thread"] = "claim" /\ PaymentLockFree
    /\ ~OnlineActive /\ PayOnline
    /\ \E tooOld \in BOOLEAN :
         Handle("thread",
                IF tooOld \/ Own("thread").status = "ProcessError"
                THEN [Own("thread") EXCEPT !.status = "BadPayment"] ELSE Own("thread"),
                "finish")

Thread ==
    \/ Pick \/ (\E c \in Commands : Command(c))
    \/ LoadQueued \/ LoadForced \/ LoadUpdated
    \/ RemoveUnpaid \/ RemoveAsks \/ RemoveAgreed \/ RemoveRefused
    \/ ClaimDenied \/ ClaimOffline \/ ClaimOnline

-----------------------------------------------------------------------------
(* The environment. *)

ServerSettles ==
    /\ \E s \in Sessions : \E r \in Settle(server[s]) : server' = [server EXCEPT ![s] = r]
    /\ UNCHANGED <<row, rowSig, mem, active, pc, use, answer, sig, held, faults>>

\* The program stops and is started again: the database is all it has.
Crash ==
    /\ faults < MaxFaults
    /\ faults' = faults + 1
    /\ mem' = [o \in Objects |-> Dummy]
    /\ active' = FALSE
    /\ pc' = [p \in Procs |-> "idle"]
    /\ use' = [a \in Actors |-> NoObject]
    /\ answer' = [a \in Actors |-> "none"]
    /\ sig' = [p \in Procs |-> NoSignature]
    /\ held' = NoSession
    /\ UNCHANGED <<server, row, rowSig>>

Saves ==
    \/ \E p \in Procs : Sign(p)
    \/ \E a \in Actors : WriteBeforePay(a) \/ WriteFound(a) \/ Finish(a)
    \/ UiFinish \/ UiDrop

Next ==
    \/ Ui \/ Worker \/ Thread \/ Saves
    \/ \E a \in Actors : Process(a)
    \/ ServerSettles \/ Crash

Spec == Init /\ [][Next]_vars

-----------------------------------------------------------------------------
(* Properties *)

Taken(s) == server[s] \in Charged

\* An object the program still holds.
Live(o) == (o = "shared" /\ active) \/ \E a \in Actors : use[a] = o

\* The client pays once: at no moment have two sessions of one payment taken, or
\* may still take, money (the purpose of the save before PAY in
\* Payment::perform_TransactionPay and of the STATUS request in process).
AtMostOnePaid ==
    \A s, t \in Sessions : Taken(s) /\ Taken(t) => s = t

\* Money the server took is known to the database, under the session that took
\* it: a kiosk that loses everything else finds the payment, asks for its
\* status and never starts it anew.
Recorded ==
    \A s \in Sessions : Taken(s) => row.step = "Pay" /\ row.session = s

\* A payment stored as completed is one the operator was paid for.
CompletedIsPaid ==
    row.status = "Completed" => \E s \in Sessions : server[s] = "paid"

\* "Cheated" is what a payment becomes when the database was tampered with.
\* Nobody here does that: the program alone writes the row.
NeverCheated ==
    row.status # "Cheated"

\* Whatever the scenario does, the client is not told that the payment is
\* complete before a PAY of it has reached the operator.
CompletedIsSent ==
    row.status = "Completed" => \E s \in Sessions : server[s] \in Charged \union {"failed"}

\* At the moment money is taken the row says all that a restarted kiosk needs:
\* the payment is still queued, at the second step, with this session.
PayIsRecoverable ==
    [][\A s \in Sessions : ~Taken(s) /\ Taken(s)' =>
          row.status \in Queued /\ row.step = "Pay" /\ row.session = s]_vars

\* A payment that may only be paid online takes money only while the scenario's
\* own worker asks for it.
OnlyWorkerPays ==
    [][\A s \in Sessions : ~Taken(s) /\ Taken(s)' => pc["worker"] = "pay"]_vars

\* The abstract specification: the attempts to pay are the sessions.
Promise == INSTANCE PayOnce WITH
    Attempts <- Sessions,
    taken    <- {s \in Sessions : Taken(s)},
    settled  <- \E s \in Sessions : server[s] = "paid",
    verdict  <- IF row.status = "Completed" THEN "completed"
                ELSE IF row.status \in Queued THEN "open" ELSE "closed"

ImplementsPayOnce == Promise!Spec

-----------------------------------------------------------------------------
(* Every payment that the scenario has left comes to an end: fairness.     *)

NoSessionLeft == \A s \in Sessions : ~Fresh(s)

\* The payment thread runs (its timer is started again at the end of every
\* onProcessPayments), and its requests are answered in the end by more than a
\* transport error or an unknown result.
ThreadStep ==
    \/ Thread \/ Process("thread") \/ Sign("thread")
    \/ WriteBeforePay("thread") \/ WriteFound("thread") \/ Finish("thread")

Fairness ==
    /\ WF_vars(ThreadStep)
    /\ SF_vars(SendCheck("thread") /\ answer'["thread"] # "net")
    /\ SF_vars(SendPay("thread") /\ answer'["thread"] # "net")
    /\ SF_vars(SendStatus("thread") /\ answer'["thread"] \notin {"net", "unknown", "beyond"})

FairSpec == Spec /\ Fairness

\* A payment the scenario has left is, in the end, completed or given up.
ComesToAnEnd ==
    (~active /\ row.status \in Queued) ~> (row.status \notin Queued \/ NoSessionLeft)
-----------------------------------------------------------------------------
(* Why a payment is paid once when the scenario waits: the inductive       *)
(* invariant behind AtMostOnePaid and Recorded.                            *)

\* Where a process is inside Payment::process, with a request still to come.
Processing == {"process", "check", "sign", "write", "pay", "payAnswer", "status"}

NothingTaken == \A s \in Sessions : ~Taken(s)

\* Who holds which object: a process inside a job holds one, and a copy of its
\* own only once the scenario has left the payment.
HoldsObject == Processing \union {"fakeCheck", "recheck", "signDone", "writeDone", "claim",
                                  "removal", "finish", "ending"}
Holding ==
    \A a \in Actors :
        /\ use[a] \in {NoObject, "shared", a}
        /\ pc[a] \in HoldsObject <=> use[a] # NoObject
        /\ use[a] = a => ~active
        /\ pc[a] \notin {"closing", "dropping"}

\* A scenario that waits leaves the worker alone, and is there when it ends.
Waiting ==
    /\ pc["worker"] # "idle" => active
    /\ pc["ui"] # "idle" => active /\ pc["worker"] = "idle"

\* Whose turn it is: the priority of the active payment says so.
Turns ==
    /\ pc["worker"] \in Processing \union {"queued", "queuedCheck", "fakeCheck"}
         => mem["shared"].priority = "Online"
    /\ pc["thread"] \in Processing /\ active => mem["shared"].priority # "Online"
    /\ pc["thread"] # "fakeCheck"

\* A payment still being filled in has taken no money.
Untouched ==
    /\ active /\ mem["shared"].status = "Init" =>
         /\ mem["shared"].priority = "Online"
         /\ pc["worker"] \notin Processing
         /\ NothingTaken
    /\ pc["worker"] \in {"queuedCheck", "fakeCheck"} => NothingTaken

\* Every copy of the payment agrees on the session that took money.
Agreed ==
    \A s \in Sessions : Taken(s) =>
        /\ row.step = "Pay" /\ row.session = s
        /\ \A o \in Objects : Live(o) => mem[o].step = "Pay" /\ mem[o].session = s

\* An attempt is begun only when no earlier one has taken money, and sends PAY
\* only when the row has it.
Attempt ==
    \A a \in Actors :
        /\ pc[a] \in {"check", "sign", "write", "pay"} => NothingTaken
        /\ pc[a] \in {"sign", "write", "pay"} => Own(a).step = "Pay" /\ Own(a).stepSet
        /\ pc[a] = "pay" => row.step = "Pay" /\ row.session = Own(a).session
        /\ pc[a] = "status" /\ answer[a] \in SaysNotPaid => NothingTaken

\* The inductive invariant of a scenario that waits for its steps: who may run
\* (Payment::process under the locks of PaymentService), and what row and objects
\* say of the session that took money.
IInv == TypeOK /\ Holding /\ Waiting /\ Turns /\ Untouched /\ Agreed /\ Attempt
=============================================================================

---------------------------- MODULE CashAcceptor ----------------------------
(***************************************************************************)
(* CashAcceptorManager between the bill and coin acceptors and the         *)
(* PaymentService, and the customer scenario that drives it.               *)
(*                                                                         *)
(* Each driver works in a thread of its own and its signals reach the main *)
(* thread through a queue.  `dev' is what the driver and the hardware are  *)
(* doing, `ctx' is m_PaymentData: the payment being filled, the sum taken, *)
(* its maximum and the acceptors that take part (validators).  The         *)
(* scenarios are scripts outside src/; `stage' keeps the order their       *)
(* interface ICashAcceptorManager asks of them: change left over is used   *)
(* or given up before money is taken, and a payment is left only after the *)
(* signal disabled().                                                      *)
(***************************************************************************)
EXTENDS ChangeLedger

CONSTANTS
    Acceptors,              \* m_DeviceList
    Coins,                  \* the acceptors that keep what is inserted, no escrow
    Nominal,                \* the nominal each acceptor is fed with
    DisableAmountOverflow,  \* the setting: no notes that would give change
    FixedAmount,            \* payments whose smallest and largest sum agree
    MaxNotes,               \* bound: notes and coins inserted
    MaxFaults               \* bound: failures of devices and stops of the program

ASSUME AcceptorAssumption ==
    /\ IsFiniteSet(Acceptors)
    /\ Coins \subseteq Acceptors
    /\ Nominal \in [Acceptors -> Nat \ {0}]
    /\ DisableAmountOverflow \in BOOLEAN
    /\ FixedAmount \subseteq PaymentIds
    /\ MaxNotes \in Nat
    /\ MaxFaults \in Nat

VARIABLES
    dev,       \* the driver and hardware of each acceptor
    queue,     \* its signals the main thread has not handled yet
    subs,      \* acceptors whose escrow and stacked signals are subscribed
    ctx,       \* m_PaymentData
    stage,     \* where the scenario is
    inserted,  \* history: what each acceptor took while a payment was active
    fed,       \* how many notes and coins have been inserted
    faults     \* failures, timeouts and stops so far

acceptorVars == <<dev, queue, subs, ctx, stage, inserted, fed, faults>>
vars == <<ledger, acceptorVars>>

Signals == {"escrow", "stacked", "disabled", "error"}
Stages  == {"none", "new", "ready", "accepting", "stopping", "over", "closed"}

NoContext == [payment |-> NoPayment, current |-> 0, max |-> 0, validators |-> {}]
Off       == [on |-> FALSE, failed |-> FALSE, phase |-> "idle", stop |-> FALSE,
              payer |-> NoPayment]

Init ==
    /\ LedgerInit
    /\ dev = [a \in Acceptors |-> Off]
    /\ queue = [a \in Acceptors |-> <<>>]
    /\ subs = {}
    /\ ctx = NoContext
    /\ stage = "none"
    /\ inserted = [a \in Acceptors |-> [p \in PaymentIds |-> 0]]
    /\ fed = 0
    /\ faults = 0

-----------------------------------------------------------------------------
(* The driver *)

Emit(a, signal) == queue' = [queue EXCEPT ![a] = Append(@, signal)]

\* Escrow and stacked reach the manager only while it is subscribed to them.
EmitNote(a, signal) ==
    IF a \in subs THEN Emit(a, signal) ELSE queue' = queue

\* setEnable(FALSE) of the acceptors in A: one that is off or has failed says
\* so at once, one that is on is to stop when no note is under way.
Answering(A) == {a \in A : ~dev[a].on \/ dev[a].failed}

\* Mutant: an acceptor with a note under way is left on.
SwitchedOffUnlessStacking(A) ==
    [a \in Acceptors |->
        [dev[a] EXCEPT !.on   = @ /\ a \notin Answering(A),
                       !.stop = IF a \in A /\ dev[a].phase # "stacking"
                                THEN a \notin Answering(A) ELSE @]]

SwitchedOff(A) ==
    [a \in Acceptors |->
        [dev[a] EXCEPT !.on   = @ /\ a \notin Answering(A),
                       !.stop = IF a \in A THEN a \notin Answering(A) ELSE @]]

Answered(q, A) ==
    [a \in Acceptors |->
        IF a \in Answering(A) THEN Append(q[a], "disabled") ELSE q[a]]

\* The customer feeds a note or a coin; a coin cannot be given back.  The driver
\* does not poll between setEnable(FALSE) and its deferred part.
Insert(a) ==
    /\ fed < MaxNotes
    /\ dev[a].on
    /\ ~dev[a].failed
    /\ ~dev[a].stop
    /\ dev[a].phase = "idle"
    /\ fed' = fed + 1
    /\ dev' = [dev EXCEPT ![a].phase = IF a \in Coins THEN "stacking" ELSE "escrow",
                          ![a].payer = active]
    /\ IF a \in Coins THEN queue' = queue ELSE EmitNote(a, "escrow")
    /\ UNCHANGED <<ledger, subs, ctx, stage, inserted, faults>>

\* A note in escrow goes back because the acceptor is to stop.
ReturnNote(a) ==
    /\ dev[a].phase = "escrow"
    /\ dev[a].stop
    /\ dev' = [dev EXCEPT ![a].phase = "idle", ![a].payer = NoPayment]
    /\ UNCHANGED <<ledger, queue, subs, ctx, stage, inserted, fed, faults>>

\* A note in escrow goes back because nobody has answered for too long.
EscrowTimeout(a) ==
    /\ faults < MaxFaults
    /\ dev[a].phase = "escrow"
    /\ ~dev[a].stop
    /\ faults' = faults + 1
    /\ dev' = [dev EXCEPT ![a].phase = "idle", ![a].payer = NoPayment]
    /\ UNCHANGED <<ledger, queue, subs, ctx, stage, inserted, fed>>

Stacked(a) ==
    /\ dev[a].phase = "stacking"
    /\ dev' = [dev EXCEPT ![a].phase = "idle", ![a].payer = NoPayment]
    /\ inserted' = [inserted EXCEPT ![a] = [p \in PaymentIds |->
                        @[p] + IF p = dev[a].payer THEN Nominal[a] ELSE 0]]
    /\ EmitNote(a, "stacked")
    /\ UNCHANGED <<ledger, subs, ctx, stage, fed, faults>>

\* The deferred part of setEnable(FALSE): never with a note under way.
Stop(a) ==
    /\ dev[a].on
    /\ dev[a].stop
    /\ dev[a].phase = "idle"
    /\ dev' = [dev EXCEPT ![a].on = FALSE, ![a].stop = FALSE]
    /\ Emit(a, "disabled")
    /\ UNCHANGED <<ledger, subs, ctx, stage, inserted, fed, faults>>

\* An error of the device; a note under way is not reported any more.
Fail(a) ==
    /\ faults < MaxFaults
    /\ ~dev[a].failed
    /\ faults' = faults + 1
    /\ dev' = [dev EXCEPT ![a].failed = TRUE, ![a].phase = "idle",
                          ![a].stop = FALSE, ![a].payer = NoPayment]
    /\ Emit(a, "error")
    /\ UNCHANGED <<ledger, subs, ctx, stage, inserted, fed>>

\* The error is gone; a device nobody has switched off takes notes again.
Recover(a) ==
    /\ dev[a].failed
    /\ dev' = [dev EXCEPT ![a].failed = FALSE]
    /\ UNCHANGED <<ledger, queue, subs, ctx, stage, inserted, fed, faults>>

-----------------------------------------------------------------------------
(* CashAcceptorManager *)

\* Mutant: the maximum itself does not count as reached.
MaxAmountPassed(c) == c.current > c.max

MaxAmountReached(c) == c.current >= c.max

\* The scenario hears disabled(p): the payment takes no more money.
Heard(p, s) == IF p = active /\ s \in {"accepting", "stopping"} THEN "over" ELSE s

Enable(p, max) ==
    LET base == IF ctx.payment = p
                THEN IF ctx.current = 0 THEN [ctx EXCEPT !.max = max] ELSE ctx
                ELSE [NoContext EXCEPT !.payment = p, !.max = max]
        ready == {a \in Acceptors : ~dev[a].failed}
        refused == ctx.payment = p /\ MaxAmountReached(base)
    IN
    IF refused
    THEN /\ ctx' = base
         /\ stage' = "over"
         /\ UNCHANGED <<dev, queue, subs>>
    ELSE /\ ctx' = [base EXCEPT !.validators = @ \cup ready]
         /\ dev' = [a \in Acceptors |->
                        IF a \in ready THEN [dev[a] EXCEPT !.on = TRUE] ELSE dev[a]]
         /\ subs' = subs \cup ready
         /\ stage' = IF ctx'.validators = {} THEN "over" ELSE "accepting"
         /\ UNCHANGED queue

\* Mutant: disabled() is emitted without waiting for the acceptors.
DisableAtOnce(p) ==
    /\ stage' = "over"
    /\ dev' = SwitchedOff(ctx.validators)
    /\ queue' = Answered(queue, ctx.validators)

Disable(p) ==
    IF ctx.payment # p
    THEN /\ stage' = "over"
         /\ UNCHANGED <<dev, queue>>
    ELSE /\ dev' = SwitchedOff(ctx.validators)
         /\ queue' = Answered(queue, ctx.validators)
         /\ stage' = IF ctx.validators = {} THEN "over" ELSE "stopping"

\* The next event of the main thread is this signal of the acceptor a.
Signalled(a, signal) ==
    /\ MainIdle
    /\ queue[a] # <<>>
    /\ Head(queue[a]) = signal

Taken(a) == [queue EXCEPT ![a] = Tail(@)]

\* allowMoreMoney: would the payment with this note have change to give?
AllowMoreMoney(a) == Split(Money(ctx.payment).all + Nominal[a]).change = 0

\* onEscrowChangeControl and onEscrow: stack() or reject(); a note that has
\* gone back meanwhile is past both.
OnEscrow(a) ==
    LET accepted ==
            /\ a \in ctx.validators
            /\ ~DisableAmountOverflow \/ ctx.payment \in FixedAmount \/ AllowMoreMoney(a)
            /\ ~MaxAmountReached(ctx)
    IN
    /\ Signalled(a, "escrow")
    /\ queue' = Taken(a)
    /\ dev' = IF dev[a].phase # "escrow" THEN dev
              ELSE IF accepted THEN [dev EXCEPT ![a].phase = "stacking"]
              ELSE [dev EXCEPT ![a].phase = "idle", ![a].payer = NoPayment]
    /\ UNCHANGED <<ledger, subs, ctx, stage, inserted, fed, faults>>

\* onStacked, with onAmountUpdated of the PaymentService; at the maximum every
\* acceptor is switched off.  What an acceptor that takes no part has stacked is
\* only logged.
OnStacked(a) ==
    LET new == [ctx EXCEPT !.current = @ + Nominal[a]] IN
    /\ Signalled(a, "stacked")
    /\ IF a \in ctx.validators
       THEN /\ ctx' = new
            /\ AmountUpdated(ctx.payment, Nominal[a])
       ELSE UNCHANGED <<ctx, ledger>>
    /\ IF a \in ctx.validators /\ MaxAmountReached(new)
       THEN /\ dev' = SwitchedOff(ctx.validators)
            /\ queue' = Answered(Taken(a), ctx.validators)
       ELSE /\ dev' = dev
            /\ queue' = Taken(a)
    /\ UNCHANGED <<subs, stage, inserted, fed, faults>>

\* onStatusChanged, an error: the acceptance is broken off, the scenario waits
\* for the acceptors that are still on.
OnError(a) ==
    /\ Signalled(a, "error")
    /\ dev' = SwitchedOff(ctx.validators)
    /\ queue' = Answered(Taken(a), ctx.validators)
    /\ stage' = IF ctx.payment # NoPayment /\ ctx.validators = {}
                THEN Heard(ctx.payment, stage)
                ELSE IF ctx.payment = active /\ stage = "accepting" THEN "stopping"
                ELSE stage
    /\ UNCHANGED <<ledger, subs, ctx, inserted, fed, faults>>

\* Mutant: the first acceptor that is off ends the acceptance.
OnFirstDisabled(a) ==
    /\ Signalled(a, "disabled")
    /\ queue' = Taken(a)
    /\ subs' = subs \ {a}
    /\ ctx' = [ctx EXCEPT !.validators = @ \ {a}]
    /\ stage' = Heard(ctx.payment, stage)
    /\ UNCHANGED <<ledger, dev, inserted, fed, faults>>

\* onStatusChanged, the acceptor has been switched off; after the last one the
\* payment is told that it takes no more money.
OnDisabled(a) ==
    LET left == ctx.validators \ {a} IN
    /\ Signalled(a, "disabled")
    /\ queue' = Taken(a)
    /\ subs' = subs \ {a}
    /\ ctx' = [ctx EXCEPT !.validators = left]
    /\ stage' = IF ctx.payment # NoPayment /\ left = {}
                THEN Heard(ctx.payment, stage) ELSE stage
    /\ UNCHANGED <<ledger, dev, inserted, fed, faults>>

-----------------------------------------------------------------------------
(* The scenario *)

idleAcceptor == <<dev, queue, subs, ctx, inserted, fed, faults>>

StartPayment ==
    /\ stage = "none"
    /\ CreatePayment
    /\ stage' = "new"
    /\ UNCHANGED idleAcceptor

\* Change left over is used for the new payment or given up.
UseChange ==
    /\ stage = "new"
    /\ MoveChangeToPayment
    /\ stage' = "ready"
    /\ UNCHANGED idleAcceptor

GiveUpChange ==
    /\ stage \in {"new", "over"}
    /\ ResetChange
    /\ stage' = IF stage = "new" THEN "ready" ELSE "closed"
    /\ UNCHANGED idleAcceptor

\* A customer's touch is handled after what the acceptors signalled before it.
StartAccepting ==
    /\ MainIdle
    /\ stage \in {"ready", "over"} \/ (stage = "new" /\ Leftover = 0)
    /\ \A a \in Acceptors : queue[a] = <<>>
    /\ Enable(active, MaxAmountAll)
    /\ UNCHANGED <<ledger, inserted, fed, faults>>

StopAccepting ==
    /\ MainIdle
    /\ stage = "accepting"
    /\ Disable(active)
    /\ UNCHANGED <<ledger, subs, ctx, inserted, fed, faults>>

\* The customer cancels: the money taken becomes change.
CancelPayment ==
    /\ stage = "over"
    /\ MovePaymentToChange
    /\ stage' = "closed"
    /\ UNCHANGED idleAcceptor

LeavePayment ==
    /\ stage \in {"new", "ready", "over", "closed"}
    /\ DeactivatePayment
    /\ stage' = "none"
    /\ UNCHANGED idleAcceptor

\* Encashment is made from the service menu, with no payment open.
PerformEncashment ==
    /\ stage = "none"
    /\ Encash
    /\ UNCHANGED <<stage, idleAcceptor>>

SaveNext == Save /\ UNCHANGED acceptorVars

\* The program stops; the drivers switch the acceptors off as they start.
Crash ==
    /\ faults < MaxFaults
    /\ faults' = faults + 1
    /\ LedgerCrash
    /\ dev' = [a \in Acceptors |-> Off]
    /\ queue' = [a \in Acceptors |-> <<>>]
    /\ subs' = {}
    /\ ctx' = NoContext
    /\ stage' = "none"
    /\ UNCHANGED <<inserted, fed>>

Driver(a) ==
    \/ Insert(a) \/ ReturnNote(a) \/ EscrowTimeout(a) \/ Stacked(a)
    \/ Stop(a) \/ Fail(a) \/ Recover(a)

Manager(a) ==
    \/ OnEscrow(a) \/ OnStacked(a) \/ OnError(a) \/ OnDisabled(a)

Scenario ==
    \/ StartPayment \/ UseChange \/ GiveUpChange \/ StartAccepting
    \/ StopAccepting \/ CancelPayment \/ LeavePayment \/ PerformEncashment

Next ==
    \/ \E a \in Acceptors : Driver(a) \/ Manager(a)
    \/ Scenario
    \/ SaveNext
    \/ Crash

\* The event loop takes every event posted to it, and a driver finishes what it
\* has begun; nobody has to feed a note or to touch the screen.
Fairness ==
    /\ WF_vars(SaveNext)
    /\ \A a \in Acceptors :
        /\ WF_vars(Manager(a))
        /\ WF_vars(Stacked(a))
        /\ WF_vars(ReturnNote(a))
        /\ WF_vars(Stop(a))

Spec == Init /\ [][Next]_vars /\ Fairness

-----------------------------------------------------------------------------
(* Properties *)

Devices == [on : BOOLEAN, failed : BOOLEAN, stop : BOOLEAN,
            phase : {"idle", "escrow", "stacking"}, payer : PaymentIds \cup {NoPayment}]

Contexts == [payment : PaymentIds \cup {NoPayment}, current : Nat, max : Nat,
             validators : SUBSET Acceptors]

TypeOK ==
    /\ LedgerTypeOK
    /\ dev \in [Acceptors -> Devices]
    /\ queue \in [Acceptors -> Seq(Signals)]
    /\ subs \subseteq Acceptors
    /\ ctx \in Contexts
    /\ stage \in Stages
    /\ inserted \in [Acceptors -> [PaymentIds -> Nat]]
    /\ fed \in 0..MaxNotes
    /\ faults \in 0..MaxFaults

InsertedFor(p) == SumFunction([a \in Acceptors |-> inserted[a][p]])

\* With no failure no note is lost or booked to another payment: once the
\* scenario has heard disabled(p), every note the acceptors took while p was
\* active is a row of payment_note for p, and no more can come.
AmountIsFinal ==
    (faults = 0 /\ MainIdle /\ stage \notin {"accepting", "stopping"})
        => \A p \in PaymentIds : NotesOf(p) = InsertedFor(p)

\* disabled(p) means off: no acceptor takes money while no payment waits for it.
DisabledIsOff ==
    stage \notin {"accepting", "stopping"} => \A a \in Acceptors : ~dev[a].on

\* With no failure the rows of the payments and of the change, the lost change
\* included, hold exactly what payment_note says was taken.
Conserved == (faults = 0 /\ MainIdle) => Recorded = AllNotes

\* With every note answered in time an acceptor with escrow takes at most one
\* note past the maximum, whatever the coins and the switching off do meanwhile.
StopsAtMaximum ==
    faults = 0 => \A a \in Acceptors \ Coins, p \in PaymentIds :
        inserted[a][p] < MaxAmountAll + Nominal[a]

\* Switching off ends: with a failing acceptor, a note under way or both, the
\* scenario hears disabled() or is started anew.
StoppingEnds == stage = "stopping" ~> stage # "stopping"

=============================================================================

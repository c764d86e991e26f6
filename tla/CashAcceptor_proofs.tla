------------------------ MODULE CashAcceptor_proofs ------------------------
(***************************************************************************)
(* The acceptors, the manager and the scenario over the ledger: which      *)
(* acceptor may be on at which stage (AcceptorInv), which operation of the *)
(* ledger a step performs (LedgerStep), and from the two what holds of the *)
(* notes and of the money.  While nothing fails, the order of the signals  *)
(* in the queues (Calm) and the notes booked per acceptor (Tally) give     *)
(* that no note is lost and that the acceptance stops at the maximum.      *)
(***************************************************************************)
EXTENDS CashAcceptor, ChangeLedger_proofs

Taking == stage \in {"accepting", "stopping"}

\* No signal disabled() waits in the queue q.
NotTold(q) == \A i \in DOMAIN q : q[i] # "disabled"

\* Acceptors take part only between enable() and disabled(p), for the active
\* payment, and one that is on takes part and has not reported itself off.
OnTakesPart ==
    /\ ~Taking => ctx.validators = {}
    /\ Taking => ctx.payment = active
    /\ \A a \in Acceptors : dev[a].on => a \in ctx.validators /\ NotTold(queue[a])

\* A payment is open at every stage but "none"; a new one is empty, and from
\* the time change has been used or given up its change is the change there is.
StageFits ==
    /\ (stage = "none") <=> (active = NoPayment)
    /\ stage = "new" => obj = Nothing
    /\ stage \in {"ready", "accepting", "stopping", "over"} => obj.change = Leftover

AcceptorInv == TypeOK /\ OnTakesPart /\ StageFits

-----------------------------------------------------------------------------
(* Queues and devices *)

\* What a signal added to a queue or taken from it changes.
LEMMA QueueIs ==
    ASSUME NEW q \in Seq(Signals)
    PROVE  /\ NotTold(<<>>)
           /\ \A s \in Signals :
                /\ Append(q, s) \in Seq(Signals)
                /\ s # "disabled" /\ NotTold(q) => NotTold(Append(q, s))
           /\ q # <<>> => /\ Tail(q) \in Seq(Signals)
                          /\ NotTold(q) => NotTold(Tail(q)) /\ Head(q) # "disabled"
<1>1. NotTold(<<>>)
  BY DEF NotTold
<1>2. ASSUME NEW s \in Signals
      PROVE  /\ Append(q, s) \in Seq(Signals)
             /\ s # "disabled" /\ NotTold(q) => NotTold(Append(q, s))
  BY <1>2 DEF NotTold
<1>3. ASSUME q # <<>>
      PROVE  /\ Tail(q) \in Seq(Signals)
             /\ NotTold(q) => NotTold(Tail(q)) /\ Head(q) # "disabled"
  BY <1>3 DEF NotTold
<1>4. QED
  BY <1>1, <1>2, <1>3

\* Switching off turns no acceptor on, and one that stays on has not answered.
LEMMA SwitchedOffIs ==
    ASSUME dev \in [Acceptors -> Devices], NEW A
    PROVE  /\ SwitchedOff(A) \in [Acceptors -> Devices]
           /\ \A a \in Acceptors :
                SwitchedOff(A)[a].on => dev[a].on /\ a \notin Answering(A)
<1>1. ASSUME NEW a \in Acceptors
      PROVE  /\ SwitchedOff(A)[a] \in Devices
             /\ SwitchedOff(A)[a].on => dev[a].on /\ a \notin Answering(A)
  <2>1. dev[a] \in Devices
    OBVIOUS
  <2>2. SwitchedOff(A)[a] = [dev[a] EXCEPT !.on   = @ /\ a \notin Answering(A),
                                           !.stop = IF a \in A THEN a \notin Answering(A) ELSE @]
    BY DEF SwitchedOff
  <2>3. QED
    BY <2>1, <2>2, Zenon DEF Devices
<1>2. QED
  BY <1>1 DEF SwitchedOff

\* An acceptor that answers has disabled() added to its queue, no other has.
LEMMA AnsweredIs ==
    ASSUME NEW q \in [Acceptors -> Seq(Signals)], NEW A
    PROVE  /\ Answered(q, A) \in [Acceptors -> Seq(Signals)]
           /\ \A a \in Acceptors : a \notin Answering(A) => Answered(q, A)[a] = q[a]
<1>1. "disabled" \in Signals
  BY DEF Signals
<1>2. \A a \in Acceptors : Append(q[a], "disabled") \in Seq(Signals)
  BY <1>1
<1>3. QED
  BY <1>2 DEF Answered

\* What one step of a driver changes, and what it leaves alone.
LEMMA DriverStep ==
    ASSUME TypeOK, NEW a \in Acceptors, Driver(a)
    PROVE  /\ UNCHANGED <<ledger, subs, ctx, stage>>
           /\ dev' \in [Acceptors -> Devices] /\ queue' \in [Acceptors -> Seq(Signals)]
           /\ \A b \in Acceptors :
                dev'[b].on => dev[b].on /\ (NotTold(queue[b]) => NotTold(queue'[b]))
           /\ fed' \in 0..MaxNotes /\ faults' \in 0..MaxFaults
<1>1. /\ dev \in [Acceptors -> Devices] /\ queue \in [Acceptors -> Seq(Signals)]
      /\ fed \in 0..MaxNotes /\ faults \in 0..MaxFaults /\ dev[a] \in Devices
      /\ active \in PaymentIds \cup {NoPayment}
  BY DEF TypeOK, LedgerTypeOK
<1>2. ASSUME NEW s \in Signals, Emit(a, s)
      PROVE  /\ queue' \in [Acceptors -> Seq(Signals)]
             /\ \A b \in Acceptors :
                  (b # a \/ s # "disabled") /\ NotTold(queue[b]) => NotTold(queue'[b])
  <2>1. queue' = [queue EXCEPT ![a] = Append(queue[a], s)]
    BY <1>2 DEF Emit
  <2>2. /\ Append(queue[a], s) \in Seq(Signals)
        /\ s # "disabled" /\ NotTold(queue[a]) => NotTold(Append(queue[a], s))
    BY <1>1, QueueIs
  <2>3. QED
    BY <1>1, <2>1, <2>2
<1>3. ASSUME NEW s \in Signals \ {"disabled"}, EmitNote(a, s)
      PROVE  /\ queue' \in [Acceptors -> Seq(Signals)]
             /\ \A b \in Acceptors : NotTold(queue[b]) => NotTold(queue'[b])
  BY <1>1, <1>2, <1>3 DEF EmitNote
<1>4. {"escrow", "stacked", "error"} \subseteq Signals \ {"disabled"} /\ "disabled" \in Signals
  BY DEF Signals
<1>5. CASE Insert(a)
  <2>1. /\ queue' \in [Acceptors -> Seq(Signals)]
        /\ \A b \in Acceptors : NotTold(queue[b]) => NotTold(queue'[b])
    <3>1. CASE queue' = queue
      BY <1>1, <3>1
    <3>2. CASE EmitNote(a, "escrow")
      BY <1>3, <1>4, <3>2
    <3>3. QED
      BY <1>5, <3>1, <3>2 DEF Insert
  <2>2. dev' \in [Acceptors -> Devices] /\ \A b \in Acceptors : dev'[b].on => dev[b].on
    BY <1>1, <1>5 DEF Insert, Devices
  <2>3. QED
    BY <1>1, <1>5, <2>1, <2>2, AcceptorAssumption DEF Insert
<1>6. CASE ReturnNote(a)
  BY <1>1, <1>6 DEF ReturnNote, Devices
<1>7. CASE EscrowTimeout(a)
  <2>1. dev' \in [Acceptors -> Devices] /\ \A b \in Acceptors : dev'[b].on => dev[b].on
    BY <1>1, <1>7 DEF EscrowTimeout, Devices
  <2>2. QED
    BY <1>1, <1>7, <2>1, AcceptorAssumption DEF EscrowTimeout
<1>8. CASE Stacked(a)
  <2>1. /\ queue' \in [Acceptors -> Seq(Signals)]
        /\ \A b \in Acceptors : NotTold(queue[b]) => NotTold(queue'[b])
    BY <1>3, <1>4, <1>8 DEF Stacked
  <2>2. dev' \in [Acceptors -> Devices] /\ \A b \in Acceptors : dev'[b].on => dev[b].on
    BY <1>1, <1>8 DEF Stacked, Devices
  <2>3. QED
    BY <1>1, <1>8, <2>1, <2>2 DEF Stacked
<1>9. CASE Stop(a)
  <2>1. dev' = [dev EXCEPT ![a].on = FALSE, ![a].stop = FALSE]
    BY <1>9 DEF Stop
  <2>2. /\ dev' \in [Acceptors -> Devices]
        /\ \A b \in Acceptors : dev'[b].on => dev[b].on /\ b # a
    BY <1>1, <2>1 DEF Devices
  <2>3. /\ queue' \in [Acceptors -> Seq(Signals)]
        /\ \A b \in Acceptors : b # a /\ NotTold(queue[b]) => NotTold(queue'[b])
    BY <1>2, <1>4, <1>9 DEF Stop
  <2>4. QED
    BY <1>1, <1>9, <2>2, <2>3 DEF Stop
<1>10. CASE Fail(a)
  <2>1. /\ queue' \in [Acceptors -> Seq(Signals)]
        /\ \A b \in Acceptors : NotTold(queue[b]) => NotTold(queue'[b])
    BY <1>2, <1>4, <1>10 DEF Fail
  <2>2. dev' \in [Acceptors -> Devices] /\ \A b \in Acceptors : dev'[b].on => dev[b].on
    BY <1>1, <1>10 DEF Fail, Devices
  <2>3. QED
    BY <1>1, <1>10, <2>1, <2>2, AcceptorAssumption DEF Fail
<1>11. CASE Recover(a)
  BY <1>1, <1>11 DEF Recover, Devices
<1>12. QED
  BY <1>5, <1>6, <1>7, <1>8, <1>9, <1>10, <1>11 DEF Driver

\* A note taken by the stacker is counted for the payment it was fed to.
LEMMA StackedCounts ==
    ASSUME TypeOK, NEW a \in Acceptors, Driver(a)
    PROVE  inserted' \in [Acceptors -> [PaymentIds -> Nat]]
<1>1. inserted \in [Acceptors -> [PaymentIds -> Nat]] /\ Nominal[a] \in Nat
  BY AcceptorAssumption DEF TypeOK
<1>2. CASE Stacked(a)
  <2> DEFINE new == [p \in PaymentIds |->
                       inserted[a][p] + IF p = dev[a].payer THEN Nominal[a] ELSE 0]
  <2>1. inserted' = [inserted EXCEPT ![a] = new]
    BY <1>2 DEF Stacked
  <2>2. new \in [PaymentIds -> Nat]
    BY <1>1
  <2> HIDE DEF new
  <2>3. QED
    BY <1>1, <2>1, <2>2
<1>3. CASE UNCHANGED inserted
  BY <1>1, <1>3
<1>4. QED
  BY <1>2, <1>3 DEF Driver, Insert, ReturnNote, EscrowTimeout, Stop, Fail, Recover

\* A driver, whatever it does, switches no acceptor on.
LEMMA DriverInv ==
    ASSUME AcceptorInv, NEW a \in Acceptors, Driver(a)
    PROVE  AcceptorInv'
<1>1. /\ UNCHANGED <<ledger, subs, ctx, stage>>
      /\ dev' \in [Acceptors -> Devices] /\ queue' \in [Acceptors -> Seq(Signals)]
      /\ \A b \in Acceptors :
           dev'[b].on => dev[b].on /\ (NotTold(queue[b]) => NotTold(queue'[b]))
      /\ fed' \in 0..MaxNotes /\ faults' \in 0..MaxFaults
      /\ inserted' \in [Acceptors -> [PaymentIds -> Nat]]
  BY DriverStep, StackedCounts DEF AcceptorInv
<1>2. LedgerTypeOK'
  BY <1>1, LedgerStutterType DEF AcceptorInv, TypeOK
<1>3. TypeOK'
  BY <1>1, <1>2 DEF AcceptorInv, TypeOK
<1>4. active' = active /\ obj' = obj /\ Leftover' = Leftover
  BY <1>1 DEF ledger, Leftover
<1>5. OnTakesPart' /\ StageFits'
  BY <1>1, <1>4 DEF AcceptorInv, OnTakesPart, StageFits, Taking
<1>6. QED
  BY <1>3, <1>5 DEF AcceptorInv

-----------------------------------------------------------------------------
(* The manager *)

\* A signal handled leaves the queue of its acceptor.
LEMMA TakenIs ==
    ASSUME TypeOK, NEW a \in Acceptors, NEW s, Signalled(a, s)
    PROVE  /\ Taken(a) \in [Acceptors -> Seq(Signals)]
           /\ \A b \in Acceptors : NotTold(queue[b]) => NotTold(Taken(a)[b])
           /\ NotTold(queue[a]) => s # "disabled"
           /\ MainIdle
<1>1. queue[a] \in Seq(Signals) /\ queue[a] # <<>> /\ Head(queue[a]) = s /\ MainIdle
  BY DEF TypeOK, Signalled
<1>2. /\ Tail(queue[a]) \in Seq(Signals)
      /\ NotTold(queue[a]) => NotTold(Tail(queue[a])) /\ s # "disabled"
  BY <1>1, QueueIs
<1>3. queue \in [Acceptors -> Seq(Signals)] /\ Taken(a) = [queue EXCEPT ![a] = Tail(queue[a])]
  BY DEF TypeOK, Taken
<1>4. QED
  BY <1>1, <1>2, <1>3

\* Switching off some acceptors, whatever queues their answers are added to.
LEMMA SwitchingOff ==
    ASSUME TypeOK, OnTakesPart, NEW A, NEW q \in [Acceptors -> Seq(Signals)],
           \A b \in Acceptors : NotTold(queue[b]) => NotTold(q[b]),
           dev' = SwitchedOff(A), queue' = Answered(q, A)
    PROVE  /\ dev' \in [Acceptors -> Devices] /\ queue' \in [Acceptors -> Seq(Signals)]
           /\ \A b \in Acceptors : dev'[b].on => b \in ctx.validators /\ NotTold(queue'[b])
<1>1. dev' \in [Acceptors -> Devices] /\ queue' \in [Acceptors -> Seq(Signals)]
  BY SwitchedOffIs, AnsweredIs DEF TypeOK
<1>2. ASSUME NEW b \in Acceptors, dev'[b].on
      PROVE  b \in ctx.validators /\ NotTold(queue'[b])
  <2>1. dev[b].on /\ b \notin Answering(A)
    BY <1>2, SwitchedOffIs DEF TypeOK
  <2>2. queue'[b] = q[b]
    BY <2>1, AnsweredIs
  <2>3. QED
    BY <2>1, <2>2 DEF OnTakesPart
<1>3. QED
  BY <1>1, <1>2

\* stack() and reject() switch nothing on.
LEMMA OnEscrowInv ==
    ASSUME AcceptorInv, NEW a \in Acceptors, OnEscrow(a)
    PROVE  AcceptorInv'
<1>1. /\ Signalled(a, "escrow") /\ queue' = Taken(a)
      /\ UNCHANGED <<ledger, subs, ctx, stage, inserted, fed, faults>>
  BY DEF OnEscrow
<1>2. /\ queue' \in [Acceptors -> Seq(Signals)]
      /\ \A b \in Acceptors : NotTold(queue[b]) => NotTold(queue'[b])
  BY <1>1, TakenIs DEF AcceptorInv
<1>3. \/ dev' = dev \/ dev' = [dev EXCEPT ![a].phase = "stacking"]
      \/ dev' = [dev EXCEPT ![a].phase = "idle", ![a].payer = NoPayment]
  BY DEF OnEscrow
<1>4. dev' \in [Acceptors -> Devices] /\ \A b \in Acceptors : dev'[b].on = dev[b].on
  <2>1. dev \in [Acceptors -> Devices]
    BY DEF AcceptorInv, TypeOK
  <2>2. CASE dev' = dev
    BY <2>1, <2>2
  <2>3. CASE dev' = [dev EXCEPT ![a].phase = "stacking"]
    BY <2>1, <2>3 DEF Devices
  <2>4. CASE dev' = [dev EXCEPT ![a].phase = "idle", ![a].payer = NoPayment]
    BY <2>1, <2>4 DEF Devices
  <2>5. QED
    BY <1>3, <2>2, <2>3, <2>4
<1>5. LedgerTypeOK'
  BY <1>1, LedgerStutterType DEF AcceptorInv, TypeOK
<1>6. TypeOK'
  BY <1>1, <1>2, <1>4, <1>5 DEF AcceptorInv, TypeOK
<1>7. active' = active /\ obj' = obj /\ Leftover' = Leftover
  BY <1>1 DEF ledger, Leftover
<1>8. OnTakesPart' /\ StageFits'
  BY <1>1, <1>2, <1>4, <1>7 DEF AcceptorInv, OnTakesPart, StageFits, Taking
<1>9. QED
  BY <1>6, <1>8 DEF AcceptorInv

\* A stacked note is booked to the payment the acceptor takes part in, which
\* is the active one.
LEMMA OnStackedLedger ==
    ASSUME AcceptorInv, NEW a \in Acceptors, OnStacked(a)
    PROVE  \/ UNCHANGED <<ledger, ctx>>
           \/ /\ Taking /\ active # NoPayment /\ obj.change = Leftover
              /\ AmountUpdated(active, Nominal[a])
              /\ ctx' = [ctx EXCEPT !.current = @ + Nominal[a]]
<1>1. CASE a \in ctx.validators
  <2>1. Taking /\ ctx.payment = active
    BY <1>1 DEF AcceptorInv, OnTakesPart
  <2>2. active # NoPayment /\ obj.change = Leftover
    BY <2>1 DEF AcceptorInv, StageFits, Taking
  <2>3. QED
    BY <1>1, <2>1, <2>2 DEF OnStacked
<1>2. CASE a \notin ctx.validators
  BY <1>2 DEF OnStacked
<1>3. QED
  BY <1>1, <1>2

\* A stacked note changes the sum taken and may switch the acceptors off.
LEMMA OnStackedInv ==
    ASSUME AcceptorInv, NEW g \in Nat, LedgerHolds(g), NEW a \in Acceptors, OnStacked(a)
    PROVE  AcceptorInv'
<1>1. /\ Signalled(a, "stacked") /\ UNCHANGED <<subs, stage, inserted, fed, faults>>
      /\ \/ dev' = SwitchedOff(ctx.validators) /\ queue' = Answered(Taken(a), ctx.validators)
         \/ dev' = dev /\ queue' = Taken(a)
  BY DEF OnStacked
<1>2. /\ Taken(a) \in [Acceptors -> Seq(Signals)]
      /\ \A b \in Acceptors : NotTold(queue[b]) => NotTold(Taken(a)[b])
  BY <1>1, TakenIs DEF AcceptorInv
<1>3. /\ dev' \in [Acceptors -> Devices] /\ queue' \in [Acceptors -> Seq(Signals)]
      /\ \A b \in Acceptors : dev'[b].on => b \in ctx.validators /\ NotTold(queue'[b])
  <2>1. CASE dev' = SwitchedOff(ctx.validators) /\ queue' = Answered(Taken(a), ctx.validators)
    BY <1>2, <2>1, SwitchingOff DEF AcceptorInv
  <2>2. CASE dev' = dev /\ queue' = Taken(a)
    BY <1>2, <2>2 DEF AcceptorInv, TypeOK, OnTakesPart
  <2>3. QED
    BY <1>1, <2>1, <2>2
<1>4. /\ ctx' \in Contexts /\ ctx'.validators = ctx.validators /\ ctx'.payment = ctx.payment
      /\ LedgerTypeOK' /\ active' = active
      /\ stage = "new" => obj' = obj
      /\ Taking => (obj.change = Leftover)'
      /\ ~Taking => UNCHANGED ledger
  <2>1. CASE UNCHANGED <<ledger, ctx>>
    <3>1. LedgerTypeOK'
      BY <2>1, LedgerStutterType DEF AcceptorInv, TypeOK
    <3>2. Leftover' = Leftover /\ obj' = obj /\ active' = active
      BY <2>1 DEF ledger, Leftover
    <3>3. QED
      BY <2>1, <3>1, <3>2 DEF AcceptorInv, TypeOK, StageFits, Taking
  <2>2. CASE /\ Taking /\ active # NoPayment /\ obj.change = Leftover
             /\ AmountUpdated(active, Nominal[a])
             /\ ctx' = [ctx EXCEPT !.current = @ + Nominal[a]]
    <3>1. Nominal[a] \in Nat /\ active \in PaymentIds /\ LedgerTypeOK
      BY <2>2, AcceptorAssumption DEF AcceptorInv, TypeOK, LedgerTypeOK
    <3>2. LedgerTypeOK'
      BY <2>2, <3>1, AmountUpdatedType
    <3>3. (obj.change = Leftover)'
      BY <2>2, <3>1, AmountUpdatedHolds
    <3>4. active' = active
      BY <2>2 DEF AmountUpdated
    <3>5. stage # "new"
      BY <2>2 DEF Taking
    <3>6. /\ ctx' \in Contexts /\ ctx'.validators = ctx.validators
          /\ ctx'.payment = ctx.payment
      <4>1. ctx \in Contexts /\ ctx' = [ctx EXCEPT !.current = @ + Nominal[a]]
        BY <2>2 DEF AcceptorInv, TypeOK
      <4>2. QED
        BY <3>1, <4>1 DEF Contexts
    <3>7. QED
      BY <2>2, <3>2, <3>3, <3>4, <3>5, <3>6
  <2>3. QED
    BY <2>1, <2>2, OnStackedLedger
<1>5. TypeOK'
  BY <1>1, <1>3, <1>4 DEF AcceptorInv, TypeOK
<1>6. OnTakesPart'
  BY <1>1, <1>3, <1>4 DEF AcceptorInv, OnTakesPart, Taking
<1>7. StageFits'
  <2>1. CASE Taking
    BY <1>1, <1>4, <2>1 DEF AcceptorInv, StageFits, Taking
  <2>2. CASE ~Taking
    BY <1>1, <1>4, <2>2 DEF AcceptorInv, StageFits, Taking, ledger, Leftover
  <2>3. QED
    BY <2>1, <2>2
<1>8. QED
  BY <1>5, <1>6, <1>7 DEF AcceptorInv

\* An error breaks the acceptance off: the stage goes on to "stopping" or, with
\* no acceptor left, to "over".
LEMMA OnErrorInv ==
    ASSUME AcceptorInv, NEW a \in Acceptors, OnError(a)
    PROVE  AcceptorInv'
<1>1. /\ Signalled(a, "error") /\ UNCHANGED <<ledger, subs, ctx, inserted, fed, faults>>
      /\ dev' = SwitchedOff(ctx.validators) /\ queue' = Answered(Taken(a), ctx.validators)
  BY DEF OnError
<1>2. /\ Taken(a) \in [Acceptors -> Seq(Signals)]
      /\ \A b \in Acceptors : NotTold(queue[b]) => NotTold(Taken(a)[b])
  BY <1>1, TakenIs DEF AcceptorInv
<1>3. /\ dev' \in [Acceptors -> Devices] /\ queue' \in [Acceptors -> Seq(Signals)]
      /\ \A b \in Acceptors : dev'[b].on => b \in ctx.validators /\ NotTold(queue'[b])
  BY <1>1, <1>2, SwitchingOff DEF AcceptorInv
<1>4. \/ stage' = stage
      \/ Taking /\ stage' = "over" /\ ctx.validators = {}
      \/ stage = "accepting" /\ stage' = "stopping"
  BY DEF OnError, Heard, Taking
<1>5. LedgerTypeOK' /\ active' = active /\ obj' = obj /\ Leftover' = Leftover
  BY <1>1, LedgerStutterType DEF AcceptorInv, TypeOK, ledger, Leftover
<1>6. stage' \in Stages
  BY <1>4 DEF AcceptorInv, TypeOK, Stages
<1>7. TypeOK'
  BY <1>1, <1>3, <1>5, <1>6 DEF AcceptorInv, TypeOK
<1>8. OnTakesPart' /\ StageFits'
  BY <1>1, <1>3, <1>4, <1>5 DEF AcceptorInv, OnTakesPart, StageFits, Taking
<1>9. QED
  BY <1>7, <1>8 DEF AcceptorInv

\* The acceptor whose disabled() is handled is off, so it may leave the ones
\* that take part; after the last one the stage is "over".
LEMMA OnDisabledInv ==
    ASSUME AcceptorInv, NEW a \in Acceptors, OnDisabled(a)
    PROVE  AcceptorInv'
<1> DEFINE left == ctx.validators \ {a}
<1>1. /\ Signalled(a, "disabled") /\ queue' = Taken(a)
      /\ subs' = subs \ {a} /\ ctx' = [ctx EXCEPT !.validators = left]
      /\ UNCHANGED <<ledger, dev, inserted, fed, faults>>
  BY DEF OnDisabled
<1>2. /\ queue' \in [Acceptors -> Seq(Signals)]
      /\ \A b \in Acceptors : NotTold(queue[b]) => NotTold(queue'[b])
      /\ ~NotTold(queue[a])
  BY <1>1, TakenIs DEF AcceptorInv
<1>3. ~dev[a].on
  BY <1>2 DEF AcceptorInv, OnTakesPart
<1>4. ctx' \in Contexts /\ ctx'.validators = left /\ ctx'.payment = ctx.payment
  <2>1. ctx \in Contexts /\ left \subseteq Acceptors
    BY DEF AcceptorInv, TypeOK, Contexts
  <2>2. QED
    BY <1>1, <2>1 DEF Contexts
<1>5. \/ stage' = stage /\ (Taking => left # {} \/ ctx.payment = NoPayment)
      \/ Taking /\ stage' = "over" /\ left = {}
  BY DEF OnDisabled, Heard, Taking, AcceptorInv, OnTakesPart
<1>6. LedgerTypeOK' /\ active' = active /\ obj' = obj /\ Leftover' = Leftover
  BY <1>1, LedgerStutterType DEF AcceptorInv, TypeOK, ledger, Leftover
<1>7. stage' \in Stages
  BY <1>5 DEF AcceptorInv, TypeOK, Stages
<1>8. TypeOK'
  BY <1>1, <1>2, <1>4, <1>6, <1>7 DEF AcceptorInv, TypeOK
<1>9. OnTakesPart'
  <2>1. \A b \in Acceptors : dev'[b].on => b \in left /\ NotTold(queue'[b])
    BY <1>1, <1>2, <1>3 DEF AcceptorInv, OnTakesPart
  <2>2. QED
    BY <1>4, <1>5, <1>6, <2>1 DEF AcceptorInv, OnTakesPart, Taking
<1>10. StageFits'
  BY <1>5, <1>6 DEF AcceptorInv, StageFits, Taking
<1>11. QED
  BY <1>8, <1>9, <1>10 DEF AcceptorInv

-----------------------------------------------------------------------------
(* The scenario *)

\* A step that touches neither acceptors nor manager, and the stage it leads to.
LEMMA IdleInv ==
    ASSUME AcceptorInv, LedgerTypeOK', UNCHANGED <<dev, queue, ctx>>,
           subs' = subs, inserted' = inserted, fed' = fed, faults' = faults,
           stage' \in Stages, StageFits',
           (~Taking /\ ~Taking') \/ UNCHANGED <<stage, active>>
    PROVE  AcceptorInv'
<1>1. TypeOK'
  BY DEF AcceptorInv, TypeOK
<1>2. OnTakesPart'
  BY DEF AcceptorInv, OnTakesPart, Taking
<1>3. QED
  BY <1>1, <1>2 DEF AcceptorInv

\* A payment opened, filled from the change, cancelled or left.
LEMMA PaymentStepsInv ==
    ASSUME AcceptorInv, NEW g \in Nat, LedgerHolds(g),
           StartPayment \/ UseChange \/ GiveUpChange \/ CancelPayment \/ LeavePayment
               \/ PerformEncashment
    PROVE  AcceptorInv'
<1>1. LedgerTypeOK /\ created \in Nat
  BY DEF AcceptorInv, TypeOK, LedgerTypeOK
<1>2. CASE StartPayment
  <2>1. CreatePayment /\ stage = "none" /\ stage' = "new"
    BY <1>2 DEF StartPayment
  <2>2. LedgerTypeOK' /\ active' = created + 1 /\ obj' = Nothing
    BY <1>1, <2>1, CreatePaymentType DEF CreatePayment
  <2>3. StageFits'
    BY <1>1, <2>1, <2>2 DEF StageFits, NoPayment
  <2>4. QED
    BY <1>2, <2>1, <2>2, <2>3, IdleInv DEF StartPayment, idleAcceptor, Taking, Stages
<1>3. CASE UseChange
  <2>1. MoveChangeToPayment /\ stage = "new" /\ stage' = "ready"
    BY <1>3 DEF UseChange
  <2>2. LedgerTypeOK' /\ active' = active /\ (obj.change = Leftover)' /\ active # NoPayment
    BY <1>1, <2>1, MoveChangeToPaymentType, MoveChangeToPaymentHolds DEF MoveChangeToPayment
  <2>3. StageFits'
    BY <2>1, <2>2 DEF StageFits
  <2>4. QED
    BY <1>3, <2>1, <2>2, <2>3, IdleInv DEF UseChange, idleAcceptor, Taking, Stages
<1>4. CASE GiveUpChange
  <2>1. /\ ResetChange /\ stage \in {"new", "over"}
        /\ stage' = IF stage = "new" THEN "ready" ELSE "closed"
    BY <1>4 DEF GiveUpChange
  <2>2. LedgerTypeOK' /\ active' = active /\ obj' = obj /\ Leftover' = 0
    BY <1>1, <2>1, ResetChangeType, ResetChangeHolds DEF ResetChange
  <2>3. StageFits'
    BY <2>1, <2>2 DEF AcceptorInv, StageFits, Nothing
  <2>4. QED
    BY <1>4, <2>1, <2>2, <2>3, IdleInv DEF GiveUpChange, idleAcceptor, Taking, Stages
<1>5. CASE CancelPayment
  <2>1. MovePaymentToChange /\ stage = "over" /\ stage' = "closed"
    BY <1>5 DEF CancelPayment
  <2>2. LedgerTypeOK' /\ active' = active /\ active # NoPayment
    BY <1>1, <2>1, MovePaymentToChangeType DEF MovePaymentToChange
  <2>3. StageFits'
    BY <2>1, <2>2 DEF StageFits
  <2>4. QED
    BY <1>5, <2>1, <2>2, <2>3, IdleInv DEF CancelPayment, idleAcceptor, Taking, Stages
<1>6. CASE LeavePayment
  <2>1. /\ DeactivatePayment /\ stage \in {"new", "ready", "over", "closed"}
        /\ stage' = "none"
    BY <1>6 DEF LeavePayment
  <2>2. LedgerTypeOK' /\ active' = NoPayment
    BY <1>1, <2>1, DeactivatePaymentType DEF DeactivatePayment
  <2>3. StageFits'
    BY <2>1, <2>2 DEF StageFits
  <2>4. QED
    BY <1>6, <2>1, <2>2, <2>3, IdleInv DEF LeavePayment, idleAcceptor, Taking, Stages
<1>7. CASE PerformEncashment
  <2>1. Encash /\ stage = "none" /\ stage' = stage
    BY <1>7 DEF PerformEncashment
  <2>2. LedgerTypeOK' /\ active' = active
    BY <1>1, <2>1, EncashType DEF Encash
  <2>3. StageFits'
    BY <2>1, <2>2 DEF AcceptorInv, StageFits
  <2>4. QED
    BY <1>7, <2>1, <2>2, <2>3, IdleInv DEF PerformEncashment, idleAcceptor, Taking, Stages
<1>8. QED
  BY <1>2, <1>3, <1>4, <1>5, <1>6, <1>7

\* enable(): the acceptors that are well are switched on and take part.
LEMMA StartAcceptingInv ==
    ASSUME AcceptorInv, StartAccepting
    PROVE  AcceptorInv'
<1> DEFINE ready == {a \in Acceptors : ~dev[a].failed}
           base  == IF ctx.payment = active
                    THEN IF ctx.current = 0 THEN [ctx EXCEPT !.max = MaxAmountAll] ELSE ctx
                    ELSE [NoContext EXCEPT !.payment = active, !.max = MaxAmountAll]
<1>1. /\ stage \in {"ready", "over", "new"} /\ (stage = "new" => Leftover = 0)
      /\ \A a \in Acceptors : queue[a] = <<>>
      /\ UNCHANGED <<ledger, inserted, fed, faults>>
  BY DEF StartAccepting
<1>2. /\ base \in Contexts /\ base.payment = active
      /\ ctx.payment = active => base.validators = ctx.validators
      /\ base.validators = {}
  <2>1. ctx \in Contexts /\ active \in PaymentIds \cup {NoPayment} /\ MaxAmountAll \in Nat
    BY LedgerAssumption DEF AcceptorInv, TypeOK, LedgerTypeOK
  <2>2. ctx.validators = {}
    BY <1>1 DEF AcceptorInv, OnTakesPart, Taking
  <2>3. CASE ctx.payment = active
    BY <2>1, <2>2, <2>3 DEF Contexts
  <2>4. CASE ctx.payment # active
    BY <2>1, <2>4 DEF Contexts, NoContext
  <2>5. QED
    BY <2>3, <2>4
<1>3. LedgerTypeOK' /\ active' = active /\ obj' = obj /\ Leftover' = Leftover
  BY <1>1, LedgerStutterType DEF AcceptorInv, TypeOK, ledger, Leftover
<1>4. active # NoPayment /\ obj.change = Leftover
  BY <1>1 DEF AcceptorInv, StageFits, Nothing
<1>5. \/ ctx' = base /\ stage' = "over" /\ UNCHANGED <<dev, queue, subs>>
      \/ /\ ctx' = [base EXCEPT !.validators = @ \cup ready]
         /\ dev' = [a \in Acceptors |->
                        IF a \in ready THEN [dev[a] EXCEPT !.on = TRUE] ELSE dev[a]]
         /\ subs' = subs \cup ready
         /\ stage' = IF ctx'.validators = {} THEN "over" ELSE "accepting"
         /\ UNCHANGED queue
  BY DEF StartAccepting, Enable
<1>6. CASE ctx' = base /\ stage' = "over" /\ UNCHANGED <<dev, queue, subs>>
  <2>1. TypeOK'
    BY <1>1, <1>2, <1>3, <1>6 DEF AcceptorInv, TypeOK, Stages
  <2>2. \A a \in Acceptors : ~dev[a].on
    BY <1>1 DEF AcceptorInv, OnTakesPart, Taking
  <2>3. OnTakesPart'
    BY <1>2, <1>6, <2>2 DEF OnTakesPart, Taking
  <2>4. StageFits'
    BY <1>3, <1>4, <1>6 DEF StageFits
  <2>5. QED
    BY <2>1, <2>3, <2>4 DEF AcceptorInv
<1>7. CASE /\ ctx' = [base EXCEPT !.validators = @ \cup ready]
           /\ dev' = [a \in Acceptors |->
                          IF a \in ready THEN [dev[a] EXCEPT !.on = TRUE] ELSE dev[a]]
           /\ subs' = subs \cup ready
           /\ stage' = IF ctx'.validators = {} THEN "over" ELSE "accepting"
           /\ UNCHANGED queue
  <2>1. ready \subseteq Acceptors
    OBVIOUS
  <2>2. ctx' \in Contexts /\ ctx'.payment = active /\ ctx'.validators = ready
    <3> HIDE DEF base, ready
    <3>1. QED
      BY <1>2, <1>7, <2>1 DEF Contexts
  <2>3. dev' \in [Acceptors -> Devices]
    BY <1>7 DEF AcceptorInv, TypeOK, Devices
  <2>4. \A a \in Acceptors : ~dev[a].on
    BY <1>1 DEF AcceptorInv, OnTakesPart, Taking
  <2>5. \A a \in Acceptors : dev'[a].on => a \in ready
    BY <1>7, <2>4
  <2>6. \A a \in Acceptors : NotTold(queue'[a])
    BY <1>1, <1>7 DEF NotTold
  <2>7. stage' \in {"over", "accepting"} /\ (stage' = "over" => ctx'.validators = {})
    BY <1>7
  <2> HIDE DEF base, ready
  <2>8. TypeOK'
    BY <1>1, <1>3, <1>7, <2>1, <2>2, <2>3, <2>7 DEF AcceptorInv, TypeOK, Stages
  <2>9. OnTakesPart'
    BY <1>3, <2>2, <2>5, <2>6, <2>7 DEF OnTakesPart, Taking
  <2>10. StageFits'
    BY <1>3, <1>4, <2>7 DEF StageFits
  <2>11. QED
    BY <2>8, <2>9, <2>10 DEF AcceptorInv
<1>8. QED
  BY <1>5, <1>6, <1>7

\* disable(): the stage waits for the acceptors that take part.
LEMMA StopAcceptingInv ==
    ASSUME AcceptorInv, StopAccepting
    PROVE  AcceptorInv'
<1>1. stage = "accepting" /\ UNCHANGED <<ledger, subs, ctx, inserted, fed, faults>>
  BY DEF StopAccepting
<1>2. ctx.payment = active
  BY <1>1 DEF AcceptorInv, OnTakesPart, Taking
<1>3. /\ dev' = SwitchedOff(ctx.validators) /\ queue' = Answered(queue, ctx.validators)
      /\ stage' = IF ctx.validators = {} THEN "over" ELSE "stopping"
  BY <1>2 DEF StopAccepting, Disable
<1>4. /\ dev' \in [Acceptors -> Devices] /\ queue' \in [Acceptors -> Seq(Signals)]
      /\ \A b \in Acceptors : dev'[b].on => b \in ctx.validators /\ NotTold(queue'[b])
  BY <1>3, SwitchingOff DEF AcceptorInv, TypeOK
<1>5. LedgerTypeOK' /\ active' = active /\ obj' = obj /\ Leftover' = Leftover
  BY <1>1, LedgerStutterType DEF AcceptorInv, TypeOK, ledger, Leftover
<1>6. TypeOK'
  BY <1>1, <1>3, <1>4, <1>5 DEF AcceptorInv, TypeOK, Stages
<1>7. OnTakesPart' /\ StageFits'
  BY <1>1, <1>2, <1>3, <1>4, <1>5 DEF AcceptorInv, OnTakesPart, StageFits, Taking
<1>8. QED
  BY <1>6, <1>7 DEF AcceptorInv

-----------------------------------------------------------------------------
(* Every step *)

\* A save, a stop of the program or nothing at all.
LEMMA SaveInv ==
    ASSUME AcceptorInv, SaveNext
    PROVE  AcceptorInv'
<1>1. UNCHANGED <<created, active, obj, change>> /\ UNCHANGED acceptorVars
  BY DEF SaveNext, Save, SaveNote, SavePayment, SaveChange
<1>2. LedgerTypeOK'
  BY SaveType DEF AcceptorInv, TypeOK, SaveNext
<1>3. TypeOK'
  BY <1>1, <1>2 DEF AcceptorInv, TypeOK, acceptorVars
<1>4. Leftover' = Leftover
  BY <1>1 DEF Leftover
<1>5. OnTakesPart' /\ StageFits'
  BY <1>1, <1>4 DEF AcceptorInv, OnTakesPart, StageFits, Taking, acceptorVars
<1>6. QED
  BY <1>3, <1>5 DEF AcceptorInv

\* After a start every acceptor is off and no payment is open.
LEMMA RestartIs ==
    /\ [a \in Acceptors |-> Off] \in [Acceptors -> Devices]
    /\ [a \in Acceptors |-> <<>>] \in [Acceptors -> Seq(Signals)]
    /\ NoContext \in Contexts
BY DEF Off, Devices, NoContext, Contexts

\* A stop leaves every acceptor off and no payment open.
LEMMA CrashInv ==
    ASSUME AcceptorInv, Crash
    PROVE  AcceptorInv'
<1>1. /\ dev' = [a \in Acceptors |-> Off] /\ queue' = [a \in Acceptors |-> <<>>]
      /\ subs' = {} /\ ctx' = NoContext /\ stage' = "none" /\ UNCHANGED <<inserted, fed>>
      /\ faults < MaxFaults /\ faults' = faults + 1
  BY DEF Crash
<1>2. LedgerTypeOK' /\ active' = NoPayment
  BY LedgerCrashType DEF AcceptorInv, TypeOK, Crash, LedgerCrash
<1>3. faults' \in 0..MaxFaults
  BY <1>1, AcceptorAssumption DEF AcceptorInv, TypeOK
<1>4. TypeOK'
  BY <1>1, <1>2, <1>3, RestartIs DEF AcceptorInv, TypeOK, Stages
<1>5. OnTakesPart' /\ StageFits'
  BY <1>1, <1>2 DEF OnTakesPart, StageFits, Taking, NoContext, Off
<1>6. QED
  BY <1>4, <1>5 DEF AcceptorInv

\* A step that changes nothing changes nothing here.
LEMMA StutterInv ==
    ASSUME AcceptorInv, UNCHANGED vars
    PROVE  AcceptorInv'
<1>1. LedgerTypeOK' /\ active' = active /\ obj' = obj /\ Leftover' = Leftover
  BY LedgerStutterType DEF AcceptorInv, TypeOK, ledger, Leftover, vars
<1>2. UNCHANGED <<dev, queue, subs, ctx, stage, inserted, fed, faults>>
  BY DEF vars, acceptorVars
<1>3. TypeOK'
  BY <1>1, <1>2 DEF AcceptorInv, TypeOK
<1>4. OnTakesPart' /\ StageFits'
  BY <1>1, <1>2 DEF AcceptorInv, OnTakesPart, StageFits, Taking
<1>5. QED
  BY <1>3, <1>4 DEF AcceptorInv

\* The program begins as it does after a stop, with an empty ledger.
LEMMA AcceptorInit == Init => AcceptorInv
<1> SUFFICES ASSUME Init PROVE AcceptorInv
  OBVIOUS
<1>1. LedgerTypeOK /\ active = NoPayment
  BY LedgerInitType DEF Init, LedgerInit
<1>2. inserted \in [Acceptors -> [PaymentIds -> Nat]] /\ fed = 0 /\ faults = 0 /\ subs = {}
  BY DEF Init
<1>3. /\ dev = [a \in Acceptors |-> Off] /\ queue = [a \in Acceptors |-> <<>>]
      /\ ctx = NoContext /\ stage = "none"
  BY DEF Init
<1>4. TypeOK
  BY <1>1, <1>2, <1>3, RestartIs, AcceptorAssumption DEF TypeOK, Stages
<1>5. OnTakesPart /\ StageFits
  BY <1>1, <1>3 DEF OnTakesPart, StageFits, Taking, NoContext, Off
<1>6. QED
  BY <1>4, <1>5 DEF AcceptorInv

\* The operation of the ledger a step performs, and what it finds: a note is
\* booked to an active payment that holds the change there is, and no payment
\* is active when the cash is collected.
LedgerStep ==
    \/ UNCHANGED ledger
    \/ Save
    \/ CreatePayment \/ MoveChangeToPayment \/ MovePaymentToChange
    \/ ResetChange \/ DeactivatePayment
    \/ /\ active # NoPayment /\ obj.change = Leftover
       /\ \E n \in Nat : AmountUpdated(active, n)
    \/ active = NoPayment /\ Encash

\* Every step but a stop performs one of these, and failures only add up.
LEMMA StepIs ==
    ASSUME AcceptorInv, [Next]_vars
    PROVE  \/ LedgerStep /\ faults' >= faults
           \/ LedgerCrash /\ faults' = faults + 1
<1>1. faults \in Nat
  BY DEF AcceptorInv, TypeOK
<1>2. ASSUME NEW a \in Acceptors, Driver(a)
      PROVE  LedgerStep /\ faults' >= faults
  BY <1>1, <1>2 DEF LedgerStep, Driver, Insert, ReturnNote, EscrowTimeout, Stacked, Stop,
                    Fail, Recover
<1>3. ASSUME NEW a \in Acceptors, Manager(a)
      PROVE  LedgerStep /\ faults' >= faults
  <2>1. CASE OnStacked(a)
    <3>1. faults' = faults
      BY <2>1 DEF OnStacked
    <3>2. Nominal[a] \in Nat
      BY AcceptorAssumption
    <3>3. QED
      BY <1>1, <2>1, <3>1, <3>2, OnStackedLedger DEF LedgerStep
  <2>2. CASE OnEscrow(a) \/ OnError(a) \/ OnDisabled(a)
    BY <1>1, <2>2 DEF LedgerStep, OnEscrow, OnError, OnDisabled
  <2>3. QED
    BY <1>3, <2>1, <2>2 DEF Manager
<1>4. ASSUME Scenario
      PROVE  LedgerStep /\ faults' >= faults
  <2>1. CASE PerformEncashment
    BY <1>1, <2>1 DEF PerformEncashment, idleAcceptor, LedgerStep, AcceptorInv, StageFits
  <2>2. CASE ~PerformEncashment
    BY <1>1, <1>4, <2>2 DEF Scenario, StartPayment, UseChange, GiveUpChange, StartAccepting,
                            StopAccepting, CancelPayment, LeavePayment, idleAcceptor, LedgerStep
  <2>3. QED
    BY <2>1, <2>2
<1>5. CASE SaveNext
  BY <1>1, <1>5 DEF SaveNext, acceptorVars, LedgerStep
<1>6. CASE Crash
  BY <1>6 DEF Crash
<1>7. CASE UNCHANGED vars
  BY <1>1, <1>7 DEF vars, acceptorVars, LedgerStep
<1>8. QED
  BY <1>2, <1>3, <1>4, <1>5, <1>6, <1>7 DEF Next

\* Every step keeps the acceptors and the stage in agreement.
LEMMA AcceptorStep ==
    ASSUME AcceptorInv, NEW g \in Nat, LedgerHolds(g), [Next]_vars
    PROVE  AcceptorInv'
<1>1. ASSUME NEW a \in Acceptors, Driver(a) \/ Manager(a)
      PROVE  AcceptorInv'
  BY <1>1, DriverInv, OnEscrowInv, OnStackedInv, OnErrorInv, OnDisabledInv DEF Manager
<1>2. CASE Scenario
  BY <1>2, PaymentStepsInv, StartAcceptingInv, StopAcceptingInv DEF Scenario
<1>3. QED
  BY <1>1, <1>2, SaveInv, CrashInv, StutterInv DEF Next

-----------------------------------------------------------------------------
(* The ledger under these steps *)

\* The money: g is what the customers have put in beyond what is recorded, and
\* only a stop of the program makes it more than nothing.
MoneyHeld == \E g \in Nat : LedgerHolds(g) /\ (faults = 0 => g = 0 /\ torn = 0)

\* Every step keeps the money, and only a stop makes a gap.
LEMMA MoneyStep ==
    ASSUME AcceptorInv, MoneyHeld, [Next]_vars
    PROVE  MoneyHeld'
<1>1. PICK g \in Nat : LedgerHolds(g) /\ (faults = 0 => g = 0 /\ torn = 0)
  BY DEF MoneyHeld
<1>2. LedgerTypeOK /\ faults \in Nat /\ faults' \in Nat
  BY <1>1, AcceptorStep DEF AcceptorInv, TypeOK
<1>3. CASE LedgerStep /\ faults' >= faults
  <2>1. torn' = torn
    BY <1>3 DEF LedgerStep, ledger, Save, SaveNote, SavePayment, SaveChange, CreatePayment,
                MoveChangeToPayment, MovePaymentToChange, ResetChange, DeactivatePayment,
                AmountUpdated, Encash
  <2>2. LedgerHolds(g)'
    <3>1. ASSUME NEW n \in Nat, active # NoPayment, obj.change = Leftover,
                 AmountUpdated(active, n)
          PROVE  LedgerHolds(g)'
      BY <1>1, <1>2, <3>1, AmountUpdatedHolds
    <3>2. QED
      BY <1>1, <1>2, <1>3, <3>1, LedgerStutterHolds, SaveHolds, CreatePaymentHolds,
         MoveChangeToPaymentHolds, MovePaymentToChangeHolds, ResetChangeHolds,
         DeactivatePaymentHolds, EncashHolds
      DEF LedgerStep
  <2>3. faults' = 0 => g = 0 /\ torn' = 0
    BY <1>1, <1>2, <1>3, <2>1
  <2>4. QED
    BY <2>2, <2>3 DEF MoneyHeld
<1>4. CASE LedgerCrash /\ faults' = faults + 1
  <2>1. PICK k \in Nat : LedgerHolds(k)'
    BY <1>1, <1>2, <1>4, LedgerCrashHolds
  <2>2. faults' # 0
    BY <1>2, <1>4
  <2>3. QED
    BY <2>1, <2>2 DEF MoneyHeld
<1>5. QED
  BY <1>3, <1>4, StepIs

\* The notes: each in one place, and the collected ones before the others.
NotesHeld == NotesCollectedOnce /\ CollectedFirst

\* What CollectedStays asks of a step.
Stays == \A p \in PaymentIds, e \in 1..MaxEncashments : notes'[p][e] >= notes[p][e]

\* A step keeps the notes in one place and moves no collected one.
LEMMA NotesStep ==
    ASSUME AcceptorInv, NotesHeld, [Next]_vars
    PROVE  NotesHeld' /\ Stays
<1>1. LedgerTypeOK /\ created \in Nat
  BY DEF AcceptorInv, TypeOK, LedgerTypeOK
<1>2. \A p \in PaymentIds, e \in 1..MaxEncashments : notes[p][e] \in Nat
  <2>1. 1..MaxEncashments \subseteq 0..MaxEncashments
    BY LedgerAssumption
  <2>2. QED
    BY <1>1, <2>1 DEF LedgerTypeOK
<1>3. notes' = notes => Stays
  BY <1>2 DEF Stays
<1>4. ASSUME UNCHANGED <<notes, encs>>, CollectedFirst'
      PROVE  NotesHeld' /\ Stays
  BY <1>3, <1>4, CollectedSame DEF NotesHeld
<1>5. CASE UNCHANGED ledger
  BY <1>4, <1>5, CollectedFirstSame DEF NotesHeld, ledger
<1>6. CASE SaveNote
  <2>1. Stays
    BY <1>1, <1>2, <1>6, SaveNoteSums DEF Stays
  <2>2. QED
    BY <1>1, <1>6, <2>1, SaveNoteCollected, CollectedFirstSaveNote DEF NotesHeld
<1>7. CASE SavePayment \/ SaveChange
  <2>1. UNCHANGED <<notes, encs>>
    BY <1>7 DEF SavePayment, SaveChange
  <2>2. QED
    BY <1>1, <1>4, <1>7, <2>1, CollectedFirstSaveOther DEF NotesHeld
<1>8. CASE CreatePayment
  <2>1. UNCHANGED <<notes, encs>>
    BY <1>8 DEF CreatePayment
  <2>2. QED
    BY <1>1, <1>4, <1>8, <2>1, CollectedFirstCreate DEF NotesHeld
<1>9. CASE MoveChangeToPayment \/ MovePaymentToChange
  <2>1. /\ UNCHANGED <<notes, encs, created, active>>
        /\ \E c, p, m : writes' = <<ChangeSave(c), PaymentSave(p, m)>>
    BY <1>9 DEF MoveChangeToPayment, MovePaymentToChange
  <2>2. \A i \in DOMAIN writes' : writes'[i].table # "payment_note"
    BY <2>1 DEF ChangeSave, PaymentSave
  <2>3. QED
    BY <1>1, <1>4, <2>1, <2>2, CollectedFirstQuiet DEF NotesHeld
<1>10. CASE ResetChange \/ LedgerCrash
  <2>1. /\ UNCHANGED <<notes, encs, created>> /\ writes' = <<>>
        /\ active' = active \/ active' = NoPayment
    BY <1>10 DEF ResetChange, LedgerCrash, MainIdle
  <2>2. \A i \in DOMAIN writes' : writes'[i].table # "payment_note"
    BY <2>1
  <2>3. QED
    BY <1>1, <1>4, <2>1, <2>2, CollectedFirstQuiet DEF NotesHeld
<1>11. CASE DeactivatePayment
  <2>1. /\ UNCHANGED <<notes, encs, created>> /\ active' = NoPayment
        /\ writes' = <<PaymentSave(active, obj)>>
    BY <1>11 DEF DeactivatePayment
  <2>2. \A i \in DOMAIN writes' : writes'[i].table # "payment_note"
    BY <2>1 DEF PaymentSave
  <2>3. QED
    BY <1>1, <1>4, <2>1, <2>2, CollectedFirstQuiet DEF NotesHeld
<1>12. ASSUME active # NoPayment, NEW n \in Nat, AmountUpdated(active, n)
       PROVE  NotesHeld' /\ Stays
  <2>1. UNCHANGED <<notes, encs>>
    BY <1>12 DEF AmountUpdated
  <2>2. QED
    BY <1>1, <1>4, <1>12, <2>1, CollectedFirstAmount DEF NotesHeld
<1>13. CASE active = NoPayment /\ Encash
  BY <1>1, <1>13, EncashCollected, EncashOrdered DEF NotesHeld, Stays
<1>14. QED
  BY <1>5, <1>6, <1>7, <1>8, <1>9, <1>10, <1>11, <1>12, <1>13, StepIs
  DEF LedgerStep, Save

-----------------------------------------------------------------------------
(* While nothing fails: the order of the signals of one acceptor *)

\* Nothing is left in the queue q but disabled(), and nothing but it follows it.
OnlyTold(q) == \A i \in DOMAIN q : q[i] = "disabled"
LastWord(q) == \A i, j \in DOMAIN q : i < j /\ q[i] = "disabled" => q[j] = "disabled"

NoError(q)  == \A i \in DOMAIN q : q[i] # "error"
NoEscrow(q) == \A i \in DOMAIN q : q[i] # "escrow"
NoNote(q)   == \A i \in DOMAIN q : q[i] \notin {"escrow", "stacked"}

\* An acceptor with escrow reports a note only after what became of the one before.
EscrowLast(q) ==
    \A i, j \in DOMAIN q : i < j /\ q[i] = "escrow" => q[j] \notin {"escrow", "stacked"}

\* A signal added to the queue of an acceptor.
LEMMA AppendOrder ==
    ASSUME NEW q \in Seq(Signals), NEW s \in Signals
    PROVE  /\ NoError(q) /\ s # "error" => NoError(Append(q, s))
           /\ NotTold(q) => LastWord(Append(q, s))
           /\ LastWord(q) /\ s = "disabled" => LastWord(Append(q, s))
           /\ OnlyTold(q) /\ s = "disabled" => OnlyTold(Append(q, s))
           /\ NoEscrow(q) => EscrowLast(Append(q, s))
           /\ EscrowLast(q) /\ s \in {"disabled", "error"} => EscrowLast(Append(q, s))
           /\ NoEscrow(q) /\ s # "escrow" => NoEscrow(Append(q, s))
           /\ NoNote(q) /\ s \in {"disabled", "error"} => NoNote(Append(q, s))
<1> DEFINE r == Append(q, s)
<1>1. /\ DOMAIN r = 1..(Len(q) + 1) /\ DOMAIN q = 1..Len(q) /\ Len(q) \in Nat
      /\ r[Len(q) + 1] = s /\ \A i \in DOMAIN q : r[i] = q[i]
  OBVIOUS
<1> HIDE DEF r
<1>2. \A i \in DOMAIN r : (i \in DOMAIN q /\ r[i] = q[i]) \/ (i = Len(q) + 1 /\ r[i] = s)
  BY <1>1
<1>3. \A i, j \in DOMAIN r : i < j => i \in DOMAIN q /\ r[i] = q[i]
  BY <1>1
<1>4. NoError(q) /\ s # "error" => NoError(r)
  BY <1>2 DEF NoError
<1>5. NotTold(q) => LastWord(r)
  BY <1>3 DEF NotTold, LastWord
<1>6. LastWord(q) /\ s = "disabled" => LastWord(r)
  BY <1>2, <1>3 DEF LastWord
<1>7. OnlyTold(q) /\ s = "disabled" => OnlyTold(r)
  BY <1>2 DEF OnlyTold
<1>8. NoEscrow(q) => EscrowLast(r)
  BY <1>3 DEF NoEscrow, EscrowLast
<1>9. EscrowLast(q) /\ s \in {"disabled", "error"} => EscrowLast(r)
  BY <1>2, <1>3 DEF EscrowLast
<1>10. NoEscrow(q) /\ s # "escrow" => NoEscrow(r)
  BY <1>2 DEF NoEscrow
<1>11. NoNote(q) /\ s \in {"disabled", "error"} => NoNote(r)
  BY <1>2 DEF NoNote
<1>12. QED
  BY <1>4, <1>5, <1>6, <1>7, <1>8, <1>9, <1>10, <1>11 DEF r

\* The first signal taken from it.
LEMMA TailOrder ==
    ASSUME NEW q \in Seq(Signals), q # <<>>
    PROVE  /\ NoError(q) => NoError(Tail(q)) /\ Head(q) # "error"
           /\ LastWord(q) => LastWord(Tail(q))
           /\ OnlyTold(q) => OnlyTold(Tail(q)) /\ Head(q) = "disabled"
           /\ LastWord(q) /\ Head(q) = "disabled" => OnlyTold(Tail(q))
           /\ EscrowLast(q) => EscrowLast(Tail(q))
           /\ EscrowLast(q) /\ Head(q) = "escrow" => NoNote(Tail(q))
           /\ NoEscrow(q) => NoEscrow(Tail(q))
           /\ NoNote(q) => NoNote(Tail(q))
<1> DEFINE r == Tail(q)
<1>1. /\ 1 \in DOMAIN q /\ Head(q) = q[1]
      /\ \A i \in DOMAIN r : i \in Nat /\ 1 < i + 1 /\ i + 1 \in DOMAIN q /\ r[i] = q[i + 1]
      /\ \A i, j \in DOMAIN r : i < j => i + 1 < j + 1
  OBVIOUS
<1> HIDE DEF r
<1>2. NoError(q) => NoError(r) /\ Head(q) # "error"
  BY <1>1 DEF NoError
<1>3. LastWord(q) => LastWord(r)
  BY <1>1 DEF LastWord
<1>4. OnlyTold(q) => OnlyTold(r) /\ Head(q) = "disabled"
  BY <1>1 DEF OnlyTold
<1>5. LastWord(q) /\ Head(q) = "disabled" => OnlyTold(r)
  BY <1>1 DEF LastWord, OnlyTold
<1>6. EscrowLast(q) => EscrowLast(r)
  BY <1>1 DEF EscrowLast
<1>7. EscrowLast(q) /\ Head(q) = "escrow" => NoNote(r)
  BY <1>1 DEF EscrowLast, NoNote
<1>8. NoEscrow(q) => NoEscrow(r)
  BY <1>1 DEF NoEscrow
<1>9. NoNote(q) => NoNote(r)
  BY <1>1 DEF NoNote
<1>10. QED
  BY <1>2, <1>3, <1>4, <1>5, <1>6, <1>7, <1>8, <1>9 DEF r

\* An empty queue, and what one kind of order implies of another.
LEMMA QueueOrders ==
    /\ NoError(<<>>) /\ LastWord(<<>>) /\ OnlyTold(<<>>) /\ EscrowLast(<<>>)
    /\ NoEscrow(<<>>) /\ NoNote(<<>>)
    /\ \A q : NoNote(q) => NoEscrow(q) /\ EscrowLast(q)
    /\ \A q : OnlyTold(q) => LastWord(q) /\ NoError(q) /\ NoNote(q)
BY DEF NoError, LastWord, OnlyTold, EscrowLast, NoEscrow, NoNote

\* The notes reported as stacked and not booked yet.
Stacks(q) == Cardinality({i \in DOMAIN q : q[i] = "stacked"})

\* One more signal, and whether it counts.
LEMMA StacksAppend ==
    ASSUME NEW q \in Seq(Signals), NEW s \in Signals
    PROVE  /\ Stacks(q) \in Nat
           /\ Stacks(Append(q, s)) = Stacks(q) + (IF s = "stacked" THEN 1 ELSE 0)
<1> DEFINE S == {i \in DOMAIN q : q[i] = "stacked"}
           r == Append(q, s)
           T == {i \in DOMAIN r : r[i] = "stacked"}
           k == Len(q) + 1
<1>1. S \subseteq 1..Len(q) /\ IsFiniteSet(1..Len(q))
  BY FS_Interval
<1>2. IsFiniteSet(S) /\ Cardinality(S) \in Nat
  BY <1>1, FS_Subset, FS_CardinalityType
<1>3. /\ k \notin DOMAIN q /\ DOMAIN r = DOMAIN q \cup {k}
      /\ r[k] = s /\ \A i \in DOMAIN q : r[i] = q[i]
  <2>1. /\ Len(q) \in Nat /\ DOMAIN q = 1..Len(q) /\ DOMAIN r = 1..k
        /\ r[k] = s /\ \A i \in DOMAIN q : r[i] = q[i]
    OBVIOUS
  <2> HIDE DEF r
  <2>2. QED
    BY <2>1
<1>4. CASE s = "stacked"
  <2>1. T = S \cup {k} /\ k \notin S
    <3> HIDE DEF r, k
    <3>1. QED
      BY <1>3, <1>4
  <2> HIDE DEF S, T
  <2>2. Cardinality(T) = Cardinality(S) + 1
    BY <1>2, <2>1, FS_AddElement
  <2>3. QED
    BY <1>2, <1>4, <2>2 DEF Stacks, S, T
<1>5. CASE s # "stacked"
  <2>1. T = S
    <3> HIDE DEF r, k
    <3>1. QED
      BY <1>3, <1>5
  <2>2. Stacks(r) = Cardinality(T) /\ Stacks(q) = Cardinality(S)
    BY DEF Stacks
  <2> HIDE DEF S, T
  <2>3. QED
    BY <1>2, <1>5, <2>1, <2>2
<1>6. QED
  BY <1>4, <1>5

\* One signal less, and whether it counted.
LEMMA StacksTail ==
    ASSUME NEW q \in Seq(Signals), q # <<>>
    PROVE  /\ Stacks(Tail(q)) \in Nat
           /\ Stacks(q) = Stacks(Tail(q)) + (IF Head(q) = "stacked" THEN 1 ELSE 0)
<1> DEFINE S == {i \in DOMAIN q : q[i] = "stacked"}
           r == Tail(q)
           T == {i \in DOMAIN r : r[i] = "stacked"}
           later == S \ {1}
           f == [i \in T |-> i + 1]
<1>1. S \subseteq 1..Len(q) /\ IsFiniteSet(1..Len(q))
  BY FS_Interval
<1>2. IsFiniteSet(S) /\ IsFiniteSet(later)
  BY <1>1, FS_Subset
<1>3. /\ DOMAIN r = 1..(Len(q) - 1) /\ DOMAIN q = 1..Len(q) /\ Len(q) \in Nat /\ Len(q) # 0
      /\ \A i \in DOMAIN r : r[i] = q[i + 1]
      /\ Head(q) = q[1]
  OBVIOUS
<1>4. T \subseteq DOMAIN r /\ T \subseteq Nat
  BY <1>3
<1>5. IsFiniteSet(T)
  <2>1. IsFiniteSet(1..(Len(q) - 1)) /\ T \subseteq 1..(Len(q) - 1)
    BY <1>3, <1>4, FS_Interval
  <2> HIDE DEF T
  <2>2. QED
    BY <2>1, FS_Subset
<1>6. f \in Bijection(T, later)
  <2>1. f \in [T -> later]
    BY <1>3
  <2>2. \A i, j \in T : f[i] = f[j] => i = j
    BY <1>4
  <2>3. ASSUME NEW j \in later
        PROVE  \E i \in T : f[i] = j
    <3>1. j \in Nat /\ j - 1 \in DOMAIN r /\ r[j - 1] = q[j] /\ q[j] = "stacked" /\ (j - 1) + 1 = j
      BY <1>3
    <3>2. j - 1 \in T
      BY <3>1
    <3> HIDE DEF T
    <3>3. QED
      BY <3>1, <3>2
  <2> HIDE DEF f, T, later
  <2>4. QED
    BY <2>1, <2>2, <2>3 DEF Bijection, Injection, Surjection, IsInjective
<1>7. Cardinality(T) = Cardinality(later) /\ Cardinality(T) \in Nat
  <2> HIDE DEF f, T, later
  <2>1. ExistsBijection(T, later)
    BY <1>6 DEF ExistsBijection
  <2>2. QED
    BY <1>2, <1>5, <2>1, FS_Bijection, FS_CardinalityType
<1>8. CASE Head(q) = "stacked"
  <2>1. 1 \in S
    BY <1>3, <1>8
  <2>2. Stacks(r) = Cardinality(T) /\ Stacks(q) = Cardinality(S)
    BY DEF Stacks
  <2> HIDE DEF S, T
  <2>3. Cardinality(later) = Cardinality(S) - 1 /\ Cardinality(S) \in Nat
    BY <1>2, <2>1, FS_RemoveElement, FS_CardinalityType
  <2>4. QED
    BY <1>7, <1>8, <2>2, <2>3
<1>9. CASE Head(q) # "stacked"
  <2>1. later = S
    BY <1>3, <1>9
  <2>2. Stacks(r) = Cardinality(T) /\ Stacks(q) = Cardinality(S)
    BY DEF Stacks
  <2> HIDE DEF S, T, later
  <2>3. QED
    BY <1>7, <1>9, <2>1, <2>2
<1>10. QED
  BY <1>8, <1>9

\* A queue without such a report holds none.
LEMMA StacksNone ==
    ASSUME NEW q, NoNote(q) \/ OnlyTold(q)
    PROVE  Stacks(q) = 0
<1>1. {i \in DOMAIN q : q[i] = "stacked"} = {}
  BY DEF NoNote, OnlyTold
<1>2. QED
  BY <1>1, FS_EmptySet DEF Stacks

-----------------------------------------------------------------------------
(* While nothing fails: what device, queue and context say of each other *)

\* The device d and the queue q of the acceptor a, when the acceptors V take
\* part and the payment p is active.
Fits(a, d, q, V, p) ==
    /\ ~d.failed
    /\ d.stop => d.on
    /\ d.phase # "idle" => d.on /\ d.payer = p
    /\ NoError(q) /\ LastWord(q)
    /\ a \notin V => OnlyTold(q)
    /\ a \notin Coins =>
        /\ EscrowLast(q)
        /\ d.phase = "stacking" => NoNote(q)
        /\ d.on /\ d.phase = "idle" /\ ~d.stop => NoEscrow(q)

Calm ==
    /\ subs = ctx.validators
    /\ ctx.payment <= created
    /\ ctx.payment # NoPayment => ctx.max = MaxAmountAll
    /\ \A a \in Acceptors : Fits(a, dev[a], queue[a], ctx.validators, active)

\* A signal handled that is not the last one.
LEMMA FitsTail ==
    ASSUME NEW a, NEW d, NEW q \in Seq(Signals), NEW V, NEW p, Fits(a, d, q, V, p),
           q # <<>>
    PROVE  /\ Fits(a, d, Tail(q), V, p)
           /\ Head(q) = "disabled" => \A W : Fits(a, d, Tail(q), W, p)
           /\ Head(q) # "disabled" => a \in V
           /\ Head(q) # "error"
           /\ Head(q) = "escrow" /\ a \notin Coins => NoNote(Tail(q))
BY TailOrder DEF Fits

\* An acceptor told to switch off, and its answer if it is off.
LEMMA FitsSwitchedOff ==
    ASSUME TypeOK, OnTakesPart, NEW a \in Acceptors, NEW q \in [Acceptors -> Seq(Signals)],
           Fits(a, dev[a], q[a], ctx.validators, active)
    PROVE  Fits(a, SwitchedOff(ctx.validators)[a], Answered(q, ctx.validators)[a],
                ctx.validators, active)
<1> DEFINE V == ctx.validators
           d == dev[a]
           e == SwitchedOff(V)[a]
           r == Answered(q, V)[a]
<1>1. d \in Devices /\ (d.on => a \in V)
  BY DEF TypeOK, OnTakesPart
<1>2. a \in Answering(V) <=> a \in V /\ ~d.on
  BY DEF Fits, Answering
<1>3. e = [d EXCEPT !.on   = @ /\ a \notin Answering(V),
                    !.stop = IF a \in V THEN a \notin Answering(V) ELSE @]
  BY DEF SwitchedOff
<1>4. /\ e.failed = d.failed /\ e.phase = d.phase /\ e.payer = d.payer
      /\ e.on <=> d.on
      /\ a \in V => (e.stop <=> d.on)
      /\ a \notin V => e.stop = d.stop
  <2> HIDE DEF V, d, e
  <2>1. QED
    BY <1>1, <1>2, <1>3, Zenon DEF Devices
<1>5. r = IF a \in Answering(V) THEN Append(q[a], "disabled") ELSE q[a]
  BY DEF Answered
<1>6. q[a] \in Seq(Signals) /\ "disabled" \in Signals
  BY DEF Signals
<1>7. /\ NoError(q[a]) => NoError(r)
      /\ LastWord(q[a]) => LastWord(r)
      /\ OnlyTold(q[a]) => OnlyTold(r)
      /\ EscrowLast(q[a]) => EscrowLast(r)
      /\ NoNote(q[a]) => NoNote(r)
  <2> HIDE DEF V, r
  <2>1. QED
    BY <1>5, <1>6, AppendOrder
<1> HIDE DEF V, d, e, r
<1>8. Fits(a, d, q[a], V, active)
  BY DEF V, d
<1>9. Fits(a, e, r, V, active)
  BY <1>1, <1>4, <1>7, <1>8 DEF Fits
<1>10. QED
  BY <1>9 DEF V, e, r

\* A step of a driver, none of which fails.
LEMMA DriverCalm ==
    ASSUME AcceptorInv, Calm, NEW a \in Acceptors, Driver(a), faults' = faults
    PROVE  Calm'
<1>1. /\ UNCHANGED <<ledger, subs, ctx, stage>>
      /\ faults \in Nat /\ dev \in [Acceptors -> Devices] /\ queue \in [Acceptors -> Seq(Signals)]
      /\ dev[a] \in Devices /\ queue[a] \in Seq(Signals)
  BY DriverStep DEF AcceptorInv, TypeOK
<1>2. Fits(a, dev[a], queue[a], ctx.validators, active)
  BY DEF Calm
<1>3. dev[a].on => a \in ctx.validators /\ a \in subs /\ NotTold(queue[a])
  BY DEF AcceptorInv, OnTakesPart, Calm
<1>4. {"escrow", "stacked", "disabled"} \subseteq Signals
  BY DEF Signals
<1>5. ASSUME NEW s \in {"escrow", "stacked"}, EmitNote(a, s), dev[a].on
      PROVE  queue' = [queue EXCEPT ![a] = Append(queue[a], s)]
  BY <1>3, <1>5 DEF EmitNote, Emit
<1>6. ASSUME NEW e, NEW q,
             dev' = [dev EXCEPT ![a] = e], queue' = [queue EXCEPT ![a] = q],
             Fits(a, e, q, ctx.validators, active)
      PROVE  Calm'
  <2>1. \A b \in Acceptors : b # a => dev'[b] = dev[b] /\ queue'[b] = queue[b]
    BY <1>1, <1>6
  <2>2. dev'[a] = e /\ queue'[a] = q
    BY <1>1, <1>6
  <2>3. \A b \in Acceptors : Fits(b, dev'[b], queue'[b], ctx.validators, active)
    BY <1>6, <2>1, <2>2 DEF Calm
  <2>4. active' = active /\ created' = created
    BY <1>1 DEF ledger
  <2>5. QED
    BY <1>1, <2>3, <2>4 DEF Calm
<1>7. queue = [queue EXCEPT ![a] = queue[a]]
  BY <1>1
<1>8. CASE Insert(a)
  <2> DEFINE e == [dev[a] EXCEPT !.phase = IF a \in Coins THEN "stacking" ELSE "escrow",
                                 !.payer = active]
  <2>1. /\ dev[a].on /\ ~dev[a].stop /\ dev[a].phase = "idle" /\ dev' = [dev EXCEPT ![a] = e]
        /\ a \in Coins => queue' = queue
        /\ a \notin Coins => EmitNote(a, "escrow")
    BY <1>8 DEF Insert
  <2>2. /\ e.failed = dev[a].failed /\ e.on = dev[a].on /\ e.stop = dev[a].stop
        /\ e.payer = active /\ e.phase = IF a \in Coins THEN "stacking" ELSE "escrow"
    BY <1>1 DEF Devices
  <2> HIDE DEF e
  <2>3. CASE a \in Coins
    <3>1. Fits(a, e, queue[a], ctx.validators, active)
      BY <1>2, <2>1, <2>2, <2>3 DEF Fits
    <3>2. QED
      BY <1>6, <1>7, <2>1, <2>3, <3>1
  <2>4. CASE a \notin Coins
    <3>1. queue' = [queue EXCEPT ![a] = Append(queue[a], "escrow")]
      BY <1>5, <2>1, <2>4
    <3>2. NoError(queue[a]) /\ NoEscrow(queue[a])
      BY <1>2, <2>1, <2>4 DEF Fits
    <3>3. /\ NoError(Append(queue[a], "escrow")) /\ LastWord(Append(queue[a], "escrow"))
          /\ EscrowLast(Append(queue[a], "escrow"))
      BY <1>1, <1>3, <1>4, <2>1, <3>2, AppendOrder
    <3>4. Fits(a, e, Append(queue[a], "escrow"), ctx.validators, active)
      BY <1>2, <1>3, <2>1, <2>2, <2>4, <3>3 DEF Fits
    <3>5. QED
      BY <1>6, <2>1, <3>1, <3>4
  <2>5. QED
    BY <2>3, <2>4
<1>9. CASE ReturnNote(a)
  <2> DEFINE e == [dev[a] EXCEPT !.phase = "idle", !.payer = NoPayment]
  <2>1. dev[a].stop /\ dev' = [dev EXCEPT ![a] = e] /\ queue' = queue
    BY <1>9 DEF ReturnNote
  <2>2. /\ e.failed = dev[a].failed /\ e.on = dev[a].on /\ e.stop = dev[a].stop
        /\ e.phase = "idle"
    BY <1>1 DEF Devices
  <2> HIDE DEF e
  <2>3. Fits(a, e, queue[a], ctx.validators, active)
    BY <1>2, <2>1, <2>2 DEF Fits
  <2>4. QED
    BY <1>6, <1>7, <2>1, <2>3
<1>10. CASE Stacked(a)
  <2> DEFINE e == [dev[a] EXCEPT !.phase = "idle", !.payer = NoPayment]
             q == Append(queue[a], "stacked")
  <2>1. dev[a].phase = "stacking" /\ dev' = [dev EXCEPT ![a] = e] /\ EmitNote(a, "stacked")
    BY <1>10 DEF Stacked
  <2>2. /\ e.failed = dev[a].failed /\ e.on = dev[a].on /\ e.stop = dev[a].stop
        /\ e.phase = "idle"
    BY <1>1 DEF Devices
  <2>3. dev[a].on
    BY <1>2, <2>1 DEF Fits
  <2>4. queue' = [queue EXCEPT ![a] = q]
    BY <1>5, <2>1, <2>3
  <2>5. NoError(q) /\ LastWord(q) /\ (a \notin Coins => EscrowLast(q) /\ NoEscrow(q))
    <3>1. NoError(queue[a]) /\ (a \notin Coins => NoEscrow(queue[a]))
      BY <1>2, <2>1, QueueOrders DEF Fits
    <3>2. QED
      BY <1>1, <1>3, <1>4, <2>3, <3>1, AppendOrder
  <2> HIDE DEF e, q
  <2>6. Fits(a, e, q, ctx.validators, active)
    BY <1>2, <1>3, <2>2, <2>3, <2>5 DEF Fits
  <2>7. QED
    BY <1>6, <2>1, <2>4, <2>6
<1>11. CASE Stop(a)
  <2> DEFINE e == [dev[a] EXCEPT !.on = FALSE, !.stop = FALSE]
             q == Append(queue[a], "disabled")
  <2>1. /\ dev[a].phase = "idle" /\ dev' = [dev EXCEPT ![a] = e]
        /\ queue' = [queue EXCEPT ![a] = q]
    BY <1>11 DEF Stop, Emit
  <2>2. e.failed = dev[a].failed /\ ~e.on /\ ~e.stop /\ e.phase = "idle"
    BY <1>1, <2>1 DEF Devices
  <2>3. /\ NoError(queue[a]) => NoError(q)
        /\ LastWord(queue[a]) => LastWord(q)
        /\ OnlyTold(queue[a]) => OnlyTold(q)
        /\ EscrowLast(queue[a]) => EscrowLast(q)
    BY <1>1, <1>4, AppendOrder
  <2> HIDE DEF e, q
  <2>4. Fits(a, e, q, ctx.validators, active)
    BY <1>2, <2>2, <2>3 DEF Fits
  <2>5. QED
    BY <1>6, <2>1, <2>4
<1>12. CASE EscrowTimeout(a) \/ Fail(a) \/ Recover(a)
  <2>1. faults' # faults \/ dev[a].failed
    BY <1>1, <1>12 DEF EscrowTimeout, Fail, Recover
  <2>2. QED
    BY <1>2, <2>1 DEF Fits
<1>13. QED
  BY <1>8, <1>9, <1>10, <1>11, <1>12 DEF Driver

\* What every acceptor fits makes the manager calm, with the context V, p.
LEMMA CalmIs ==
    ASSUME subs' = ctx'.validators, ctx'.payment <= created',
           ctx'.payment # NoPayment => ctx'.max = MaxAmountAll,
           \A a \in Acceptors : Fits(a, dev'[a], queue'[a], ctx'.validators, active')
    PROVE  Calm'
BY DEF Calm

\* A signal taken from its queue, the context left alone.
LEMMA TakenFits ==
    ASSUME AcceptorInv, Calm, NEW a \in Acceptors, NEW s, Signalled(a, s)
    PROVE  /\ s # "error" /\ (s # "disabled" => a \in ctx.validators)
           /\ Taken(a) \in [Acceptors -> Seq(Signals)]
           /\ Taken(a)[a] = Tail(queue[a])
           /\ \A b \in Acceptors : b # a => Taken(a)[b] = queue[b]
           /\ \A b \in Acceptors : Fits(b, dev[b], Taken(a)[b], ctx.validators, active)
           /\ s = "disabled" =>
                \A W : Fits(a, dev[a], Taken(a)[a], W, active)
           /\ s = "escrow" /\ a \notin Coins => NoNote(Taken(a)[a])
<1>1. /\ queue \in [Acceptors -> Seq(Signals)] /\ queue[a] \in Seq(Signals)
      /\ queue[a] # <<>> /\ Head(queue[a]) = s
  BY DEF AcceptorInv, TypeOK, Signalled
<1>2. Fits(a, dev[a], queue[a], ctx.validators, active)
  BY DEF Calm
<1>3. /\ Fits(a, dev[a], Tail(queue[a]), ctx.validators, active)
      /\ s = "disabled" => \A W : Fits(a, dev[a], Tail(queue[a]), W, active)
      /\ s # "disabled" => a \in ctx.validators
      /\ s # "error"
      /\ s = "escrow" /\ a \notin Coins => NoNote(Tail(queue[a]))
  BY <1>1, <1>2, FitsTail
<1>4. Taken(a) \in [Acceptors -> Seq(Signals)]
  BY TakenIs DEF AcceptorInv
<1>5. /\ Taken(a)[a] = Tail(queue[a])
      /\ \A b \in Acceptors : b # a => Taken(a)[b] = queue[b]
  BY <1>1 DEF Taken
<1>6. \A b \in Acceptors : Fits(b, dev[b], Taken(a)[b], ctx.validators, active)
  BY <1>3, <1>5 DEF Calm
<1>7. QED
  BY <1>3, <1>4, <1>5, <1>6

\* A note to stack, or one to give back.
LEMMA OnEscrowCalm ==
    ASSUME AcceptorInv, Calm, NEW a \in Acceptors, OnEscrow(a)
    PROVE  Calm'
<1>1. /\ Signalled(a, "escrow") /\ queue' = Taken(a)
      /\ UNCHANGED <<ledger, subs, ctx, stage>>
      /\ \/ dev' = dev
         \/ dev[a].phase = "escrow" /\ dev' = [dev EXCEPT ![a].phase = "stacking"]
         \/ dev' = [dev EXCEPT ![a].phase = "idle", ![a].payer = NoPayment]
  BY DEF OnEscrow
<1>2. active' = active /\ created' = created
  BY <1>1 DEF ledger
<1>3. /\ \A b \in Acceptors : Fits(b, dev[b], Taken(a)[b], ctx.validators, active)
      /\ a \notin Coins => NoNote(Taken(a)[a])
  BY <1>1, TakenFits
<1>4. dev \in [Acceptors -> Devices] /\ dev[a] \in Devices
  BY DEF AcceptorInv, TypeOK
<1>5. Fits(a, dev'[a], Taken(a)[a], ctx.validators, active)
  <2>1. CASE dev' = dev
    BY <1>3, <2>1
  <2>2. CASE dev[a].phase = "escrow" /\ dev' = [dev EXCEPT ![a].phase = "stacking"]
    <3>1. /\ dev'[a].failed = dev[a].failed /\ dev'[a].on = dev[a].on
          /\ dev'[a].stop = dev[a].stop /\ dev'[a].payer = dev[a].payer
          /\ dev'[a].phase = "stacking"
      BY <1>4, <2>2 DEF Devices
    <3>2. QED
      BY <1>3, <2>2, <3>1 DEF Fits
  <2>3. CASE dev' = [dev EXCEPT ![a].phase = "idle", ![a].payer = NoPayment]
    <3>1. /\ dev'[a].failed = dev[a].failed /\ dev'[a].on = dev[a].on
          /\ dev'[a].stop = dev[a].stop /\ dev'[a].phase = "idle"
      BY <1>4, <2>3 DEF Devices
    <3>2. QED
      BY <1>3, <2>3, <3>1, QueueOrders DEF Fits
  <2>4. QED
    BY <1>1, <2>1, <2>2, <2>3
<1>6. \A b \in Acceptors : b # a => dev'[b] = dev[b]
  BY <1>1, <1>4
<1>7. \A b \in Acceptors : Fits(b, dev'[b], queue'[b], ctx'.validators, active')
  BY <1>1, <1>2, <1>3, <1>5, <1>6
<1>8. QED
  BY <1>1, <1>2, <1>7, CalmIs DEF Calm

\* A note booked, and at the maximum every acceptor switched off.
LEMMA OnStackedCalm ==
    ASSUME AcceptorInv, Calm, NEW a \in Acceptors, OnStacked(a)
    PROVE  Calm'
<1>1. /\ Signalled(a, "stacked") /\ UNCHANGED <<subs, stage>>
      /\ \/ dev' = SwitchedOff(ctx.validators) /\ queue' = Answered(Taken(a), ctx.validators)
         \/ dev' = dev /\ queue' = Taken(a)
  BY DEF OnStacked
<1>2. /\ Taken(a) \in [Acceptors -> Seq(Signals)]
      /\ \A b \in Acceptors : Fits(b, dev[b], Taken(a)[b], ctx.validators, active)
  BY <1>1, TakenFits
<1>3. \A b \in Acceptors : Fits(b, dev'[b], queue'[b], ctx.validators, active)
  <2>1. CASE dev' = SwitchedOff(ctx.validators) /\ queue' = Answered(Taken(a), ctx.validators)
    BY <1>2, <2>1, FitsSwitchedOff DEF AcceptorInv
  <2>2. CASE dev' = dev /\ queue' = Taken(a)
    BY <1>2, <2>2
  <2>3. QED
    BY <1>1, <2>1, <2>2
<1>4. /\ ctx'.validators = ctx.validators /\ ctx'.payment = ctx.payment /\ ctx'.max = ctx.max
      /\ active' = active /\ created' = created
  <2>1. CASE UNCHANGED <<ledger, ctx>>
    BY <2>1 DEF ledger
  <2>2. CASE AmountUpdated(active, Nominal[a]) /\ ctx' = [ctx EXCEPT !.current = @ + Nominal[a]]
    BY <2>2 DEF AmountUpdated, AcceptorInv, TypeOK, Contexts
  <2>3. QED
    BY <2>1, <2>2, OnStackedLedger
<1>5. QED
  BY <1>1, <1>3, <1>4, CalmIs DEF Calm

\* An acceptor leaves the ones that take part.
LEMMA OnDisabledCalm ==
    ASSUME AcceptorInv, Calm, NEW a \in Acceptors, OnDisabled(a)
    PROVE  Calm'
<1> DEFINE left == ctx.validators \ {a}
<1>1. /\ Signalled(a, "disabled") /\ queue' = Taken(a)
      /\ subs' = subs \ {a} /\ ctx' = [ctx EXCEPT !.validators = left]
      /\ UNCHANGED <<ledger, dev>>
  BY DEF OnDisabled
<1>2. active' = active /\ created' = created
  BY <1>1 DEF ledger
<1>3. ctx'.validators = left /\ ctx'.payment = ctx.payment /\ ctx'.max = ctx.max
  BY <1>1 DEF AcceptorInv, TypeOK, Contexts
<1>4. /\ \A b \in Acceptors : Fits(b, dev[b], Taken(a)[b], ctx.validators, active)
      /\ Fits(a, dev[a], Taken(a)[a], left, active)
  BY <1>1, TakenFits
<1>5. \A b \in Acceptors : Fits(b, dev'[b], queue'[b], left, active')
  BY <1>1, <1>2, <1>4 DEF Fits
<1>6. QED
  BY <1>1, <1>2, <1>3, <1>5, CalmIs DEF Calm

\* enable(): every acceptor is well, and takes part from now on.
LEMMA StartAcceptingCalm ==
    ASSUME AcceptorInv, CollectedFirst, Calm, StartAccepting
    PROVE  Calm'
<1> DEFINE ready == {a \in Acceptors : ~dev[a].failed}
           base  == IF ctx.payment = active
                    THEN IF ctx.current = 0 THEN [ctx EXCEPT !.max = MaxAmountAll] ELSE ctx
                    ELSE [NoContext EXCEPT !.payment = active, !.max = MaxAmountAll]
<1>1. /\ ~Taking /\ active # NoPayment /\ UNCHANGED ledger
      /\ \A a \in Acceptors : queue[a] = <<>>
  BY DEF StartAccepting, Taking, AcceptorInv, StageFits
<1>2. active' = active /\ created' = created /\ active <= created
  BY <1>1 DEF ledger, CollectedFirst
<1>3. subs = {} /\ ctx.validators = {} /\ ctx \in Contexts /\ dev \in [Acceptors -> Devices]
  BY <1>1 DEF AcceptorInv, OnTakesPart, Calm, TypeOK
<1>4. \A a \in Acceptors :
        /\ ~dev[a].on /\ ~dev[a].failed /\ ~dev[a].stop /\ dev[a].phase = "idle"
        /\ queue'[a] = <<>>
  <2>1. queue' = queue
    BY DEF StartAccepting, Enable
  <2>2. QED
    BY <1>1, <1>3, <2>1 DEF AcceptorInv, OnTakesPart, Calm, Fits
<1>5. base \in Contexts /\ base.payment = active /\ base.max = MaxAmountAll /\ base.validators = {}
  <2>1. active \in PaymentIds \cup {NoPayment} /\ MaxAmountAll \in Nat
    BY LedgerAssumption DEF AcceptorInv, TypeOK, LedgerTypeOK
  <2>2. CASE ctx.payment = active
    BY <1>1, <1>3, <2>1, <2>2 DEF Contexts, Calm
  <2>3. CASE ctx.payment # active
    BY <1>3, <2>1, <2>3 DEF Contexts, NoContext
  <2>4. QED
    BY <2>2, <2>3
<1>6. \/ ctx' = base /\ UNCHANGED <<dev, subs>>
      \/ /\ ctx' = [base EXCEPT !.validators = @ \cup ready]
         /\ dev' = [a \in Acceptors |->
                        IF a \in ready THEN [dev[a] EXCEPT !.on = TRUE] ELSE dev[a]]
         /\ subs' = subs \cup ready
  BY DEF StartAccepting, Enable
<1> HIDE DEF base
<1>7. CASE ctx' = base /\ UNCHANGED <<dev, subs>>
  <2>1. \A a \in Acceptors : Fits(a, dev'[a], queue'[a], ctx'.validators, active')
    BY <1>4, <1>7, QueueOrders DEF Fits
  <2>2. QED
    BY <1>2, <1>3, <1>5, <1>7, <2>1, CalmIs
<1>8. CASE /\ ctx' = [base EXCEPT !.validators = @ \cup ready]
           /\ dev' = [a \in Acceptors |->
                          IF a \in ready THEN [dev[a] EXCEPT !.on = TRUE] ELSE dev[a]]
           /\ subs' = subs \cup ready
  <2>1. ready = Acceptors
    BY <1>4
  <2>2. ctx'.validators = Acceptors /\ ctx'.payment = active /\ ctx'.max = MaxAmountAll
    BY <1>5, <1>8, <2>1 DEF Contexts
  <2>3. \A a \in Acceptors :
          /\ dev'[a].on /\ ~dev'[a].failed /\ ~dev'[a].stop /\ dev'[a].phase = "idle"
    BY <1>3, <1>4, <1>8, <2>1 DEF Devices
  <2>4. \A a \in Acceptors : Fits(a, dev'[a], queue'[a], ctx'.validators, active')
    BY <1>4, <2>2, <2>3, QueueOrders DEF Fits
  <2>5. QED
    BY <1>2, <1>3, <1>8, <2>1, <2>2, <2>4, CalmIs
<1>9. QED
  BY <1>6, <1>7, <1>8

\* disable(): every acceptor that takes part is told to switch off.
LEMMA StopAcceptingCalm ==
    ASSUME AcceptorInv, Calm, StopAccepting
    PROVE  Calm'
<1>1. stage = "accepting" /\ UNCHANGED <<ledger, subs, ctx>>
  BY DEF StopAccepting
<1>2. ctx.payment = active
  BY <1>1 DEF AcceptorInv, OnTakesPart, Taking
<1>3. dev' = SwitchedOff(ctx.validators) /\ queue' = Answered(queue, ctx.validators)
  BY <1>2 DEF StopAccepting, Disable
<1>4. \A b \in Acceptors : Fits(b, dev'[b], queue'[b], ctx.validators, active)
  BY <1>3, FitsSwitchedOff DEF AcceptorInv, Calm, TypeOK
<1>5. active' = active /\ created' = created
  BY <1>1 DEF ledger
<1>6. QED
  BY <1>1, <1>4, <1>5, CalmIs DEF Calm

\* A step that leaves the acceptors alone; with no payment taking money the
\* active one may change.
LEMMA QuietCalm ==
    ASSUME AcceptorInv, Calm, UNCHANGED <<dev, queue, subs, ctx>>,
           active' = active \/ ~Taking, created \in Nat, created' \in Nat, created' >= created
    PROVE  Calm'
<1>1. ctx.payment <= created'
  BY DEF Calm, AcceptorInv, TypeOK, Contexts, PaymentIds, NoPayment
<1>2. ~Taking => \A a \in Acceptors : dev[a].phase = "idle"
  BY DEF AcceptorInv, OnTakesPart, Calm, Fits
<1>3. \A a \in Acceptors : Fits(a, dev[a], queue[a], ctx.validators, active')
  BY <1>2 DEF Calm, Fits
<1>4. QED
  BY <1>1, <1>3, CalmIs DEF Calm

\* Every step without a failure keeps it.
LEMMA CalmStep ==
    ASSUME AcceptorInv, CollectedFirst, Calm, [Next]_vars, faults' = faults
    PROVE  Calm'
<1>1. created \in Nat /\ faults \in Nat
  BY DEF AcceptorInv, TypeOK, LedgerTypeOK
<1>2. ASSUME NEW a \in Acceptors, Manager(a)
      PROVE  Calm'
  <2>1. ~OnError(a)
    BY TakenFits DEF OnError
  <2>2. QED
    BY <1>2, <2>1, OnEscrowCalm, OnStackedCalm, OnDisabledCalm DEF Manager
<1>3. CASE Scenario
  <2>1. CASE StartAccepting \/ StopAccepting
    BY <2>1, StartAcceptingCalm, StopAcceptingCalm
  <2>2. CASE \/ StartPayment \/ UseChange \/ GiveUpChange \/ CancelPayment \/ LeavePayment
             \/ PerformEncashment
    <3>1. /\ UNCHANGED <<dev, queue, subs, ctx>> /\ ~Taking
          /\ created' = created \/ created' = created + 1
      BY <2>2 DEF StartPayment, UseChange, GiveUpChange, CancelPayment, LeavePayment,
                  PerformEncashment, idleAcceptor, Taking, CreatePayment, MoveChangeToPayment,
                  ResetChange, MovePaymentToChange, DeactivatePayment, Encash
    <3>2. created' \in Nat /\ created' >= created
      BY <1>1, <3>1
    <3>3. QED
      BY <1>1, <3>1, <3>2, QuietCalm
  <2>3. QED
    BY <1>3, <2>1, <2>2 DEF Scenario
<1>4. CASE SaveNext \/ UNCHANGED vars
  <2>1. UNCHANGED <<dev, queue, subs, ctx, active, created>>
    BY <1>4 DEF SaveNext, Save, SaveNote, SavePayment, SaveChange, acceptorVars, vars, ledger
  <2>2. QED
    BY <1>1, <2>1, QuietCalm
<1>5. CASE Crash
  BY <1>1, <1>5 DEF Crash
<1>6. QED
  BY <1>2, <1>3, <1>4, <1>5, DriverCalm DEF Next

\* At the first start every acceptor is off and every queue empty.
LEMMA CalmInit == Init => Calm
<1> SUFFICES ASSUME Init PROVE Calm
  OBVIOUS
<1>1. /\ subs = {} /\ ctx = NoContext /\ created = 0
      /\ \A a \in Acceptors : dev[a] = Off /\ queue[a] = <<>>
  BY DEF Init, LedgerInit
<1>2. \A a \in Acceptors : Fits(a, dev[a], queue[a], ctx.validators, active)
  BY <1>1, QueueOrders DEF Fits, Off
<1>3. QED
  BY <1>1, <1>2 DEF Calm, NoContext, NoPayment

-----------------------------------------------------------------------------
(* While nothing fails: every note stacked is booked or about to be *)

\* Only the first save a handler has still to make may be a note.
NoteFirst == \A i \in DOMAIN writes : i # 1 => writes[i].table # "payment_note"

\* The notes of the payment p in payment_note, with the one being saved.
Pending(p) ==
    IF writes # <<>> /\ Head(writes).table = "payment_note" /\ Head(writes).payment = p
    THEN Head(writes).amount ELSE 0

Booked(p) == NotesOf(p) + Pending(p)

\* With no note among the saves nothing is pending.
LEMMA NonePending ==
    ASSUME \A i \in DOMAIN writes : writes[i].table # "payment_note", writes \in Seq(Saves)
    PROVE  NoteFirst /\ \A p : Pending(p) = 0
<1>1. writes # <<>> => 1 \in DOMAIN writes /\ Head(writes) = writes[1]
  OBVIOUS
<1>2. QED
  BY <1>1 DEF NoteFirst, Pending

\* A save moves the pending note into payment_note.
LEMMA SaveBooks ==
    ASSUME LedgerTypeOK, NoteFirst, Save
    PROVE  NoteFirst' /\ \A p \in PaymentIds : Booked(p)' = Booked(p)
<1>1. writes # <<>> /\ writes' = Tail(writes) /\ writes \in Seq(Saves) /\ LedgerTypeOK'
  BY SaveType DEF Save, SaveNote, SavePayment, SaveChange, MainIdle, LedgerTypeOK
<1>2. \A i \in DOMAIN writes' :
        i \in Nat /\ i + 1 # 1 /\ i + 1 \in DOMAIN writes /\ writes'[i] = writes[i + 1]
  BY <1>1
<1>3. \A i \in DOMAIN writes' : writes'[i].table # "payment_note"
  BY <1>2 DEF NoteFirst
<1>4. NoteFirst' /\ \A p : Pending(p)' = 0
  <2>1. writes' \in Seq(Saves)
    BY <1>1 DEF LedgerTypeOK
  <2>2. writes' # <<>> => 1 \in DOMAIN writes' /\ Head(writes') = writes'[1]
    BY <2>1
  <2>3. QED
    BY <1>3, <2>2 DEF NoteFirst, Pending
<1>5. \A p \in PaymentIds : NotesOf(p) \in Nat
  BY NoteSums DEF LedgerTypeOK
<1>6. CASE SaveNote
  <2>1. PICK q, n : q = Head(writes).payment /\ n = Head(writes).amount
    OBVIOUS
  <2>2. /\ q \in PaymentIds /\ n \in Nat /\ NotesOf(q)' = NotesOf(q) + n
        /\ \A p \in PaymentIds : p # q => NotesOf(p)' = NotesOf(p)
    BY <1>6, <2>1, SaveNoteSums
  <2>3. \A p : Pending(p) = IF p = q THEN n ELSE 0
    BY <1>1, <1>6, <2>1 DEF Pending, SaveNote
  <2>4. \A p \in PaymentIds : Booked(p)' = NotesOf(p)' + 0
    BY <1>4 DEF Booked
  <2>5. ASSUME NEW p \in PaymentIds
        PROVE  Booked(p)' = Booked(p)
    <3>1. NotesOf(p) \in Nat /\ Booked(p) = NotesOf(p) + (IF p = q THEN n ELSE 0)
      BY <1>5, <2>3 DEF Booked
    <3>2. NotesOf(p)' = NotesOf(p) + (IF p = q THEN n ELSE 0)
      BY <2>2, <3>1
    <3>3. NotesOf(p)' \in Nat
      BY <2>2, <3>1, <3>2
    <3>4. QED
      BY <2>4, <3>1, <3>2, <3>3
  <2>6. QED
    BY <1>4, <2>5
<1>7. CASE SavePayment \/ SaveChange
  <2>1. Head(writes).table # "payment_note" /\ notes' = notes
    BY <1>7 DEF SavePayment, SaveChange
  <2>2. \A p : Pending(p) = 0
    BY <2>1 DEF Pending
  <2>3. QED
    BY <1>4, <2>1, <2>2 DEF Booked, NotesOf
<1>8. QED
  BY <1>6, <1>7 DEF Save

\* So does no other operation but that of a note.
LEMMA OthersBook ==
    ASSUME LedgerTypeOK, NoteFirst,
           \/ UNCHANGED ledger
           \/ CreatePayment \/ MoveChangeToPayment \/ MovePaymentToChange
           \/ ResetChange \/ DeactivatePayment
           \/ Encash
    PROVE  NoteFirst' /\ \A p \in PaymentIds : Booked(p)' = Booked(p)
<1>1. CASE UNCHANGED ledger
  BY <1>1 DEF ledger, NoteFirst, Booked, NotesOf, Pending
<1>2. ASSUME MainIdle, \A p \in PaymentIds : NotesOf(p)' = NotesOf(p),
             writes' \in Seq(Saves),
             \A i \in DOMAIN writes' : writes'[i].table # "payment_note"
      PROVE  NoteFirst' /\ \A p \in PaymentIds : Booked(p)' = Booked(p)
  <2>1. \A p : Pending(p) = 0
    BY <1>2 DEF MainIdle, Pending
  <2>2. writes' # <<>> => 1 \in DOMAIN writes' /\ Head(writes') = writes'[1]
    BY <1>2
  <2>3. NoteFirst' /\ \A p : Pending(p)' = 0
    BY <1>2, <2>2 DEF NoteFirst, Pending
  <2>4. QED
    BY <1>2, <2>1, <2>3 DEF Booked
<1>3. ASSUME MainIdle, notes' = notes, writes' \in Seq(Saves),
             \A i \in DOMAIN writes' : writes'[i].table # "payment_note"
      PROVE  NoteFirst' /\ \A p \in PaymentIds : Booked(p)' = Booked(p)
  BY <1>2, <1>3 DEF NotesOf
<1>4. CASE CreatePayment \/ ResetChange
  <2>1. MainIdle /\ notes' = notes /\ writes' = <<>> /\ writes' = writes
    BY <1>4 DEF CreatePayment, ResetChange, MainIdle
  <2>2. writes' \in Seq(Saves) /\ DOMAIN writes' = {}
    BY <2>1 DEF LedgerTypeOK
  <2>3. QED
    BY <1>3, <2>1, <2>2
<1>5. CASE MoveChangeToPayment \/ MovePaymentToChange
  <2>1. /\ MainIdle /\ notes' = notes
        /\ \E c, p, m : writes' = <<ChangeSave(c), PaymentSave(p, m)>>
    BY <1>5 DEF MoveChangeToPayment, MovePaymentToChange
  <2>2. \A i \in DOMAIN writes' : writes'[i].table # "payment_note"
    BY <2>1 DEF ChangeSave, PaymentSave
  <2>3. writes' \in Seq(Saves)
    BY <1>5, MoveChangeToPaymentType, MovePaymentToChangeType DEF LedgerTypeOK
  <2>4. QED
    BY <1>3, <2>1, <2>2, <2>3
<1>6. CASE DeactivatePayment
  <2>1. MainIdle /\ notes' = notes /\ writes' = <<PaymentSave(active, obj)>>
    BY <1>6 DEF DeactivatePayment
  <2>2. \A i \in DOMAIN writes' : writes'[i].table # "payment_note"
    BY <2>1 DEF PaymentSave
  <2>3. writes' \in Seq(Saves)
    BY <1>6, DeactivatePaymentType DEF LedgerTypeOK
  <2>4. QED
    BY <1>3, <2>1, <2>2, <2>3
<1>7. CASE Encash
  <2>1. MainIdle /\ writes' = writes
    BY <1>7 DEF Encash
  <2>2. writes' \in Seq(Saves) /\ DOMAIN writes' = {}
    BY <2>1 DEF LedgerTypeOK, MainIdle
  <2>3. \A p \in PaymentIds : NotesOf(p)' = NotesOf(p)
    BY <1>7, EncashSums
  <2>4. QED
    BY <1>2, <2>1, <2>2, <2>3
<1>8. QED
  BY <1>1, <1>4, <1>5, <1>6, <1>7

\* A note of the active payment is pending as soon as it is handled.
LEMMA NoteBooks ==
    ASSUME LedgerTypeOK, active # NoPayment, NEW n \in Nat, AmountUpdated(active, n)
    PROVE  /\ NoteFirst' /\ active \in PaymentIds
           /\ \A p \in PaymentIds :
                /\ Booked(p) \in Nat
                /\ Booked(p)' = Booked(p) + (IF p = active THEN n ELSE 0)
<1>1. PICK m, c : writes' = <<NoteSave(active, n), PaymentSave(active, m)>>
                                \o (IF m.change = 0 THEN <<>> ELSE <<ChangeSave(c)>>)
  BY DEF AmountUpdated
<1>2. \/ writes' = <<NoteSave(active, n), PaymentSave(active, m)>>
      \/ writes' = <<NoteSave(active, n), PaymentSave(active, m), ChangeSave(c)>>
  BY <1>1, NoteThenChange
<1>3. NoteFirst' /\ writes' # <<>> /\ Head(writes') = NoteSave(active, n)
  <2>1. CASE writes' = <<NoteSave(active, n), PaymentSave(active, m)>>
    BY <2>1, OneAndTwo DEF NoteFirst, PaymentSave
  <2>2. CASE writes' = <<NoteSave(active, n), PaymentSave(active, m), ChangeSave(c)>>
    BY <2>2, Three DEF NoteFirst, PaymentSave, ChangeSave
  <2>3. QED
    BY <1>2, <2>1, <2>2
<1>4. \A p : Pending(p)' = IF p = active THEN n ELSE 0
  BY <1>3 DEF Pending, NoteSave
<1>5. \A p : Pending(p) = 0
  BY DEF AmountUpdated, MainIdle, Pending
<1>6. \A p \in PaymentIds : NotesOf(p)' = NotesOf(p) /\ NotesOf(p) \in Nat
  BY NoteSums DEF AmountUpdated, NotesOf, LedgerTypeOK
<1>7. active \in PaymentIds
  BY DEF LedgerTypeOK
<1>8. \A p \in PaymentIds : Booked(p) = NotesOf(p)
  BY <1>5, <1>6 DEF Booked
<1>9. \A p \in PaymentIds : Booked(p)' = NotesOf(p) + (IF p = active THEN n ELSE 0)
  BY <1>4, <1>6 DEF Booked
<1>10. QED
  BY <1>3, <1>6, <1>7, <1>8, <1>9

\* Of the acceptor a in this phase: what it has taken, i, against what of it has
\* been booked, b, while k notes reported as stacked wait in its queue; the
\* payment t of n is active and c is the context of the manager.
Tallied(a, i, b, k, phase, t, n, c) ==
    \A p \in PaymentIds :
        /\ i[p] = b[p] + (IF p = c.payment THEN Nominal[a] * k ELSE 0)
        /\ p > n => i[p] = 0
        /\ p = t /\ p # c.payment => i[p] = 0
        /\ p = c.payment => b[p] <= c.current
        /\ a \notin Coins => i[p] < MaxAmountAll + Nominal[a]
        /\ a \notin Coins /\ p = t /\ phase = "stacking" => i[p] < MaxAmountAll

AllTallied(b) ==
    \A a \in Acceptors : Tallied(a, inserted[a], b[a], Stacks(queue[a]), dev[a].phase,
                                 active, created, ctx)

\* The notes of each acceptor that are booked, and all of them.
Parts      == [Acceptors -> [PaymentIds -> Nat]]
Whole(b, p) == SumFunction([a \in Acceptors |-> b[a][p]])

Tally == \E b \in Parts : (\A p \in PaymentIds : Booked(p) = Whole(b, p)) /\ AllTallied(b)

\* A step that books nothing.
LEMMA TallyKept ==
    ASSUME NEW b \in Parts, \A p \in PaymentIds : Booked(p) = Whole(b, p),
           \A p \in PaymentIds : Booked(p)' = Booked(p), AllTallied(b)'
    PROVE  Tally'
<1>1. \A p \in PaymentIds : Booked(p)' = Whole(b, p)'
  BY DEF Whole
<1>2. QED
  BY <1>1 DEF Tally, Parts

\* An acceptor a step has nothing to do with.
LEMMA TalliedSame ==
    ASSUME NEW b, NEW a, a \in Acceptors, AllTallied(b),
           inserted'[a] = inserted[a], Stacks(queue'[a]) = Stacks(queue[a]),
           dev'[a].phase = "stacking" => dev[a].phase = "stacking",
           active' = active, created' = created,
           ctx'.payment = ctx.payment, ctx'.current = ctx.current
    PROVE  Tallied(a, inserted'[a], b[a], Stacks(queue'[a]), dev'[a].phase,
                   active', created', ctx')
<1>1. Tallied(a, inserted[a], b[a], Stacks(queue[a]), dev[a].phase, active, created, ctx)
  BY DEF AllTallied
<1> HIDE DEF Stacks
<1>2. QED
  BY <1>1 DEF Tallied

\* Tallied acceptor by acceptor, tallied after the step.
LEMMA AllTalliedIs ==
    ASSUME NEW b,
           \A a \in Acceptors : Tallied(a, inserted'[a], b[a], Stacks(queue'[a]), dev'[a].phase,
                                        active', created', ctx')
    PROVE  AllTallied(b)'
BY DEF AllTallied, Stacks

\* Signals other than stacked do not count.
LEMMA StacksKept ==
    ASSUME NEW q \in Seq(Signals)
    PROVE  /\ \A s \in Signals \ {"stacked"} : Stacks(Append(q, s)) = Stacks(q)
           /\ q # <<>> /\ Head(q) # "stacked" => Stacks(Tail(q)) = Stacks(q)
           /\ Stacks(q) \in Nat
<1>1. \A s \in Signals \ {"stacked"} : Stacks(q) \in Nat /\ Stacks(Append(q, s)) = Stacks(q) + 0
  BY StacksAppend
<1>2. Stacks(q) \in Nat
  BY StacksAppend DEF Signals
<1>3. q # <<>> /\ Head(q) # "stacked" => Stacks(Tail(q)) = Stacks(q)
  <2> SUFFICES ASSUME q # <<>>, Head(q) # "stacked" PROVE Stacks(Tail(q)) = Stacks(q)
    OBVIOUS
  <2>1. Stacks(Tail(q)) \in Nat /\ Stacks(q) = Stacks(Tail(q)) + 0
    BY StacksTail
  <2>2. QED
    BY <2>1
<1>4. QED
  BY <1>1, <1>2, <1>3

\* Neither do the answers of acceptors that are off.
LEMMA StacksAnswered ==
    ASSUME NEW q \in [Acceptors -> Seq(Signals)], NEW A, NEW a \in Acceptors
    PROVE  Stacks(Answered(q, A)[a]) = Stacks(q[a])
<1>1. "disabled" \in Signals \ {"stacked"} /\ q[a] \in Seq(Signals)
  BY DEF Signals
<1>2. Stacks(Append(q[a], "disabled")) = Stacks(q[a])
  BY <1>1, StacksKept
<1>3. QED
  BY <1>2 DEF Answered

\* A note in the stacker: it is counted for the active payment, and reported.
LEMMA StackedTally ==
    ASSUME AcceptorInv, CollectedFirst, Calm, Tally, NEW a \in Acceptors, Stacked(a)
    PROVE  Tally'
<1>1. PICK b \in Parts : (\A p \in PaymentIds : Booked(p) = Whole(b, p)) /\ AllTallied(b)
  BY DEF Tally
<1>2. PICK i : i = [p \in PaymentIds |->
                      inserted[a][p] + IF p = dev[a].payer THEN Nominal[a] ELSE 0]
  OBVIOUS
<1>3. /\ dev[a].phase = "stacking" /\ EmitNote(a, "stacked")
      /\ dev' = [dev EXCEPT ![a].phase = "idle", ![a].payer = NoPayment]
      /\ inserted' = [inserted EXCEPT ![a] = i]
      /\ UNCHANGED <<ledger, ctx>>
  BY <1>2 DEF Stacked
<1>4. /\ dev \in [Acceptors -> Devices] /\ queue \in [Acceptors -> Seq(Signals)]
      /\ inserted \in [Acceptors -> [PaymentIds -> Nat]]
      /\ queue[a] \in Seq(Signals) /\ "stacked" \in Signals
  BY DEF AcceptorInv, TypeOK, Signals
<1>5. dev[a].on /\ dev[a].payer = active
  BY <1>3 DEF Calm, Fits
<1>6. a \in ctx.validators /\ a \in subs /\ Taking /\ ctx.payment = active /\ active <= created
  BY <1>5 DEF AcceptorInv, OnTakesPart, Calm, CollectedFirst
<1>7. queue' = [queue EXCEPT ![a] = Append(queue[a], "stacked")]
  BY <1>3, <1>6 DEF EmitNote, Emit
<1>8. UNCHANGED <<created, active>> /\ ctx' = ctx
  BY <1>3 DEF ledger
<1>9. PICK k, m, n : k = Stacks(queue[a]) /\ n = Nominal[a] /\ m = n * k
  OBVIOUS
<1>10. k \in Nat /\ n \in Nat \ {0} /\ m \in Nat /\ n * (k + 1) = m + n
  <2>1. k \in Nat /\ n \in Nat \ {0}
    BY <1>4, <1>9, StacksAppend, AcceptorAssumption
  <2>2. QED
    BY <1>9, <2>1
<1>11. Stacks(queue'[a]) = k + 1
  BY <1>4, <1>7, <1>9, StacksAppend
<1>12. Tallied(a, inserted[a], b[a], k, "stacking", active, created, ctx)
  BY <1>1, <1>3, <1>9 DEF AllTallied
<1>13. \A p \in PaymentIds : inserted[a][p] \in Nat /\ b[a][p] \in Nat
  BY <1>4 DEF Parts
<1>14. MaxAmountAll \in Nat /\ created \in Nat /\ active \in Nat
  BY LedgerAssumption DEF AcceptorInv, TypeOK, LedgerTypeOK, PaymentIds, NoPayment
<1>15. Tallied(a, i, b[a], k + 1, "idle", active, created, ctx)
  <2> SUFFICES ASSUME NEW p \in PaymentIds
               PROVE  /\ i[p] = b[a][p] + (IF p = ctx.payment THEN n * (k + 1) ELSE 0)
                      /\ p > created => i[p] = 0
                      /\ p = active /\ p # ctx.payment => i[p] = 0
                      /\ p = ctx.payment => b[a][p] <= ctx.current
                      /\ a \notin Coins => i[p] < MaxAmountAll + n
    BY <1>9 DEF Tallied
  <2>1. i[p] = inserted[a][p] + (IF p = active THEN n ELSE 0)
    BY <1>2, <1>5, <1>9
  <2>2. /\ inserted[a][p] = b[a][p] + (IF p = active THEN m ELSE 0)
        /\ p > created => inserted[a][p] = 0
        /\ p = ctx.payment => b[a][p] <= ctx.current
        /\ a \notin Coins => inserted[a][p] < MaxAmountAll + n
        /\ a \notin Coins /\ p = active => inserted[a][p] < MaxAmountAll
    BY <1>6, <1>9, <1>12 DEF Tallied
  <2>3. CASE p = active
    BY <1>6, <1>10, <1>13, <1>14, <2>1, <2>2, <2>3
  <2>4. CASE p # active
    BY <1>6, <1>10, <1>13, <1>14, <2>1, <2>2, <2>4
  <2>5. QED
    BY <2>3, <2>4
<1>16. Tallied(a, inserted'[a], b[a], Stacks(queue'[a]), dev'[a].phase, active', created', ctx')
  <2>1. inserted'[a] = i /\ dev'[a].phase = "idle"
    BY <1>3, <1>4 DEF Devices
  <2>2. QED
    BY <1>8, <1>11, <1>15, <2>1
<1>17. AllTallied(b)'
  <2>1. ASSUME NEW c \in Acceptors, c # a
        PROVE  Tallied(c, inserted'[c], b[c], Stacks(queue'[c]), dev'[c].phase,
                       active', created', ctx')
    <3>1. inserted'[c] = inserted[c] /\ queue'[c] = queue[c] /\ dev'[c] = dev[c]
      BY <1>3, <1>4, <1>7, <2>1
    <3>2. QED
      BY <1>1, <1>8, <3>1, TalliedSame
  <2>2. QED
    BY <1>16, <2>1, AllTalliedIs
<1>18. \A p \in PaymentIds : Booked(p)' = Booked(p)
  BY <1>3 DEF ledger, Booked, NotesOf, Pending
<1>19. QED
  BY <1>1, <1>17, <1>18, TallyKept

\* A step that books nothing and after which every acceptor is tallied.
LEMMA TallyStep ==
    ASSUME NEW b \in Parts, \A p \in PaymentIds : Booked(p) = Whole(b, p),
           UNCHANGED ledger,
           \A a \in Acceptors : Tallied(a, inserted'[a], b[a], Stacks(queue'[a]), dev'[a].phase,
                                        active', created', ctx')
    PROVE  Tally'
<1>1. AllTallied(b)'
  BY AllTalliedIs
<1>2. \A p \in PaymentIds : Booked(p)' = Booked(p)
  BY DEF ledger, Booked, NotesOf, Pending
<1>3. QED
  BY <1>1, <1>2, TallyKept

\* A driver, none of which fails.
LEMMA DriverTally ==
    ASSUME AcceptorInv, CollectedFirst, Calm, Tally, NEW a \in Acceptors, Driver(a),
           faults' = faults
    PROVE  Tally'
<1>1. CASE Stacked(a)
  BY <1>1, StackedTally
<1>2. CASE EscrowTimeout(a) \/ Fail(a) \/ Recover(a)
  <2>1. faults' # faults \/ dev[a].failed
    BY <1>2 DEF EscrowTimeout, Fail, Recover, AcceptorInv, TypeOK
  <2>2. QED
    BY <2>1 DEF Calm, Fits
<1>3. CASE Insert(a) \/ ReturnNote(a) \/ Stop(a)
  <2>1. PICK b \in Parts : (\A p \in PaymentIds : Booked(p) = Whole(b, p)) /\ AllTallied(b)
    BY DEF Tally
  <2>2. /\ dev \in [Acceptors -> Devices] /\ queue \in [Acceptors -> Seq(Signals)]
        /\ queue[a] \in Seq(Signals)
    BY DEF AcceptorInv, TypeOK
  <2>3. UNCHANGED <<ledger, ctx, inserted>>
    BY <1>3 DEF Insert, ReturnNote, Stop
  <2>4. PICK s \in {"escrow", "disabled"} :
          queue' = queue \/ queue' = [queue EXCEPT ![a] = Append(queue[a], s)]
    BY <1>3 DEF Insert, ReturnNote, Stop, EmitNote, Emit
  <2>5. s \in Signals \ {"stacked"}
    BY DEF Signals
  <2>6. ASSUME NEW c \in Acceptors
        PROVE  Stacks(queue'[c]) = Stacks(queue[c])
    <3>1. CASE queue' = [queue EXCEPT ![a] = Append(queue[a], s)] /\ c = a
      BY <2>2, <2>5, <3>1, StacksKept
    <3>2. CASE queue' = queue \/ c # a
      BY <2>2, <2>4, <3>2
    <3>3. QED
      BY <2>4, <3>1, <3>2
  <2>7. ASSUME NEW c \in Acceptors
        PROVE  dev'[c].phase = "stacking" /\ c \notin Coins => dev[c].phase = "stacking"
    <3>1. CASE Insert(a)
      BY <2>2, <3>1 DEF Insert, Devices
    <3>2. CASE ReturnNote(a)
      BY <2>2, <3>2 DEF ReturnNote, Devices
    <3>3. CASE Stop(a)
      BY <2>2, <3>3 DEF Stop, Devices
    <3>4. QED
      BY <1>3, <3>1, <3>2, <3>3
  <2>8. active' = active /\ created' = created /\ ctx' = ctx /\ inserted' = inserted
    BY <2>3 DEF ledger
  <2>9. \A c \in Acceptors : Tallied(c, inserted'[c], b[c], Stacks(queue'[c]), dev'[c].phase,
                                     active', created', ctx')
    <3>1. ASSUME NEW c \in Acceptors
          PROVE  Tallied(c, inserted[c], b[c], Stacks(queue[c]), dev'[c].phase,
                         active, created, ctx)
      <4>1. Tallied(c, inserted[c], b[c], Stacks(queue[c]), dev[c].phase, active, created, ctx)
        BY <2>1 DEF AllTallied
      <4>2. QED
        BY <2>7, <4>1 DEF Tallied
    <3>2. QED
      BY <2>6, <2>8, <3>1
  <2>10. QED
    BY <2>1, <2>3, <2>9, TallyStep
<1>4. QED
  BY <1>1, <1>2, <1>3 DEF Driver

\* What is stacked while a signal is handled: only a note handled counts less.
LEMMA TakenStacks ==
    ASSUME AcceptorInv, NEW a \in Acceptors, NEW s, Signalled(a, s)
    PROVE  /\ \A c \in Acceptors : c # a => Stacks(Taken(a)[c]) = Stacks(queue[c])
           /\ Stacks(Taken(a)[a]) \in Nat
           /\ s # "stacked" => Stacks(Taken(a)[a]) = Stacks(queue[a])
           /\ s = "stacked" => Stacks(queue[a]) = Stacks(Taken(a)[a]) + 1
<1>1. /\ queue \in [Acceptors -> Seq(Signals)] /\ queue[a] \in Seq(Signals)
      /\ queue[a] # <<>> /\ Head(queue[a]) = s
  BY DEF AcceptorInv, TypeOK, Signalled
<1>2. /\ Taken(a)[a] = Tail(queue[a])
      /\ \A c \in Acceptors : c # a => Taken(a)[c] = queue[c]
  BY <1>1 DEF Taken
<1>3. /\ Stacks(Tail(queue[a])) \in Nat
      /\ Stacks(queue[a]) = Stacks(Tail(queue[a])) + (IF s = "stacked" THEN 1 ELSE 0)
  BY <1>1, StacksTail
<1>4. QED
  BY <1>2, <1>3

\* A note is accepted below the maximum, and what has been booked is all there is.
LEMMA OnEscrowTally ==
    ASSUME AcceptorInv, Calm, Tally, NEW a \in Acceptors, OnEscrow(a)
    PROVE  Tally'
<1>1. PICK b \in Parts : (\A p \in PaymentIds : Booked(p) = Whole(b, p)) /\ AllTallied(b)
  BY DEF Tally
<1>2. /\ Signalled(a, "escrow") /\ queue' = Taken(a)
      /\ UNCHANGED <<ledger, ctx, inserted>>
      /\ \/ dev' = dev
         \/ /\ a \in ctx.validators /\ ~MaxAmountReached(ctx)
            /\ dev' = [dev EXCEPT ![a].phase = "stacking"]
         \/ dev' = [dev EXCEPT ![a].phase = "idle", ![a].payer = NoPayment]
  BY DEF OnEscrow
<1>3. dev \in [Acceptors -> Devices] /\ ctx \in Contexts /\ inserted \in [Acceptors -> [PaymentIds -> Nat]]
  BY DEF AcceptorInv, TypeOK
<1>4. /\ active' = active /\ created' = created /\ ctx' = ctx /\ inserted' = inserted
      /\ \A c \in Acceptors : Stacks(queue'[c]) = Stacks(queue[c])
  BY <1>2, TakenStacks DEF ledger
<1>5. \A c \in Acceptors : c # a => dev'[c] = dev[c]
  BY <1>2, <1>3
<1>6. \A c \in Acceptors : Tallied(c, inserted[c], b[c], Stacks(queue[c]), dev[c].phase,
                                   active, created, ctx)
  BY <1>1 DEF AllTallied
<1>7. Tallied(a, inserted[a], b[a], Stacks(queue[a]), dev'[a].phase, active, created, ctx)
  <2>1. CASE dev'[a].phase # "stacking" \/ dev' = dev \/ a \in Coins
    BY <1>6, <2>1 DEF Tallied
  <2>2. CASE a \in ctx.validators /\ ~MaxAmountReached(ctx) /\ a \notin Coins
    <3>1. Taking /\ ctx.payment = active /\ ctx.payment # NoPayment
      BY <2>2 DEF AcceptorInv, OnTakesPart, StageFits, Taking
    <3>2. ctx.current \in Nat /\ ctx.max = MaxAmountAll /\ MaxAmountAll \in Nat
      BY <1>3, <3>1, LedgerAssumption DEF Calm, Contexts
    <3>3. ctx.current < MaxAmountAll
      BY <2>2, <3>2 DEF MaxAmountReached
    <3>4. Stacks(queue[a]) = 0
      BY <1>2, <1>4, <2>2, TakenFits, StacksNone
    <3>5. PICK k : k = Nominal[a] * Stacks(queue[a])
      OBVIOUS
    <3>6. k = 0
      BY <3>4, <3>5, AcceptorAssumption
    <3>7. ASSUME NEW p \in PaymentIds, p = active
          PROVE  inserted[a][p] < MaxAmountAll
      <4>1. inserted[a][p] = b[a][p] + k /\ b[a][p] <= ctx.current
        BY <1>6, <3>1, <3>5, <3>7 DEF Tallied
      <4>2. b[a][p] \in Nat
        BY DEF Parts
      <4>3. QED
        BY <3>2, <3>3, <3>6, <4>1, <4>2
    <3>8. QED
      BY <1>6, <3>7 DEF Tallied
  <2>3. dev' = [dev EXCEPT ![a].phase = "idle", ![a].payer = NoPayment] => dev'[a].phase # "stacking"
    BY <1>3 DEF Devices
  <2>4. QED
    BY <1>2, <2>1, <2>2, <2>3
<1>8. \A c \in Acceptors : Tallied(c, inserted'[c], b[c], Stacks(queue'[c]), dev'[c].phase,
                                   active', created', ctx')
  BY <1>4, <1>5, <1>6, <1>7
<1>9. QED
  BY <1>1, <1>2, <1>8, TallyStep

\* Switching off stacks nothing.
LEMMA SwitchedOffPhase ==
    ASSUME dev \in [Acceptors -> Devices], NEW A, NEW a \in Acceptors
    PROVE  SwitchedOff(A)[a].phase = dev[a].phase
BY DEF SwitchedOff, Devices

\* A step that leaves alone what the acceptors have taken.
LEMMA SameTally ==
    ASSUME Tally, UNCHANGED <<ledger, inserted>>,
           ctx'.payment = ctx.payment, ctx'.current = ctx.current,
           \A c \in Acceptors : Stacks(queue'[c]) = Stacks(queue[c]),
           \A c \in Acceptors : dev'[c].phase = dev[c].phase
    PROVE  Tally'
<1>1. PICK b \in Parts : (\A p \in PaymentIds : Booked(p) = Whole(b, p)) /\ AllTallied(b)
  BY DEF Tally
<1>2. inserted' = inserted /\ active' = active /\ created' = created
  BY DEF ledger
<1>3. \A c \in Acceptors : Tallied(c, inserted'[c], b[c], Stacks(queue'[c]), dev'[c].phase,
                                   active', created', ctx')
  BY <1>1, <1>2, TalliedSame
<1>4. QED
  BY <1>1, <1>3, TallyStep

\* A disabled() handled.
LEMMA OnDisabledTally ==
    ASSUME AcceptorInv, Tally, NEW a \in Acceptors, OnDisabled(a)
    PROVE  Tally'
<1>1. /\ Signalled(a, "disabled") /\ queue' = Taken(a)
      /\ ctx' = [ctx EXCEPT !.validators = @ \ {a}]
      /\ UNCHANGED <<ledger, dev, inserted>>
  BY DEF OnDisabled
<1>2. ctx'.payment = ctx.payment /\ ctx'.current = ctx.current
  BY <1>1 DEF AcceptorInv, TypeOK, Contexts
<1>3. \A c \in Acceptors : Stacks(queue'[c]) = Stacks(queue[c])
  BY <1>1, TakenStacks
<1>4. QED
  BY <1>1, <1>2, <1>3, SameTally

\* disable().
LEMMA StopAcceptingTally ==
    ASSUME AcceptorInv, Tally, StopAccepting
    PROVE  Tally'
<1>1. stage = "accepting" /\ UNCHANGED <<ledger, ctx, inserted>>
  BY DEF StopAccepting
<1>2. ctx.payment = active
  BY <1>1 DEF AcceptorInv, OnTakesPart, Taking
<1>3. dev' = SwitchedOff(ctx.validators) /\ queue' = Answered(queue, ctx.validators)
  BY <1>2 DEF StopAccepting, Disable
<1>4. dev \in [Acceptors -> Devices] /\ queue \in [Acceptors -> Seq(Signals)]
  BY DEF AcceptorInv, TypeOK
<1>5. \A c \in Acceptors : Stacks(queue'[c]) = Stacks(queue[c])
  BY <1>3, <1>4, StacksAnswered
<1>6. \A c \in Acceptors : dev'[c].phase = dev[c].phase
  BY <1>3, <1>4, SwitchedOffPhase
<1>7. QED
  BY <1>1, <1>5, <1>6, SameTally

\* One more note of the acceptor a booked for the payment p.
MorePart(b, a, p, n) == [b EXCEPT ![a] = [b[a] EXCEPT ![p] = b[a][p] + n]]

\* What it makes of the notes booked for each payment.
LEMMA WholeMore ==
    ASSUME NEW b, b \in Parts, NEW a \in Acceptors, NEW p \in PaymentIds, NEW n \in Nat,
           NEW c, c = MorePart(b, a, p, n)
    PROVE  /\ c \in Parts /\ c[a][p] = b[a][p] + n
           /\ \A q \in PaymentIds : q # p => c[a][q] = b[a][q]
           /\ \A x \in Acceptors : x # a => c[x] = b[x]
           /\ \A q \in PaymentIds : Whole(c, q) = Whole(b, q) + (IF q = p THEN n ELSE 0)
<1> DEFINE line == [b[a] EXCEPT ![p] = b[a][p] + n]
<1>1. b[a] \in [PaymentIds -> Nat] /\ b[a][p] + n \in Nat
  BY DEF Parts
<1>2. /\ line \in [PaymentIds -> Nat] /\ line[p] = b[a][p] + n
      /\ \A q \in PaymentIds : q # p => line[q] = b[a][q]
  BY <1>1
<1>3. c = [b EXCEPT ![a] = line]
  BY DEF MorePart
<1> HIDE DEF line
<1>4. c \in Parts /\ c[a] = line /\ \A x \in Acceptors : x # a => c[x] = b[x]
  BY <1>2, <1>3 DEF Parts
<1>5. ASSUME NEW q \in PaymentIds
      PROVE  Whole(c, q) = Whole(b, q) + (IF q = p THEN n ELSE 0)
  <2> DEFINE f == [x \in Acceptors |-> b[x][q]]
             g == [x \in Acceptors |-> c[x][q]]
  <2>1. f \in [Acceptors -> Nat] /\ g \in [Acceptors -> Nat]
    BY <1>4 DEF Parts
  <2>2. /\ \A x \in Acceptors : x # a => g[x] = f[x]
        /\ g[a] = f[a] + (IF q = p THEN n ELSE 0) /\ f[a] \in Nat
    BY <1>2, <1>4, <2>1
  <2>3. Whole(b, q) = SumFunction(f) /\ Whole(c, q) = SumFunction(g)
    BY DEF Whole
  <2> HIDE DEF f, g
  <2>4. Terms(f, Acceptors) /\ Terms(g, Acceptors) /\ AgreeExcept(g, f, Acceptors, a)
    BY <2>1, <2>2, AcceptorAssumption DEF Terms, AgreeExcept
  <2>5. /\ SumFunction(g) = SumFunction(f) - f[a] + g[a] /\ SumFunction(f) \in Nat
    BY <2>4, SumFunctionUpdate
  <2>6. PICK d \in Nat : d = (IF q = p THEN n ELSE 0)
    OBVIOUS
  <2>7. QED
    BY <2>2, <2>3, <2>5, <2>6
<1>6. QED
  BY <1>2, <1>4, <1>5

\* A note booked: it leaves the queue and is pending.
LEMMA OnStackedTally ==
    ASSUME AcceptorInv, NoteFirst, Calm, Tally, NEW a \in Acceptors, OnStacked(a)
    PROVE  Tally'
<1>1. PICK b \in Parts : (\A p \in PaymentIds : Booked(p) = Whole(b, p)) /\ AllTallied(b)
  BY DEF Tally
<1>2. /\ Signalled(a, "stacked") /\ UNCHANGED inserted
      /\ \/ dev' = SwitchedOff(ctx.validators) /\ queue' = Answered(Taken(a), ctx.validators)
         \/ dev' = dev /\ queue' = Taken(a)
  BY DEF OnStacked
<1>3. a \in ctx.validators /\ Taken(a) \in [Acceptors -> Seq(Signals)]
  BY <1>2, TakenFits
<1>4. Taking /\ ctx.payment = active /\ active # NoPayment
  BY <1>3 DEF AcceptorInv, OnTakesPart, StageFits, Taking
<1>5. PICK t, n : t = active /\ n = Nominal[a]
  OBVIOUS
<1>6. t \in PaymentIds /\ n \in Nat \ {0} /\ dev \in [Acceptors -> Devices] /\ ctx \in Contexts
  BY <1>4, <1>5, AcceptorAssumption DEF AcceptorInv, TypeOK, LedgerTypeOK
<1>7. /\ AmountUpdated(active, n) /\ ctx' = [ctx EXCEPT !.current = @ + n]
      /\ active' = active /\ created' = created
  BY <1>3, <1>4, <1>5 DEF OnStacked, AmountUpdated
<1>8. PICK c : c = MorePart(b, a, t, n)
  OBVIOUS
<1>9. /\ c \in Parts /\ c[a][t] = b[a][t] + n
      /\ \A p \in PaymentIds : p # t => c[a][p] = b[a][p]
      /\ \A x \in Acceptors : x # a => c[x] = b[x]
      /\ \A p \in PaymentIds : Whole(c, p) = Whole(b, p) + (IF p = t THEN n ELSE 0)
  BY <1>6, <1>8, WholeMore
<1>10. \A p \in PaymentIds : Booked(p)' = Booked(p) + (IF p = active THEN n ELSE 0)
  BY <1>4, <1>6, <1>7, NoteBooks DEF AcceptorInv, TypeOK
<1>11. \A p \in PaymentIds : Booked(p)' = Whole(c, p)
  BY <1>1, <1>5, <1>9, <1>10
<1>12. /\ \A x \in Acceptors : Stacks(queue'[x]) = Stacks(Taken(a)[x])
       /\ \A x \in Acceptors : dev'[x].phase = dev[x].phase
  <2>1. CASE dev' = SwitchedOff(ctx.validators) /\ queue' = Answered(Taken(a), ctx.validators)
    BY <1>3, <1>6, <2>1, StacksAnswered, SwitchedOffPhase
  <2>2. CASE dev' = dev /\ queue' = Taken(a)
    BY <2>2
  <2>3. QED
    BY <1>2, <2>1, <2>2
<1>13. PICK k, m : k = Stacks(Taken(a)[a]) /\ m = n * k
  OBVIOUS
<1>14. k \in Nat /\ m \in Nat /\ n * (k + 1) = m + n /\ Stacks(queue[a]) = k + 1
  <2>1. k \in Nat /\ Stacks(queue[a]) = k + 1
    BY <1>2, <1>13, TakenStacks
  <2>2. QED
    BY <1>6, <1>13, <2>1
<1>15. \A x \in Acceptors : x # a => Stacks(queue'[x]) = Stacks(queue[x])
  BY <1>2, <1>12, TakenStacks
<1>16. /\ ctx'.payment = ctx.payment /\ ctx'.current = ctx.current + n
       /\ ctx.current \in Nat /\ ctx'.current \in Nat
  BY <1>6, <1>7 DEF Contexts
<1>17. \A x \in Acceptors : Tallied(x, inserted[x], b[x], Stacks(queue[x]), dev[x].phase,
                                    active, created, ctx)
  BY <1>1 DEF AllTallied
<1>18. \A x \in Acceptors, p \in PaymentIds : b[x][p] \in Nat
  BY DEF Parts
<1>19. ASSUME NEW x \in Acceptors, x # a
       PROVE  Tallied(x, inserted[x], c[x], Stacks(queue[x]), dev[x].phase, active, created, ctx')
  <2>1. Tallied(x, inserted[x], b[x], Stacks(queue[x]), dev[x].phase, active, created, ctx)
    BY <1>17
  <2>2. \A p \in PaymentIds : b[x][p] <= ctx.current => b[x][p] <= ctx'.current
    BY <1>6, <1>16, <1>18
  <2>3. QED
    BY <1>9, <1>16, <1>19, <2>1, <2>2 DEF Tallied
<1>20. Tallied(a, inserted[a], c[a], k, dev[a].phase, active, created, ctx')
  <2>1. Tallied(a, inserted[a], b[a], k + 1, dev[a].phase, active, created, ctx)
    BY <1>14, <1>17
  <2>2. ASSUME NEW p \in PaymentIds
        PROVE  /\ inserted[a][p] = c[a][p] + (IF p = ctx'.payment THEN n * k ELSE 0)
               /\ p = ctx'.payment => c[a][p] <= ctx'.current
    <3>1. /\ inserted[a][p] = b[a][p] + (IF p = t THEN m + n ELSE 0)
          /\ p = t => b[a][p] <= ctx.current
      BY <1>4, <1>5, <1>14, <2>1 DEF Tallied
    <3>2. CASE p = t
      <4>1. inserted[a][p] = c[a][p] + m /\ c[a][p] <= ctx.current + n
        BY <1>6, <1>9, <1>14, <1>16, <1>18, <3>1, <3>2
      <4>2. QED
        BY <1>4, <1>5, <1>13, <1>16, <3>2, <4>1
    <3>3. CASE p # t
      BY <1>4, <1>5, <1>9, <1>16, <1>18, <3>1, <3>3
    <3>4. QED
      BY <3>2, <3>3
  <2>3. QED
    BY <1>5, <1>16, <2>1, <2>2 DEF Tallied
<1>21. \A x \in Acceptors : Tallied(x, inserted'[x], c[x], Stacks(queue'[x]), dev'[x].phase,
                                    active', created', ctx')
  BY <1>2, <1>7, <1>12, <1>13, <1>15, <1>19, <1>20
<1>22. AllTallied(c)'
  BY <1>21, AllTalliedIs
<1>23. \A p \in PaymentIds : Booked(p)' = Whole(c, p)'
  BY <1>11 DEF Whole
<1>24. QED
  BY <1>9, <1>22, <1>23 DEF Tally, Parts

\* A payment that begins to take money: its notes of before are all booked.
LEMMA StartAcceptingTally ==
    ASSUME AcceptorInv, Calm, Tally, StartAccepting
    PROVE  Tally'
<1>1. PICK b \in Parts : (\A p \in PaymentIds : Booked(p) = Whole(b, p)) /\ AllTallied(b)
  BY DEF Tally
<1>2. ~Taking /\ UNCHANGED <<ledger, inserted, queue>> /\ \A x \in Acceptors : queue[x] = <<>>
  BY DEF StartAccepting, Enable, Taking
<1>3. active' = active /\ created' = created
  BY <1>2 DEF ledger
<1>4. ctx \in Contexts /\ dev \in [Acceptors -> Devices]
      /\ inserted \in [Acceptors -> [PaymentIds -> Nat]] /\ active \in PaymentIds \cup {NoPayment}
  BY DEF AcceptorInv, TypeOK, LedgerTypeOK
<1>5. \A x \in Acceptors : dev'[x].phase = "idle"
  <2>1. \A x \in Acceptors : dev[x].phase = "idle"
    BY <1>2 DEF AcceptorInv, OnTakesPart, Calm, Fits
  <2> DEFINE ready == {a \in Acceptors : ~dev[a].failed}
  <2>2. \/ dev' = dev
        \/ dev' = [a \in Acceptors |->
                      IF a \in ready THEN [dev[a] EXCEPT !.on = TRUE] ELSE dev[a]]
    BY DEF StartAccepting, Enable
  <2> HIDE DEF ready
  <2>3. \A x \in Acceptors : dev'[x].phase = dev[x].phase
    BY <1>4, <2>2 DEF Devices
  <2>4. QED
    BY <2>1, <2>3
<1>6. ctx'.payment = active /\ (ctx.payment = active => ctx'.current = ctx.current) /\ ctx'.current \in Nat
  <2> DEFINE base == IF ctx.payment = active
                     THEN IF ctx.current = 0 THEN [ctx EXCEPT !.max = MaxAmountAll] ELSE ctx
                     ELSE [NoContext EXCEPT !.payment = active, !.max = MaxAmountAll]
  <2>1. \/ ctx' = base
        \/ ctx' = [base EXCEPT !.validators = @ \cup {a \in Acceptors : ~dev[a].failed}]
    BY DEF StartAccepting, Enable
  <2>2. /\ base.payment = active /\ (ctx.payment = active => base.current = ctx.current)
        /\ base.current \in Nat
        /\ base \in [payment : {active}, current : {base.current}, max : {base.max},
                     validators : {base.validators}]
    <3>1. CASE ctx.payment = active
      BY <1>4, <3>1 DEF Contexts
    <3>2. CASE ctx.payment # active
      BY <3>2 DEF NoContext
    <3>3. QED
      BY <3>1, <3>2
  <2> HIDE DEF base
  <2>3. QED
    BY <2>1, <2>2
<1>7. \A x \in Acceptors : Stacks(queue[x]) = 0
  BY <1>2, QueueOrders, StacksNone
<1>8. ASSUME NEW x \in Acceptors
      PROVE  Tallied(x, inserted[x], b[x], 0, "idle", active, created, ctx')
  <2>1. Tallied(x, inserted[x], b[x], 0, dev[x].phase, active, created, ctx)
    BY <1>1, <1>7, <1>8 DEF AllTallied
  <2>2. \A p \in PaymentIds : b[x][p] \in Nat /\ inserted[x][p] \in Nat
    BY <1>4 DEF Parts
  <2>3. PICK m : m = Nominal[x] * 0
    OBVIOUS
  <2>4. m = 0
    BY <2>3, AcceptorAssumption
  <2>5. ASSUME NEW p \in PaymentIds
        PROVE  /\ inserted[x][p] = b[x][p] + (IF p = ctx'.payment THEN m ELSE 0)
               /\ p = ctx'.payment => b[x][p] <= ctx'.current
    <3>1. /\ inserted[x][p] = b[x][p] + (IF p = ctx.payment THEN m ELSE 0)
          /\ p = active /\ p # ctx.payment => inserted[x][p] = 0
          /\ p = ctx.payment => b[x][p] <= ctx.current
      BY <2>1, <2>3 DEF Tallied
    <3>2. inserted[x][p] = b[x][p]
      BY <2>2, <2>4, <3>1
    <3>3. QED
      BY <1>6, <2>2, <2>4, <3>1, <3>2
  <2>6. QED
    BY <1>6, <2>1, <2>3, <2>5 DEF Tallied
<1>9. \A x \in Acceptors : Tallied(x, inserted'[x], b[x], Stacks(queue'[x]), dev'[x].phase,
                                   active', created', ctx')
  BY <1>2, <1>3, <1>5, <1>7, <1>8
<1>10. QED
  BY <1>1, <1>2, <1>9, TallyStep

\* A payment opened, filled, cancelled or left, or the cash collected, with the
\* acceptors off.
LEMMA PaymentTally ==
    ASSUME AcceptorInv, NoteFirst, Calm, Tally,
           StartPayment \/ UseChange \/ GiveUpChange \/ CancelPayment \/ LeavePayment
               \/ PerformEncashment
    PROVE  Tally'
<1>1. PICK b \in Parts : (\A p \in PaymentIds : Booked(p) = Whole(b, p)) /\ AllTallied(b)
  BY DEF Tally
<1>2. /\ ~Taking /\ UNCHANGED <<dev, queue, ctx, inserted>>
      /\ \/ CreatePayment \/ MoveChangeToPayment \/ MovePaymentToChange
         \/ ResetChange \/ DeactivatePayment \/ Encash
  BY DEF StartPayment, UseChange, GiveUpChange, CancelPayment, LeavePayment,
         PerformEncashment, idleAcceptor, Taking
<1>3. \A p \in PaymentIds : Booked(p)' = Booked(p)
  BY <1>2, OthersBook DEF AcceptorInv, TypeOK
<1>4. /\ created \in Nat /\ created' \in Nat /\ created' >= created
      /\ active' = active \/ active' = NoPayment \/ active' = created + 1
  <2>1. created \in Nat
    BY DEF AcceptorInv, TypeOK, LedgerTypeOK
  <2>2. QED
    BY <1>2, <2>1 DEF CreatePayment, MoveChangeToPayment, ResetChange, MovePaymentToChange,
                      DeactivatePayment, Encash
<1>5. \A x \in Acceptors : dev[x].phase = "idle"
  BY <1>2 DEF AcceptorInv, OnTakesPart, Calm, Fits
<1>6. \A p \in PaymentIds : p \in Nat /\ p # NoPayment
  BY DEF PaymentIds, NoPayment
<1>7. ASSUME NEW x \in Acceptors
      PROVE  Tallied(x, inserted[x], b[x], Stacks(queue[x]), "idle", active', created', ctx)
  <2>1. Tallied(x, inserted[x], b[x], Stacks(queue[x]), "idle", active, created, ctx)
    BY <1>1, <1>5 DEF AllTallied
  <2>2. \A p \in PaymentIds :
          /\ p > created' => inserted[x][p] = 0
          /\ p = active' /\ p # ctx.payment => inserted[x][p] = 0
    <3> TAKE p \in PaymentIds
    <3>1. /\ p > created => inserted[x][p] = 0
          /\ p = active /\ p # ctx.payment => inserted[x][p] = 0
      BY <2>1 DEF Tallied
    <3>2. QED
      BY <1>4, <1>6, <3>1
  <2>3. QED
    BY <2>1, <2>2 DEF Tallied
<1>8. \A x \in Acceptors : Tallied(x, inserted'[x], b[x], Stacks(queue'[x]), dev'[x].phase,
                                   active', created', ctx')
  BY <1>2, <1>5, <1>7
<1>9. AllTallied(b)'
  BY <1>8, AllTalliedIs
<1>10. QED
  BY <1>1, <1>3, <1>9, TallyKept

\* A save, or nothing at all.
LEMMA SaveTally ==
    ASSUME AcceptorInv, NoteFirst, Tally, SaveNext \/ UNCHANGED vars
    PROVE  Tally'
<1>1. PICK b \in Parts : (\A p \in PaymentIds : Booked(p) = Whole(b, p)) /\ AllTallied(b)
  BY DEF Tally
<1>2. UNCHANGED <<dev, queue, ctx, inserted, active, created>>
  BY DEF SaveNext, Save, SaveNote, SavePayment, SaveChange, acceptorVars, vars, ledger
<1>3. \A p \in PaymentIds : Booked(p)' = Booked(p)
  <2>1. CASE SaveNext
    BY <2>1, SaveBooks DEF SaveNext, AcceptorInv, TypeOK
  <2>2. CASE UNCHANGED vars
    BY <2>2, OthersBook DEF vars, AcceptorInv, TypeOK
  <2>3. QED
    BY <2>1, <2>2
<1>4. \A x \in Acceptors : Tallied(x, inserted'[x], b[x], Stacks(queue'[x]), dev'[x].phase,
                                   active', created', ctx')
  BY <1>1, <1>2 DEF AllTallied
<1>5. AllTallied(b)'
  BY <1>4, AllTalliedIs
<1>6. QED
  BY <1>1, <1>3, <1>5, TallyKept

\* The order of the signals and the numbers, as long as nothing has failed.
NothingLost == NoteFirst /\ (faults = 0 => Calm /\ Tally)

\* Nothing is taken and nothing booked at the start.
LEMMA TallyInit == Init => NothingLost
<1> SUFFICES ASSUME Init PROVE NothingLost
  OBVIOUS
<1>1. LedgerInit /\ LedgerTypeOK
  BY LedgerInitType DEF Init
<1>2. NoteFirst /\ \A p : Pending(p) = 0
  BY <1>1, NonePending DEF LedgerInit, LedgerTypeOK
<1> DEFINE none == [a \in Acceptors |-> [p \in PaymentIds |-> 0]]
<1>3. none \in Parts /\ \A a \in Acceptors, p \in PaymentIds : none[a][p] = 0
  BY DEF Parts
<1>4. inserted = none /\ ctx = NoContext
  BY DEF Init
<1> HIDE DEF none
<1>5. \A p \in PaymentIds : NotesOf(p) = 0
  <2>1. AllNotes = 0
    BY <1>1, LedgerInitSums
  <2>2. \A p \in PaymentIds : NotesOf(p) \in Nat /\ NotesOf(p) <= AllNotes
    BY <1>1, NoteSums DEF LedgerTypeOK
  <2>3. QED
    BY <2>1, <2>2
<1>6. ASSUME NEW p \in PaymentIds
      PROVE  Booked(p) = Whole(none, p)
  <2> DEFINE f == [a \in Acceptors |-> none[a][p]]
  <2>1. f \in [Acceptors -> Nat] /\ \A a \in Acceptors : f[a] = 0
    BY <1>3
  <2>2. Whole(none, p) = SumFunction(f)
    BY DEF Whole
  <2> HIDE DEF f
  <2>3. SumFunction(f) = 0
    BY <2>1, SumFunctionZero, AcceptorAssumption
  <2>4. QED
    BY <1>2, <1>5, <2>2, <2>3 DEF Booked
<1>7. AllTallied(none)
  <2>1. \A a \in Acceptors : dev[a].phase = "idle"
    BY DEF Init, Off
  <2>2. \A p \in PaymentIds : p # NoPayment
    BY DEF PaymentIds, NoPayment
  <2>3. ctx.payment = NoPayment
    BY <1>4 DEF NoContext
  <2>4. \A a \in Acceptors : 0 < MaxAmountAll + Nominal[a]
    BY LedgerAssumption, AcceptorAssumption
  <2>5. QED
    BY <1>3, <1>4, <2>1, <2>2, <2>3, <2>4 DEF AllTallied, Tallied
<1>8. Calm
  BY CalmInit
<1>9. QED
  BY <1>2, <1>3, <1>6, <1>7, <1>8 DEF NothingLost, Tally

\* Every step without a failure keeps both.
LEMMA NothingLostStep ==
    ASSUME AcceptorInv, CollectedFirst, NothingLost, [Next]_vars
    PROVE  NothingLost'
<1>1. LedgerTypeOK /\ faults \in Nat
  BY DEF AcceptorInv, TypeOK
<1>2. NoteFirst'
  <2>1. CASE LedgerStep
    <3>1. ASSUME NEW n \in Nat, active # NoPayment, AmountUpdated(active, n)
          PROVE  NoteFirst'
      BY <1>1, <3>1, NoteBooks
    <3>2. QED
      BY <1>1, <2>1, <3>1, SaveBooks, OthersBook DEF LedgerStep, NothingLost
  <2>2. CASE LedgerCrash
    <3>1. writes' = <<>>
      BY <2>2 DEF LedgerCrash
    <3>2. QED
      BY <3>1 DEF NoteFirst
  <2>3. QED
    BY <2>1, <2>2, StepIs
<1>3. ASSUME faults' = 0
      PROVE  Calm' /\ Tally'
  <2>1. faults' >= faults \/ faults' = faults + 1
    BY StepIs
  <2>2. faults = 0 /\ faults' = faults
    BY <1>1, <1>3, <2>1
  <2>3. NoteFirst /\ Calm /\ Tally
    BY <2>2 DEF NothingLost
  <2>4. Calm'
    BY <2>2, <2>3, CalmStep
  <2>5. Tally'
    <3>1. ASSUME NEW a \in Acceptors, Manager(a)
          PROVE  Tally'
      <4>1. ~OnError(a)
        BY <2>3, TakenFits DEF OnError
      <4>2. QED
        BY <2>3, <3>1, <4>1, OnEscrowTally, OnStackedTally, OnDisabledTally DEF Manager
    <3>2. ASSUME NEW a \in Acceptors, Driver(a)
          PROVE  Tally'
      BY <2>2, <2>3, <3>2, DriverTally
    <3>3. CASE Scenario
      BY <2>3, <3>3, PaymentTally, StartAcceptingTally, StopAcceptingTally DEF Scenario
    <3>4. CASE SaveNext \/ UNCHANGED vars
      BY <2>3, <3>4, SaveTally
    <3>5. ~Crash
      BY <1>1, <2>2 DEF Crash
    <3>6. QED
      BY <3>1, <3>2, <3>3, <3>4, <3>5 DEF Next
  <2>6. QED
    BY <2>4, <2>5
<1>4. QED
  BY <1>2, <1>3 DEF NothingLost

\* With no payment taking money no note waits in a queue, so what has been
\* booked is what has been taken.
LEMMA TallyFinal ==
    ASSUME AcceptorInv, NothingLost
    PROVE  AmountIsFinal
<1> SUFFICES ASSUME faults = 0, MainIdle, ~Taking, NEW p \in PaymentIds
             PROVE  NotesOf(p) = InsertedFor(p)
  BY DEF AmountIsFinal, Taking
<1>1. Calm /\ Tally
  BY DEF NothingLost
<1>2. PICK b \in Parts : (\A q \in PaymentIds : Booked(q) = Whole(b, q)) /\ AllTallied(b)
  BY <1>1 DEF Tally
<1>3. \A a \in Acceptors : Stacks(queue[a]) = 0
  <2>1. \A a \in Acceptors : OnlyTold(queue[a])
    BY <1>1 DEF AcceptorInv, OnTakesPart, Calm, Fits
  <2>2. QED
    BY <2>1, StacksNone
<1>4. ASSUME NEW a \in Acceptors
      PROVE  inserted[a][p] = b[a][p]
  <2>1. Tallied(a, inserted[a], b[a], 0, dev[a].phase, active, created, ctx)
    BY <1>2, <1>3 DEF AllTallied
  <2>2. PICK m : m = Nominal[a] * 0
    OBVIOUS
  <2>3. m = 0 /\ b[a][p] \in Nat
    BY <2>2, AcceptorAssumption DEF Parts
  <2>4. inserted[a][p] = b[a][p] + (IF p = ctx.payment THEN m ELSE 0)
    BY <2>1, <2>2 DEF Tallied
  <2>5. QED
    BY <2>3, <2>4
<1>5. [a \in Acceptors |-> inserted[a][p]] = [a \in Acceptors |-> b[a][p]]
  BY <1>4
<1>6. InsertedFor(p) = Whole(b, p)
  BY <1>5 DEF InsertedFor, Whole
<1>7. NotesOf(p) \in Nat /\ Pending(p) = 0
  BY NoteSums DEF AcceptorInv, TypeOK, LedgerTypeOK, Pending, MainIdle
<1>8. QED
  BY <1>2, <1>6, <1>7 DEF Booked

\* The maximum is part of it.
LEMMA TallyMaximum ==
    ASSUME NothingLost
    PROVE  StopsAtMaximum
BY DEF NothingLost, Tally, AllTallied, Tallied, StopsAtMaximum

-----------------------------------------------------------------------------
(* Theorems *)

IInv == AcceptorInv /\ MoneyHeld /\ NotesHeld /\ NothingLost

\* The invariant holds at the start and every step keeps it.
LEMMA InvInit == Init => IInv
<1> SUFFICES ASSUME Init PROVE IInv
  OBVIOUS
<1>1. LedgerInit /\ torn = 0
  BY DEF Init, LedgerInit
<1>2. MoneyHeld
  BY <1>1, LedgerHoldsInit DEF MoneyHeld
<1>3. NotesHeld
  BY <1>1, LedgerInitSums, CollectedFirstInit DEF NotesHeld
<1>4. QED
  BY <1>2, <1>3, AcceptorInit, TallyInit DEF IInv

\* Every step keeps the invariant.
LEMMA InvStep == IInv /\ [Next]_vars => IInv'
<1> SUFFICES ASSUME IInv, [Next]_vars PROVE IInv'
  OBVIOUS
<1>1. AcceptorInv'
  BY AcceptorStep DEF IInv, MoneyHeld
<1>2. MoneyHeld'
  BY MoneyStep DEF IInv
<1>3. NotesHeld'
  BY NotesStep DEF IInv
<1>4. NothingLost'
  BY NothingLostStep DEF IInv, NotesHeld
<1>5. QED
  BY <1>1, <1>2, <1>3, <1>4 DEF IInv

\* The invariant holds throughout.
LEMMA InvAlways == Spec => []IInv
BY InvInit, InvStep, PTL DEF Spec

\* The types, for any acceptors, payments, encashments and nominals.
THEOREM TypeCorrect == Spec => []TypeOK
<1>1. IInv => TypeOK
  BY DEF IInv, AcceptorInv
<1>2. QED
  BY <1>1, InvAlways, PTL

\* No acceptor takes money unless a payment waits for it: every acceptor that
\* enable() has switched on is off again before disabled(p) is heard, whatever
\* fails and whenever the program stops (CashAcceptorManager::onStatusChanged).
THEOREM DisabledMeansOff == Spec => []DisabledIsOff
<1>1. IInv => DisabledIsOff
  BY DEF IInv, AcceptorInv, OnTakesPart, Taking, DisabledIsOff
<1>2. QED
  BY <1>1, InvAlways, PTL

\* The encashments and the balance add up to payment_note, for any number of
\* payments, encashments and stops (perform_Encashment, getBalance).
THEOREM EveryNoteCollectedOnce == Spec => []NotesCollectedOnce
<1>1. IInv => NotesCollectedOnce
  BY DEF IInv, NotesHeld
<1>2. QED
  BY <1>1, InvAlways, PTL

\* A note an encashment has taken stays with it, though perform_Encashment
\* stamps every note of the first payment with notes inside and of the later
\* ones: payments with collected notes are older than those.
THEOREM CollectedNotesStay == Spec => CollectedStays
<1>1. IInv /\ [Next]_vars =>
        [\A p \in PaymentIds, e \in 1..MaxEncashments : notes'[p][e] >= notes[p][e]]_notes
  BY NotesStep DEF IInv, Stays
<1>2. QED
  BY <1>1, InvAlways, PTL DEF Spec, CollectedStays

\* What the rows promise is covered by the notes, but for what a stop between
\* the two saves of movePaymentToChange has doubled.
THEOREM RowsAreBacked == Spec => []Backed
<1>1. IInv => Backed
  BY HoldsBacked DEF IInv, AcceptorInv, TypeOK, MoneyHeld
<1>2. QED
  BY <1>1, InvAlways, PTL

\* With no failure the rows hold exactly what was taken.
THEOREM MoneyConserved == Spec => []Conserved
<1>1. IInv => Conserved
  BY HoldsBacked DEF IInv, AcceptorInv, TypeOK, MoneyHeld, Conserved
<1>2. QED
  BY <1>1, InvAlways, PTL

\* With no failure every note is booked, and to the payment it was fed for: once
\* disabled(p) has been heard, payment_note holds what the acceptors took while p
\* was active, however the signals of the drivers, the switching off and the
\* saves interleave (CashAcceptorManager::onStacked, onStatusChanged).
THEOREM EveryNoteBooked == Spec => []AmountIsFinal
<1>1. IInv => AmountIsFinal
  BY TallyFinal DEF IInv
<1>2. QED
  BY <1>1, InvAlways, PTL

\* With no failure an acceptor with escrow takes at most one note past the
\* maximum, for any nominals and any number of acceptors: a note is stacked only
\* after what became of the one before has been booked (onEscrow).
THEOREM OneNotePastMaximum == Spec => []StopsAtMaximum
<1>1. IInv => StopsAtMaximum
  BY TallyMaximum DEF IInv
<1>2. QED
  BY <1>1, InvAlways, PTL

=============================================================================

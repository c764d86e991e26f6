---------------------------- MODULE ChangeLedger ----------------------------
(***************************************************************************)
(* The money of the terminal as PaymentService and the payment database    *)
(* keep it: what a payment holds, the unspent change (m_ChangePayment, a   *)
(* payment of its own), the table payment_note with one row per banknote   *)
(* or coin, and the encashments.                                           *)
(*                                                                         *)
(* Every operation runs on the main thread: it changes the objects in      *)
(* memory and then saves rows one by one, each save a transaction of its   *)
(* own.  The saves an operation has still to make are the sequence         *)
(* `writes'; the program may stop between two of them.                     *)
(***************************************************************************)
EXTENDS Integers, Sequences, FiniteSetsExt, Functions

CONSTANTS
    MaxPayments,     \* bound: payments a behaviour creates
    MaxEncashments,  \* bound: encashments a behaviour performs
    MaxAmountAll     \* the largest sum a payment takes, the rest is change

ASSUME LedgerAssumption ==
    /\ MaxPayments \in Nat \ {0}
    /\ MaxEncashments \in Nat
    /\ MaxAmountAll \in Nat \ {0}

PaymentIds == 1..MaxPayments
NoPayment  == 0
NoChange   == -1

VARIABLES
    created,    \* how many payments have been created
    active,     \* m_ActivePayment
    obj,        \* AMOUNT_ALL and CHANGE of the active payment object
    row,        \* the same parameters in the rows of the database
    change,     \* the amount of m_ChangePayment, NoChange without one
    changeRow,  \* AMOUNT_ALL in the row of m_ChangePayment
    lost,       \* the amounts of the rows in the state LostChange
    paidOut,    \* what the ledger has taken off the change as dispensed
    notes,      \* payment_note: sums by payment and ejection, 0 = still inside
    encs,       \* the amounts of the encashments
    writes,     \* saves the running handler has still to make
    torn        \* history: money a stop between two saves has doubled

ledger == <<created, active, obj, row, change, changeRow, lost, paidOut,
            notes, encs, writes, torn>>

-----------------------------------------------------------------------------
(* Amounts *)

Amounts == [all : Nat, change : Nat]
Nothing == [all |-> 0, change |-> 0]

\* Mutant: the change is taken the wrong way round.
SplitReversed(total) ==
    IF total > MaxAmountAll
    THEN [all |-> MaxAmountAll, change |-> MaxAmountAll - total]
    ELSE [all |-> total, change |-> 0]

\* What a payment makes of a sum: the part above the maximum is change.
Split(total) ==
    IF total > MaxAmountAll
    THEN [all |-> MaxAmountAll, change |-> total - MaxAmountAll]
    ELSE [all |-> total, change |-> 0]

\* The object in use when the payment is active, else a copy from the database.
Money(p) == IF p = active THEN obj ELSE row[p]

Leftover == IF change = NoChange THEN 0 ELSE change

Inside(p)    == notes[p][0]
NotesOf(p)   == SumFunction(notes[p])
AllNotes     == SumFunction([p \in PaymentIds |-> NotesOf(p)])
AllInside    == SumFunction([p \in PaymentIds |-> Inside(p)])
AllEncashed  == SumFunction(encs)

\* Everything the rows say the customers are owed or have been given.
Recorded ==
    SumFunction([p \in PaymentIds |-> row[p].all]) + changeRow + lost + paidOut

-----------------------------------------------------------------------------
(* Saves *)

NoteSave(p, n)    == [table |-> "payment_note", payment |-> p, amount |-> n]
PaymentSave(p, m) == [table |-> "payment", payment |-> p, money |-> m]
ChangeSave(n)     == [table |-> "change", amount |-> n]

Saves ==
    [table : {"payment_note"}, payment : PaymentIds, amount : Nat]
    \cup [table : {"payment"}, payment : PaymentIds, money : Amounts]
    \cup [table : {"change"}, amount : Nat]

\* The main thread takes the next event when its handler has returned.
MainIdle == writes = <<>>

SaveNote ==
    /\ ~MainIdle
    /\ LET w == Head(writes) IN
        /\ w.table = "payment_note"
        /\ notes' = [notes EXCEPT ![w.payment][0] = @ + w.amount]
    /\ writes' = Tail(writes)
    /\ UNCHANGED <<created, active, obj, row, change, changeRow, lost, paidOut,
                   encs, torn>>

SavePayment ==
    /\ ~MainIdle
    /\ LET w == Head(writes) IN
        /\ w.table = "payment"
        /\ row' = [row EXCEPT ![w.payment] = w.money]
    /\ writes' = Tail(writes)
    /\ UNCHANGED <<created, active, obj, change, changeRow, lost, paidOut,
                   notes, encs, torn>>

SaveChange ==
    /\ ~MainIdle
    /\ LET w == Head(writes) IN
        /\ w.table = "change"
        /\ changeRow' = w.amount
    /\ writes' = Tail(writes)
    /\ UNCHANGED <<created, active, obj, row, change, lost, paidOut, notes,
                   encs, torn>>

Save == SaveNote \/ SavePayment \/ SaveChange

-----------------------------------------------------------------------------
(* Operations of PaymentService *)

LedgerInit ==
    /\ created = 0
    /\ active = NoPayment
    /\ obj = Nothing
    /\ row = [p \in PaymentIds |-> Nothing]
    /\ change = NoChange
    /\ changeRow = 0
    /\ lost = 0
    /\ paidOut = 0
    /\ notes = [p \in PaymentIds |-> [e \in 0..MaxEncashments |-> 0]]
    /\ encs = <<>>
    /\ writes = <<>>
    /\ torn = 0

\* createPayment: an active payment is dropped without a save.
CreatePayment ==
    /\ MainIdle
    /\ created < MaxPayments
    /\ created' = created + 1
    /\ active' = created + 1
    /\ obj' = Nothing
    /\ UNCHANGED <<row, change, changeRow, lost, paidOut, notes, encs, writes, torn>>

\* Mutant: the change a payment has already given is forgotten.
AmountUpdatedNoChange(p, n) ==
    LET new == Split(Money(p).all + n) IN
    /\ MainIdle
    /\ obj' = IF p = active THEN new ELSE obj
    /\ change' = IF new.change = 0 THEN change ELSE new.change
    /\ writes' = <<NoteSave(p, n), PaymentSave(p, new)>>
                 \o (IF new.change = 0 THEN <<>> ELSE <<ChangeSave(new.change)>>)
    /\ UNCHANGED <<created, active, row, changeRow, lost, paidOut, notes, encs, torn>>

\* A note of the payment p: its row in payment_note, then onAmountUpdated.
AmountUpdated(p, n) ==
    LET was == Money(p)
        new == Split(was.all + was.change + n)
    IN
    /\ MainIdle
    /\ obj' = IF p = active THEN new ELSE obj
    /\ change' = IF new.change = 0 THEN change ELSE new.change
    /\ writes' = <<NoteSave(p, n), PaymentSave(p, new)>>
                 \o (IF new.change = 0 THEN <<>> ELSE <<ChangeSave(new.change)>>)
    /\ UNCHANGED <<created, active, row, changeRow, lost, paidOut, notes, encs, torn>>

\* Mutant: the payment is saved before the change it was filled from.
MoveChangePaymentFirst ==
    LET new == Split(obj.all + Leftover) IN
    /\ MainIdle
    /\ active # NoPayment
    /\ Leftover # 0
    /\ obj' = new
    /\ change' = new.change
    /\ writes' = <<PaymentSave(active, new), ChangeSave(new.change)>>
    /\ UNCHANGED <<created, active, row, changeRow, lost, paidOut, notes, encs, torn>>

\* moveChangeToPayment for the active payment.
MoveChangeToPayment ==
    LET new == Split(obj.all + Leftover) IN
    /\ MainIdle
    /\ active # NoPayment
    /\ Leftover # 0
    /\ obj' = new
    /\ change' = new.change
    /\ writes' = <<ChangeSave(new.change), PaymentSave(active, new)>>
    /\ UNCHANGED <<created, active, row, changeRow, lost, paidOut, notes, encs, torn>>

\* movePaymentToChange for the active payment: the change is saved first.
MovePaymentToChange ==
    LET sum == Leftover + obj.all IN
    /\ MainIdle
    /\ active # NoPayment
    /\ sum # 0
    /\ obj' = Nothing
    /\ change' = sum
    /\ writes' = <<ChangeSave(sum), PaymentSave(active, Nothing)>>
    /\ UNCHANGED <<created, active, row, changeRow, lost, paidOut, notes, encs, torn>>

\* resetChange: change left over is kept as lost, an empty one is removed.
ResetChange ==
    /\ MainIdle
    /\ change # NoChange
    /\ lost' = lost + change
    /\ changeRow' = 0
    /\ change' = NoChange
    /\ UNCHANGED <<created, active, obj, row, paidOut, notes, encs, writes, torn>>

\* deactivatePayment: saved, dropped, and an empty change goes with it.
DeactivatePayment ==
    /\ MainIdle
    /\ active # NoPayment
    /\ writes' = <<PaymentSave(active, obj)>>
    /\ active' = NoPayment
    /\ obj' = Nothing
    /\ change' = IF change = 0 THEN NoChange ELSE change
    /\ UNCHANGED <<created, row, changeRow, lost, paidOut, notes, encs, torn>>

\* onAmountDispensed; more than the change holds takes it down to nothing.
AmountDispensed(n) ==
    LET taken == IF n > Leftover THEN Leftover ELSE n
        known == n # 0 /\ change # NoChange
    IN
    /\ MainIdle
    /\ change' = IF known THEN change - taken ELSE change
    /\ writes' = IF known THEN <<ChangeSave(change - taken)>> ELSE <<>>
    /\ paidOut' = paidOut + taken
    /\ UNCHANGED <<created, active, obj, row, changeRow, lost, notes, encs, torn>>

\* Mutant: the search for the first payment does not look at the ejection.
FirstPaymentWithNotes == Min({p \in PaymentIds : NotesOf(p) # 0})

\* getBalance: the first payment of an encashment holds a note still inside.
FirstPayment == Min({p \in PaymentIds : Inside(p) # 0})

\* Mutant: the first payment itself is left out of the update.
EncashAfterFirst ==
    LET e == Len(encs) + 1
        stamped(p) == [k \in 0..MaxEncashments |-> IF k = e THEN NotesOf(p) ELSE 0]
    IN
    /\ MainIdle
    /\ Len(encs) < MaxEncashments
    /\ AllInside # 0
    /\ encs' = Append(encs, AllInside)
    /\ notes' = [p \in PaymentIds |->
                    IF p > FirstPayment THEN stamped(p) ELSE notes[p]]
    /\ UNCHANGED <<created, active, obj, row, change, changeRow, lost, paidOut,
                   writes, torn>>

\* perform_Encashment, one transaction: every note of the first payment and of
\* the later ones is stamped, the ones an earlier encashment took included.
Encash ==
    LET e == Len(encs) + 1
        stamped(p) == [k \in 0..MaxEncashments |-> IF k = e THEN NotesOf(p) ELSE 0]
    IN
    /\ MainIdle
    /\ Len(encs) < MaxEncashments
    /\ AllInside # 0
    /\ encs' = Append(encs, AllInside)
    /\ notes' = [p \in PaymentIds |->
                    IF p >= FirstPayment THEN stamped(p) ELSE notes[p]]
    /\ UNCHANGED <<created, active, obj, row, change, changeRow, lost, paidOut,
                   writes, torn>>

\* A row about to be emptied, whose money another row holds already.
HalfMoved ==
    IF ~MainIdle /\ Head(writes).table = "payment"
    THEN LET w == Head(writes) IN Max({0, row[w.payment].all - w.money.all})
    ELSE 0

\* The program stops and starts again: the objects are gone, and the payment
\* thread finds the row of the change without an owner and marks it as lost.
LedgerCrash ==
    /\ active' = NoPayment
    /\ obj' = Nothing
    /\ change' = NoChange
    /\ changeRow' = 0
    /\ lost' = lost + changeRow
    /\ writes' = <<>>
    /\ torn' = torn + HalfMoved
    /\ UNCHANGED <<created, row, paidOut, notes, encs>>

-----------------------------------------------------------------------------
(* Properties *)

LedgerTypeOK ==
    /\ created \in 0..MaxPayments
    /\ active \in PaymentIds \cup {NoPayment}
    /\ obj \in Amounts
    /\ row \in [PaymentIds -> Amounts]
    /\ change \in Nat \cup {NoChange}
    /\ changeRow \in Nat
    /\ lost \in Nat
    /\ paidOut \in Nat
    /\ notes \in [PaymentIds -> [0..MaxEncashments -> Nat]]
    /\ encs \in Seq(Nat)
    /\ writes \in Seq(Saves)
    /\ torn \in Nat

\* The rows never promise more money than payment_note says was taken, across
\* any sequence of operations and stops without a payout; the one window in
\* which money is counted twice lies between the two saves of
\* movePaymentToChange.
Backed == MainIdle => Recorded <= AllNotes + torn

\* Every note is in exactly one encashment or still inside: the amounts of the
\* encashments and the balance add up to payment_note (perform_Encashment).
NotesCollectedOnce == AllEncashed + AllInside = AllNotes

\* A note that an encashment has taken is never moved to a later one.
CollectedStays ==
    [][\A p \in PaymentIds, e \in 1..MaxEncashments : notes'[p][e] >= notes[p][e]]_notes

=============================================================================

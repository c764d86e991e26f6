------------------------ MODULE ChangeLedger_proofs ------------------------
(***************************************************************************)
(* What the operations of ChangeLedger do to its types, to the notes and   *)
(* to the money, for the proofs about the components that use the ledger.  *)
(***************************************************************************)
EXTENDS ChangeLedger, SumLemmas

-----------------------------------------------------------------------------
(* Types *)

\* The kinds of saves are saves.
LEMMA SavesAre ==
    /\ \A p \in PaymentIds, n \in Nat : NoteSave(p, n) \in Saves
    /\ \A p \in PaymentIds, m \in Amounts : PaymentSave(p, m) \in Saves
    /\ \A n \in Nat : ChangeSave(n) \in Saves
BY DEF NoteSave, PaymentSave, ChangeSave, Saves

\* What a save holds follows from its table.
LEMMA SaveFields ==
    ASSUME NEW w \in Saves
    PROVE  /\ w.table \in {"payment_note", "payment", "change"}
           /\ w.table = "payment_note" => w.payment \in PaymentIds /\ w.amount \in Nat
           /\ w.table = "payment" => w.payment \in PaymentIds /\ w.money \in Amounts
           /\ w.table = "change" => w.amount \in Nat
BY DEF Saves

\* A payment never holds more than the maximum, and gives change only at it.
LEMMA SplitIs ==
    ASSUME NEW total \in Nat
    PROVE  /\ Split(total) \in Amounts
           /\ Split(total).all + Split(total).change = total
           /\ Split(total).all <= MaxAmountAll
           /\ Split(total).change # 0 => Split(total).all = MaxAmountAll
BY LedgerAssumption DEF Split, Amounts

\* The sums over payment_note are naturals.
LEMMA NoteSums ==
    ASSUME notes \in [PaymentIds -> [0..MaxEncashments -> Nat]]
    PROVE  /\ \A p \in PaymentIds : NotesOf(p) \in Nat /\ Inside(p) \in Nat
           /\ AllNotes \in Nat /\ AllInside \in Nat
           /\ \A p \in PaymentIds : NotesOf(p) <= AllNotes /\ Inside(p) <= AllInside
<1>1. IsFiniteSet(0..MaxEncashments) /\ IsFiniteSet(PaymentIds)
  BY LedgerAssumption, FS_Interval DEF PaymentIds
<1>2. \A p \in PaymentIds : NotesOf(p) \in Nat
  BY <1>1, SumFunctionNat DEF NotesOf
<1>3. \A p \in PaymentIds : Inside(p) \in Nat
  BY LedgerAssumption DEF Inside
<1> DEFINE f == [p \in PaymentIds |-> NotesOf(p)]
           g == [p \in PaymentIds |-> Inside(p)]
<1>4. f \in [PaymentIds -> Nat] /\ g \in [PaymentIds -> Nat]
  BY <1>2, <1>3
<1>5. \A p \in PaymentIds : f[p] = NotesOf(p) /\ g[p] = Inside(p)
  OBVIOUS
<1>6. AllNotes = SumFunction(f) /\ AllInside = SumFunction(g)
  BY DEF AllNotes, AllInside
<1> HIDE DEF f, g
<1>7. /\ SumFunction(f) \in Nat /\ \A p \in PaymentIds : f[p] <= SumFunction(f)
      /\ SumFunction(g) \in Nat /\ \A p \in PaymentIds : g[p] <= SumFunction(g)
  BY <1>1, <1>4, SumFunctionNat
<1>8. QED
  BY <1>2, <1>3, <1>5, <1>6, <1>7

\* What payment_note may hold, and a row added to it.
NoteTables == [PaymentIds -> [0..MaxEncashments -> Nat]]
OneMore(u, t, p, n) == u = [t EXCEPT ![p][0] = @ + n]

\* A row of payment_note that is saved adds to the notes of its payment that are
\* still inside, and to nothing else.
LEMMA NoteAdded ==
    ASSUME NEW t, t \in NoteTables, NEW p, p \in PaymentIds, NEW n, n \in Nat,
           NEW u, OneMore(u, t, p, n)
    PROVE  /\ u \in NoteTables
           /\ u[p][0] = t[p][0] + n
           /\ \A e \in 0..MaxEncashments : e # 0 => u[p][e] = t[p][e]
           /\ \A q \in PaymentIds : q # p => u[q] = t[q]
<1> USE DEF NoteTables, OneMore
<1> DEFINE line == [t[p] EXCEPT ![0] = @ + n]
<1>1. 0 \in 0..MaxEncashments /\ t[p] \in [0..MaxEncashments -> Nat]
  BY LedgerAssumption
<1>2. line \in [0..MaxEncashments -> Nat]
  <2>1. t[p][0] + n \in Nat
    BY <1>1
  <2>2. QED
    BY <1>1, <2>1
<1>3. /\ line[0] = t[p][0] + n
      /\ \A e \in 0..MaxEncashments : e # 0 => line[e] = t[p][e]
  BY <1>1
<1>4. u = [t EXCEPT ![p] = line]
  OBVIOUS
<1> HIDE DEF line
<1>5. QED
  BY <1>2, <1>3, <1>4

\* The saves of a note, with and without a save of the change after them.
LEMMA NoteThenChange ==
    ASSUME NEW a, NEW b, NEW c
    PROVE  <<a, b>> \o <<>> = <<a, b>> /\ <<a, b>> \o <<c>> = <<a, b, c>>
<1> DEFINE S == {a, b, c}
           s == <<a, b>>
           t == <<c>>
           u == <<a, b, c>>
<1>1. s \in Seq(S) /\ t \in Seq(S) /\ u \in Seq(S)
  OBVIOUS
<1>2. /\ Len(s) = 2 /\ s[1] = a /\ s[2] = b /\ Len(t) = 1 /\ t[1] = c
      /\ Len(u) = 3 /\ u[1] = a /\ u[2] = b /\ u[3] = c
  OBVIOUS
<1> HIDE DEF S, s, t, u
<1>3. /\ s \o t \in Seq(S) /\ Len(s \o t) = Len(s) + Len(t)
      /\ \A i \in 1 .. Len(s) + Len(t) :
           (s \o t)[i] = IF i <= Len(s) THEN s[i] ELSE t[i - Len(s)]
  BY <1>1, ConcatProperties
<1>4. \A i \in 1..3 : (s \o t)[i] = u[i]
  BY <1>2, <1>3
<1>5. s \o t = u
  BY <1>1, <1>2, <1>3, <1>4, SeqEqual
<1>6. s \o <<>> = s
  BY <1>1, ConcatEmptySeq
<1>7. QED
  BY <1>5, <1>6 DEF s, t, u

\* What is left of the saves after the first one.
LEMMA TailOf ==
    ASSUME NEW S, NEW s \in Seq(S), s # <<>>
    PROVE  \A i \in DOMAIN Tail(s) : i + 1 \in DOMAIN s /\ Tail(s)[i] = s[i + 1]
OBVIOUS

\* Every operation of the ledger keeps the types.
LEMMA LedgerInitType == LedgerInit => LedgerTypeOK
<1> SUFFICES ASSUME LedgerInit PROVE LedgerTypeOK
  OBVIOUS
<1>1. QED
  BY LedgerAssumption
  DEF LedgerInit, LedgerTypeOK, Nothing, Amounts, NoPayment, NoChange, PaymentIds

\* A save writes one row and takes itself off the list.
LEMMA SaveType == LedgerTypeOK /\ Save => LedgerTypeOK'
<1> SUFFICES ASSUME LedgerTypeOK, Save PROVE LedgerTypeOK'
  OBVIOUS
<1> DEFINE w == Head(writes)
<1>1. writes \in Seq(Saves) /\ writes # <<>>
  BY DEF LedgerTypeOK, Save, SaveNote, SavePayment, SaveChange, MainIdle
<1>2. w \in Saves /\ Tail(writes) \in Seq(Saves)
  BY <1>1
<1>3. CASE SaveNote
  <2>1. w.payment \in PaymentIds /\ w.amount \in Nat
    BY <1>2, <1>3, SaveFields DEF SaveNote
  <2>2. notes' = [notes EXCEPT ![w.payment][0] = @ + w.amount]
    BY <1>3 DEF SaveNote
  <2>3. notes' \in [PaymentIds -> [0..MaxEncashments -> Nat]]
    <3> HIDE DEF w
    <3>1. QED
      BY <2>1, <2>2, NoteAdded DEF LedgerTypeOK, NoteTables, OneMore
  <2>4. QED
    BY <1>2, <1>3, <2>3 DEF SaveNote, LedgerTypeOK
<1>4. CASE SavePayment
  <2>1. w.payment \in PaymentIds /\ w.money \in Amounts
    BY <1>2, <1>4, SaveFields DEF SavePayment
  <2>2. row' \in [PaymentIds -> Amounts]
    BY <1>4, <2>1 DEF SavePayment, LedgerTypeOK
  <2>3. QED
    BY <1>2, <1>4, <2>2 DEF SavePayment, LedgerTypeOK
<1>5. CASE SaveChange
  <2>1. w.amount \in Nat
    BY <1>2, <1>5, SaveFields DEF SaveChange
  <2>2. QED
    BY <1>2, <1>5, <2>1 DEF SaveChange, LedgerTypeOK
<1>6. QED
  BY <1>3, <1>4, <1>5 DEF Save

\* createPayment numbers the payment by the counter.
LEMMA CreatePaymentType == LedgerTypeOK /\ CreatePayment => LedgerTypeOK'
<1> SUFFICES ASSUME LedgerTypeOK, CreatePayment PROVE LedgerTypeOK'
  OBVIOUS
<1>1. created' \in 0..MaxPayments /\ active' \in PaymentIds /\ obj' \in Amounts
  BY LedgerAssumption
  DEF LedgerTypeOK, CreatePayment, PaymentIds, Nothing, Amounts
<1>2. QED
  BY <1>1 DEF LedgerTypeOK, CreatePayment

\* The money of a payment, taken from the object or from the row.
LEMMA MoneyType ==
    ASSUME LedgerTypeOK
    PROVE  /\ \A p \in PaymentIds : Money(p) \in Amounts
           /\ Leftover \in Nat /\ obj.all \in Nat /\ obj.change \in Nat
BY DEF LedgerTypeOK, Money, Leftover, Amounts, NoChange

\* A note leaves two or three saves to make.
LEMMA AmountUpdatedType ==
    ASSUME LedgerTypeOK, NEW p \in PaymentIds, NEW n \in Nat, AmountUpdated(p, n)
    PROVE  LedgerTypeOK'
<1> DEFINE was == Money(p)
           new == Split(was.all + was.change + n)
<1>1. was.all \in Nat /\ was.change \in Nat
  BY MoneyType DEF Amounts
<1>2. new \in Amounts
  BY <1>1, SplitIs
<1>3. new.change \in Nat
  BY <1>2 DEF Amounts
<1>4. /\ NoteSave(p, n) \in Saves /\ PaymentSave(p, new) \in Saves
      /\ ChangeSave(new.change) \in Saves
  BY <1>2, <1>3, SavesAre
<1>5. /\ obj' = IF p = active THEN new ELSE obj
      /\ change' = IF new.change = 0 THEN change ELSE new.change
      /\ writes' = <<NoteSave(p, n), PaymentSave(p, new)>>
                 \o (IF new.change = 0 THEN <<>> ELSE <<ChangeSave(new.change)>>)
  BY DEF AmountUpdated
<1> HIDE DEF new
<1>6. obj' \in Amounts /\ change' \in Nat \cup {NoChange} /\ writes' \in Seq(Saves)
  BY <1>2, <1>3, <1>4, <1>5 DEF LedgerTypeOK
<1>7. QED
  BY <1>6 DEF AmountUpdated, LedgerTypeOK

\* moveChangeToPayment leaves the change and the payment to save.
LEMMA MoveChangeToPaymentType ==
    LedgerTypeOK /\ MoveChangeToPayment => LedgerTypeOK'
<1> SUFFICES ASSUME LedgerTypeOK, MoveChangeToPayment PROVE LedgerTypeOK'
  OBVIOUS
<1> DEFINE new == Split(obj.all + Leftover)
<1>1. new \in Amounts
  BY MoneyType, SplitIs
<1>2. new.change \in Nat /\ active \in PaymentIds
  BY <1>1 DEF Amounts, MoveChangeToPayment, LedgerTypeOK
<1>3. PaymentSave(active, new) \in Saves /\ ChangeSave(new.change) \in Saves
  BY <1>1, <1>2, SavesAre
<1>4. /\ obj' = new /\ change' = new.change
      /\ writes' = <<ChangeSave(new.change), PaymentSave(active, new)>>
  BY DEF MoveChangeToPayment
<1> HIDE DEF new
<1>5. QED
  BY <1>1, <1>2, <1>3, <1>4 DEF MoveChangeToPayment, LedgerTypeOK

\* movePaymentToChange leaves the change and the emptied payment to save.
LEMMA MovePaymentToChangeType ==
    LedgerTypeOK /\ MovePaymentToChange => LedgerTypeOK'
<1> SUFFICES ASSUME LedgerTypeOK, MovePaymentToChange PROVE LedgerTypeOK'
  OBVIOUS
<1>1. Leftover + obj.all \in Nat /\ active \in PaymentIds /\ Nothing \in Amounts
  BY MoneyType DEF MovePaymentToChange, LedgerTypeOK, Nothing, Amounts
<1>2. PaymentSave(active, Nothing) \in Saves /\ ChangeSave(Leftover + obj.all) \in Saves
  BY <1>1, SavesAre
<1>3. QED
  BY <1>1, <1>2 DEF MovePaymentToChange, LedgerTypeOK

\* resetChange turns the change into lost change.
LEMMA ResetChangeType == LedgerTypeOK /\ ResetChange => LedgerTypeOK'
BY DEF LedgerTypeOK, ResetChange, NoChange

\* deactivatePayment leaves the payment to save.
LEMMA DeactivatePaymentType == LedgerTypeOK /\ DeactivatePayment => LedgerTypeOK'
<1> SUFFICES ASSUME LedgerTypeOK, DeactivatePayment PROVE LedgerTypeOK'
  OBVIOUS
<1>1. PaymentSave(active, obj) \in Saves /\ Nothing \in Amounts
  BY SavesAre DEF LedgerTypeOK, DeactivatePayment, Nothing, Amounts
<1>2. QED
  BY <1>1 DEF LedgerTypeOK, DeactivatePayment

\* onAmountDispensed never takes the change below nothing.
LEMMA AmountDispensedType ==
    ASSUME LedgerTypeOK, NEW n \in Nat, AmountDispensed(n)
    PROVE  LedgerTypeOK'
<1> DEFINE taken == IF n > Leftover THEN Leftover ELSE n
           known == n # 0 /\ change # NoChange
<1>1. taken \in Nat /\ paidOut + taken \in Nat
  BY MoneyType DEF LedgerTypeOK
<1>2. known => change - taken \in Nat
  BY <1>1 DEF LedgerTypeOK, Leftover
<1>3. known => ChangeSave(change - taken) \in Saves
  BY <1>2, SavesAre
<1>4. /\ change' = IF known THEN change - taken ELSE change
      /\ writes' = IF known THEN <<ChangeSave(change - taken)>> ELSE <<>>
      /\ paidOut' = paidOut + taken
  BY DEF AmountDispensed
<1> HIDE DEF taken, known
<1>5. change' \in Nat \cup {NoChange} /\ writes' \in Seq(Saves) /\ paidOut' \in Nat
  BY <1>1, <1>2, <1>3, <1>4 DEF LedgerTypeOK
<1>6. QED
  BY <1>5 DEF AmountDispensed, LedgerTypeOK

\* perform_Encashment appends one encashment and restamps the notes.
LEMMA EncashType == LedgerTypeOK /\ Encash => LedgerTypeOK'
<1> SUFFICES ASSUME LedgerTypeOK, Encash PROVE LedgerTypeOK'
  OBVIOUS
<1>1. AllInside \in Nat /\ \A p \in PaymentIds : NotesOf(p) \in Nat
  BY NoteSums DEF LedgerTypeOK
<1>2. encs' \in Seq(Nat)
  BY <1>1 DEF Encash, LedgerTypeOK
<1>3. notes' \in [PaymentIds -> [0..MaxEncashments -> Nat]]
  BY <1>1 DEF Encash, LedgerTypeOK
<1>4. QED
  BY <1>2, <1>3 DEF Encash, LedgerTypeOK

\* The window of movePaymentToChange holds a natural amount.
LEMMA HalfMovedIs ==
    ASSUME LedgerTypeOK
    PROVE  /\ HalfMoved \in Nat
           /\ MainIdle => HalfMoved = 0
           /\ ~MainIdle /\ Head(writes).table # "payment" => HalfMoved = 0
           /\ ~MainIdle /\ Head(writes).table = "payment" =>
                HalfMoved >= row[Head(writes).payment].all - Head(writes).money.all
<1>1. ASSUME ~MainIdle, Head(writes).table = "payment"
      PROVE  /\ HalfMoved \in Nat
             /\ HalfMoved >= row[Head(writes).payment].all - Head(writes).money.all
  <2> DEFINE w == Head(writes)
             d == row[w.payment].all - w.money.all
  <2>1. w \in Saves
    BY <1>1 DEF LedgerTypeOK, MainIdle
  <2>2. w.payment \in PaymentIds /\ w.money \in Amounts
    BY <1>1, <2>1, SaveFields
  <2>3. d \in Int
    BY <2>2 DEF LedgerTypeOK, Amounts
  <2>4. HalfMoved = Max({0, d})
    BY <1>1 DEF HalfMoved
  <2> HIDE DEF d
  <2>5. Max({0, d}) \in {0, d} /\ Max({0, d}) >= d /\ Max({0, d}) >= 0
    <3>1. PICK x \in {0, d} : \A y \in {0, d} : x >= y
      BY <2>3
    <3>2. QED
      BY <3>1 DEF Max
  <2>6. QED
    BY <2>3, <2>4, <2>5 DEF d
<1>2. ASSUME MainIdle \/ Head(writes).table # "payment"
      PROVE  HalfMoved = 0
  BY <1>2 DEF HalfMoved
<1>3. QED
  BY <1>1, <1>2

\* A stop drops the objects and keeps the rows.
LEMMA LedgerCrashType == LedgerTypeOK /\ LedgerCrash => LedgerTypeOK'
<1> SUFFICES ASSUME LedgerTypeOK, LedgerCrash PROVE LedgerTypeOK'
  OBVIOUS
<1>1. HalfMoved \in Nat
  BY HalfMovedIs
<1>2. QED
  BY <1>1 DEF LedgerCrash, LedgerTypeOK, Nothing, Amounts

\* A step that leaves the ledger alone keeps its types.
LEMMA LedgerStutterType == LedgerTypeOK /\ UNCHANGED ledger => LedgerTypeOK'
BY DEF LedgerTypeOK, ledger

-----------------------------------------------------------------------------
(* Notes *)

\* Two tables of notes that differ in the notes of one payment.
LEMMA NotesDiffer ==
    ASSUME NEW t \in [PaymentIds -> [0..MaxEncashments -> Nat]],
           NEW u \in [PaymentIds -> [0..MaxEncashments -> Nat]],
           NEW p \in PaymentIds, NEW n \in Nat,
           u[p][0] = t[p][0] + n,
           \A e \in 0..MaxEncashments : e # 0 => u[p][e] = t[p][e],
           \A q \in PaymentIds : q # p => u[q] = t[q]
    PROVE  /\ SumFunction(u[p]) = SumFunction(t[p]) + n
           /\ SumFunction([q \in PaymentIds |-> SumFunction(u[q])])
                = SumFunction([q \in PaymentIds |-> SumFunction(t[q])]) + n
           /\ SumFunction([q \in PaymentIds |-> u[q][0]])
                = SumFunction([q \in PaymentIds |-> t[q][0]]) + n
<1> DEFINE E == 0..MaxEncashments
           ft == [q \in PaymentIds |-> SumFunction(t[q])]
           fu == [q \in PaymentIds |-> SumFunction(u[q])]
           gt == [q \in PaymentIds |-> t[q][0]]
           gu == [q \in PaymentIds |-> u[q][0]]
<1>1. IsFiniteSet(E) /\ IsFiniteSet(PaymentIds) /\ 0 \in E
  BY LedgerAssumption, FS_Interval DEF PaymentIds
<1>2. /\ \A q \in PaymentIds : t[q] \in [E -> Nat] /\ u[q] \in [E -> Nat]
      /\ AgreeExcept(u[p], t[p], E, 0)
  BY DEF AgreeExcept
<1> HIDE DEF E
<1>3. \A q \in PaymentIds : Terms(t[q], E) /\ Terms(u[q], E)
  BY <1>1, <1>2 DEF Terms
<1>4. SumFunction(u[p]) = SumFunction(t[p]) + n
  <2>1. /\ SumFunction(u[p]) = SumFunction(t[p]) - t[p][0] + u[p][0]
        /\ SumFunction(t[p]) \in Nat
    BY <1>1, <1>2, <1>3, SumFunctionUpdate
  <2>2. t[p][0] \in Nat
    BY <1>1, <1>2
  <2>3. QED
    BY <2>1, <2>2
<1>5. ft \in [PaymentIds -> Nat] /\ fu \in [PaymentIds -> Nat]
  BY <1>1, <1>2, SumFunctionNat
<1>6. gt \in [PaymentIds -> Nat] /\ gu \in [PaymentIds -> Nat]
  BY <1>1, <1>2
<1>7. /\ fu[p] = ft[p] + n /\ gu[p] = gt[p] + n
      /\ \A q \in PaymentIds : q # p => fu[q] = ft[q] /\ gu[q] = gt[q]
  BY <1>4
<1> HIDE DEF ft, fu, gt, gu
<1>8. /\ Terms(ft, PaymentIds) /\ Terms(fu, PaymentIds)
      /\ Terms(gt, PaymentIds) /\ Terms(gu, PaymentIds)
      /\ AgreeExcept(fu, ft, PaymentIds, p) /\ AgreeExcept(gu, gt, PaymentIds, p)
  BY <1>1, <1>5, <1>6, <1>7 DEF Terms, AgreeExcept
<1>9. /\ SumFunction(fu) = SumFunction(ft) - ft[p] + fu[p] /\ SumFunction(ft) \in Nat
      /\ SumFunction(gu) = SumFunction(gt) - gt[p] + gu[p] /\ SumFunction(gt) \in Nat
  BY <1>8, SumFunctionUpdate
<1>10. ft[p] \in Nat /\ gt[p] \in Nat
  BY <1>5, <1>6
<1>11. SumFunction(fu) = SumFunction(ft) + n /\ SumFunction(gu) = SumFunction(gt) + n
  BY <1>7, <1>9, <1>10
<1>12. QED
  BY <1>4, <1>11 DEF ft, fu, gt, gu

\* Sums of payment_note before and after a note of the payment p is saved.
LEMMA SaveNoteSums ==
    ASSUME LedgerTypeOK, SaveNote,
           NEW p, p = Head(writes).payment, NEW n, n = Head(writes).amount
    PROVE  /\ p \in PaymentIds /\ n \in Nat
           /\ NotesOf(p)' = NotesOf(p) + n
           /\ \A q \in PaymentIds : q # p => NotesOf(q)' = NotesOf(q) /\ Inside(q)' = Inside(q)
           /\ AllNotes' = AllNotes + n
           /\ AllInside' = AllInside + n
           /\ AllEncashed' = AllEncashed
           /\ \A q \in PaymentIds, e \in 1..MaxEncashments : notes'[q][e] = notes[q][e]
<1>1. p \in PaymentIds /\ n \in Nat
  <2>1. Head(writes) \in Saves /\ Head(writes).table = "payment_note"
    BY DEF LedgerTypeOK, SaveNote, MainIdle
  <2>2. QED
    BY <2>1, SaveFields
<1>2. OneMore(notes', notes, p, n)
  BY DEF SaveNote, OneMore
<1>3. notes \in NoteTables
  BY DEF LedgerTypeOK, NoteTables
<1>4. AllEncashed' = AllEncashed
  BY DEF SaveNote, AllEncashed
<1>5. /\ notes' \in NoteTables
      /\ notes'[p][0] = notes[p][0] + n
      /\ \A e \in 0..MaxEncashments : e # 0 => notes'[p][e] = notes[p][e]
      /\ \A q \in PaymentIds : q # p => notes'[q] = notes[q]
  BY <1>1, <1>2, <1>3, NoteAdded
<1>6. /\ SumFunction(notes'[p]) = SumFunction(notes[p]) + n
      /\ SumFunction([q \in PaymentIds |-> SumFunction(notes'[q])])
           = SumFunction([q \in PaymentIds |-> SumFunction(notes[q])]) + n
      /\ SumFunction([q \in PaymentIds |-> notes'[q][0]])
           = SumFunction([q \in PaymentIds |-> notes[q][0]]) + n
  BY <1>1, <1>3, <1>5, NotesDiffer DEF NoteTables
<1>7. \A q \in PaymentIds, e \in 1..MaxEncashments : notes'[q][e] = notes[q][e]
  <2> TAKE q \in PaymentIds, e \in 1..MaxEncashments
  <2>1. e \in 0..MaxEncashments /\ e # 0
    BY LedgerAssumption
  <2>2. QED
    BY <1>5, <2>1
<1>8. \A q \in PaymentIds : q # p => NotesOf(q)' = NotesOf(q) /\ Inside(q)' = Inside(q)
  BY <1>5 DEF NotesOf, Inside
<1>9. NotesOf(p)' = NotesOf(p) + n
  BY <1>6 DEF NotesOf
<1>10. AllNotes' = AllNotes + n /\ AllInside' = AllInside + n
  BY <1>6 DEF AllNotes, AllInside, NotesOf, Inside
<1>11. QED
  BY <1>1, <1>4, <1>7, <1>8, <1>9, <1>10

\* A set of naturals that is not empty has a smallest element.
LEMMA MinIs ==
    ASSUME NEW S \in SUBSET Nat, S # {}
    PROVE  Min(S) \in S /\ \A x \in S : Min(S) <= x
<1>1. PICK m \in S : \A y \in S : ~ (<<y, m>> \in OpToRel(<, Nat))
  BY NatLessThanWellFounded, WFMin
<1>2. \A y \in S : m <= y
  <2>1. ASSUME NEW y \in S
        PROVE  m <= y
    <3>1. ~ (y < m)
      BY <1>1 DEF OpToRel
    <3>2. y \in Nat /\ m \in Nat
      OBVIOUS
    <3>3. QED
      BY <3>1, <3>2
  <2>2. QED
    BY <2>1
<1>3. QED
  BY <1>2 DEF Min

\* The first payment of an encashment holds a note inside, and no earlier one does.
LEMMA FirstPaymentIs ==
    ASSUME LedgerTypeOK, AllInside # 0
    PROVE  /\ FirstPayment \in PaymentIds /\ Inside(FirstPayment) # 0
           /\ \A p \in PaymentIds : p < FirstPayment => Inside(p) = 0
<1> DEFINE g == [p \in PaymentIds |-> Inside(p)]
           S == {p \in PaymentIds : Inside(p) # 0}
<1>1. IsFiniteSet(PaymentIds) /\ PaymentIds \subseteq Nat
  BY LedgerAssumption, FS_Interval DEF PaymentIds
<1>2. g \in [PaymentIds -> Nat] /\ SumFunction(g) # 0
  BY NoteSums DEF LedgerTypeOK, AllInside
<1>3. S # {}
  <2>1. \A p \in PaymentIds : g[p] = Inside(p)
    OBVIOUS
  <2> HIDE DEF g
  <2>2. \E p \in PaymentIds : g[p] # 0
    BY <1>1, <1>2, SumFunctionZero
  <2>3. QED
    BY <2>1, <2>2
<1>4. Min(S) \in S /\ \A x \in S : Min(S) <= x
  <2> S \in SUBSET Nat
    BY <1>1
  <2> HIDE DEF S
  <2>1. QED
    BY <1>3, MinIs
<1>5. FirstPayment = Min(S)
  BY DEF FirstPayment
<1> HIDE DEF S
<1>6. ASSUME NEW p \in PaymentIds, p < FirstPayment
      PROVE  p \notin S
  <2>1. FirstPayment \in Nat /\ p \in Nat
    BY <1>1, <1>4, <1>5 DEF S
  <2>2. p \in S => FirstPayment <= p
    BY <1>4, <1>5
  <2>3. QED
    BY <1>6, <2>1, <2>2
<1>7. QED
  BY <1>4, <1>5, <1>6 DEF S

\* An encashment takes every note that is inside and changes no payment's sum.
LEMMA EncashSums ==
    ASSUME LedgerTypeOK, Encash
    PROVE  /\ \A p \in PaymentIds : NotesOf(p)' = NotesOf(p) /\ Inside(p)' = 0
           /\ AllNotes' = AllNotes
           /\ AllInside' = 0
           /\ AllEncashed' = AllEncashed + AllInside
           /\ \A p \in PaymentIds :
                p < FirstPayment => notes'[p] = notes[p]
           /\ \A p \in PaymentIds, e \in 1..MaxEncashments :
                p >= FirstPayment =>
                    notes'[p][e] = IF e = Len(encs) + 1 THEN NotesOf(p) ELSE 0
<1> DEFINE E == 0..MaxEncashments
           e1 == Len(encs) + 1
           stamped(p) == [k \in E |-> IF k = e1 THEN NotesOf(p) ELSE 0]
<1>1. /\ AllInside # 0 /\ AllInside \in Nat
      /\ \A p \in PaymentIds : NotesOf(p) \in Nat /\ Inside(p) \in Nat
  BY NoteSums DEF Encash, LedgerTypeOK
<1>2. e1 \in E /\ e1 # 0 /\ IsFiniteSet(E) /\ IsFiniteSet(PaymentIds) /\ 0 \in E
  <2>1. Len(encs) \in Nat /\ Len(encs) < MaxEncashments
    BY DEF LedgerTypeOK, Encash
  <2>2. IsFiniteSet(E) /\ IsFiniteSet(PaymentIds)
    BY LedgerAssumption, FS_Interval DEF PaymentIds
  <2>3. e1 \in E /\ e1 # 0 /\ 0 \in E
    BY <2>1, LedgerAssumption
  <2>4. QED
    BY <2>2, <2>3
<1>3. notes' = [p \in PaymentIds |-> IF p >= FirstPayment THEN stamped(p) ELSE notes[p]]
  BY DEF Encash
<1>4. FirstPayment \in PaymentIds /\ \A p \in PaymentIds : p < FirstPayment => Inside(p) = 0
  BY <1>1, FirstPaymentIs
<1>5. \A p \in PaymentIds : p >= FirstPayment \/ p < FirstPayment
  BY <1>4 DEF PaymentIds
<1>6. ASSUME NEW p \in PaymentIds, p >= FirstPayment
      PROVE  /\ SumFunction(notes'[p]) = NotesOf(p) /\ notes'[p][0] = 0
             /\ \A e \in E : notes'[p][e] = IF e = e1 THEN NotesOf(p) ELSE 0
  <2>1. notes'[p] = stamped(p)
    BY <1>3, <1>6
  <2>2. /\ stamped(p) \in [E -> Nat] /\ stamped(p)[e1] = NotesOf(p)
        /\ \A k \in E : k # e1 => stamped(p)[k] = 0
    BY <1>1, <1>2
  <2> HIDE DEF stamped, E, e1
  <2>3. SumFunction(stamped(p)) = stamped(p)[e1]
    BY <1>2, <2>2, SumFunctionOne
  <2>4. QED
    BY <1>2, <2>1, <2>2, <2>3
<1>7. ASSUME NEW p \in PaymentIds, p < FirstPayment
      PROVE  notes'[p] = notes[p] /\ notes'[p][0] = 0
  <2>1. ~(p >= FirstPayment)
    BY <1>4, <1>7 DEF PaymentIds
  <2>2. notes'[p] = notes[p]
    BY <1>3, <2>1
  <2>3. notes[p][0] = 0
    BY <1>4, <1>7 DEF Inside
  <2>4. QED
    BY <2>2, <2>3
<1>8. \A p \in PaymentIds : NotesOf(p)' = NotesOf(p) /\ Inside(p)' = 0
  BY <1>5, <1>6, <1>7 DEF NotesOf, Inside
<1>9. AllNotes' = AllNotes
  <2>1. [p \in PaymentIds |-> NotesOf(p)]' = [p \in PaymentIds |-> NotesOf(p)]
    BY <1>8
  <2>2. QED
    BY <2>1 DEF AllNotes
<1>10. AllInside' = 0
  <2> DEFINE g == [p \in PaymentIds |-> 0]
  <2>1. [p \in PaymentIds |-> Inside(p)]' = g
    BY <1>8
  <2>2. g \in [PaymentIds -> Nat] /\ \A p \in PaymentIds : g[p] = 0
    OBVIOUS
  <2> HIDE DEF g
  <2>3. SumFunction(g) = 0
    BY <1>2, <2>2, SumFunctionZero
  <2>4. QED
    BY <2>1, <2>3 DEF AllInside
<1>11. AllEncashed' = AllEncashed + AllInside
  <2>1. encs' = Append(encs, AllInside) /\ encs \in Seq(Nat)
    BY DEF Encash, LedgerTypeOK
  <2>2. QED
    BY <1>1, <2>1, SumFunctionAppend DEF AllEncashed
<1>12. 1..MaxEncashments \subseteq E
  BY LedgerAssumption
<1>13. QED
  BY <1>6, <1>7, <1>8, <1>9, <1>10, <1>11, <1>12

-----------------------------------------------------------------------------
(* Every note in one place *)

\* The empty table of the first start.
LEMMA LedgerInitSums ==
    ASSUME LedgerInit
    PROVE  NotesCollectedOnce /\ AllNotes = 0
<1>1. IsFiniteSet(0..MaxEncashments) /\ IsFiniteSet(PaymentIds)
  BY LedgerAssumption, FS_Interval DEF PaymentIds
<1> DEFINE f == [p \in PaymentIds |-> NotesOf(p)]
           g == [p \in PaymentIds |-> Inside(p)]
<1>2. \A p \in PaymentIds : Inside(p) = 0 /\ NotesOf(p) = 0
  <2> TAKE p \in PaymentIds
  <2>1. /\ notes[p] \in [0..MaxEncashments -> Nat] /\ 0 \in 0..MaxEncashments
        /\ \A e \in 0..MaxEncashments : notes[p][e] = 0
    BY LedgerAssumption DEF LedgerInit
  <2>2. SumFunction(notes[p]) = 0
    BY <1>1, <2>1, SumFunctionZero
  <2>3. QED
    BY <2>1, <2>2 DEF NotesOf, Inside
<1>3. /\ f \in [PaymentIds -> Nat] /\ g \in [PaymentIds -> Nat]
      /\ \A p \in PaymentIds : f[p] = 0 /\ g[p] = 0
  BY <1>2
<1>4. AllNotes = SumFunction(f) /\ AllInside = SumFunction(g)
  BY DEF AllNotes, AllInside
<1> HIDE DEF f, g
<1>5. AllNotes = 0 /\ AllInside = 0
  BY <1>1, <1>3, <1>4, SumFunctionZero
<1>6. AllEncashed = 0
  <2> DEFINE none == <<>>
  <2>1. DOMAIN none = {}
    OBVIOUS
  <2> HIDE DEF none
  <2>2. SumFunctionOnSet(none, {}) = 0
    BY FS_EmptySet, SumZero
  <2>3. encs = none
    BY DEF LedgerInit, none
  <2>4. QED
    BY <2>1, <2>2, <2>3 DEF AllEncashed, SumFunction
<1>7. QED
  BY <1>5, <1>6 DEF NotesCollectedOnce

\* The sum of the encashments is a natural.
LEMMA SumEncashed ==
    ASSUME LedgerTypeOK
    PROVE  AllEncashed \in Nat
<1>1. encs \in [1..Len(encs) -> Nat] /\ Len(encs) \in Nat
  BY DEF LedgerTypeOK
<1>2. IsFiniteSet(1..Len(encs))
  BY <1>1, FS_Interval
<1>3. QED
  BY <1>1, <1>2, SumFunctionNat DEF AllEncashed

\* A saved note is inside, and an encashment takes all there is inside.
LEMMA SaveNoteCollected ==
    ASSUME LedgerTypeOK, NotesCollectedOnce, SaveNote
    PROVE  NotesCollectedOnce'
<1>1. PICK p, n : p = Head(writes).payment /\ n = Head(writes).amount
  OBVIOUS
<1>2. /\ n \in Nat /\ AllNotes' = AllNotes + n
      /\ AllInside' = AllInside + n /\ AllEncashed' = AllEncashed
  BY <1>1, SaveNoteSums
<1>3. AllNotes \in Nat /\ AllInside \in Nat
  BY NoteSums DEF LedgerTypeOK
<1>4. AllEncashed \in Nat
  BY SumEncashed
<1>5. QED
  BY <1>2, <1>3, <1>4 DEF NotesCollectedOnce

\* An encashment counts what was inside exactly once.
LEMMA EncashCollected ==
    ASSUME LedgerTypeOK, NotesCollectedOnce, Encash
    PROVE  NotesCollectedOnce'
<1>1. /\ AllNotes' = AllNotes /\ AllInside' = 0
      /\ AllEncashed' = AllEncashed + AllInside
  BY EncashSums
<1>2. AllNotes \in Nat /\ AllInside \in Nat
  BY NoteSums DEF LedgerTypeOK
<1>3. AllEncashed \in Nat
  BY SumEncashed
<1>4. QED
  BY <1>1, <1>2, <1>3 DEF NotesCollectedOnce

\* Where the notes and the encashments stay, so do the sums.
LEMMA CollectedSame ==
    ASSUME NotesCollectedOnce, UNCHANGED <<notes, encs>>
    PROVE  NotesCollectedOnce'
<1>1. AllNotes' = AllNotes /\ AllInside' = AllInside /\ AllEncashed' = AllEncashed
  BY DEF AllNotes, AllInside, AllEncashed, NotesOf, Inside
<1>2. QED
  BY <1>1 DEF NotesCollectedOnce

-----------------------------------------------------------------------------
(* The order of the payments: what has been collected comes first *)

\* Payments with notes an encashment has taken.
Collected(p) == \E e \in 1..MaxEncashments : notes[p][e] # 0

\* Every payment with collected notes is older than every payment with notes
\* inside, than the active payment and than the one whose note is being saved.
CollectedFirst ==
    /\ active <= created
    /\ \A p \in PaymentIds, e \in 0..MaxEncashments : notes[p][e] # 0 => p <= created
    /\ \A p, q \in PaymentIds : Collected(p) /\ Inside(q) # 0 => p < q
    /\ active # NoPayment => \A p \in PaymentIds : Collected(p) => p < active
    /\ \A i \in DOMAIN writes :
         writes[i].table = "payment_note" =>
            /\ writes[i].payment <= created
            /\ \A p \in PaymentIds : Collected(p) => p < writes[i].payment

\* At the first start nothing is collected.
LEMMA CollectedFirstInit ==
    ASSUME LedgerInit
    PROVE  CollectedFirst
<1>1. \A p \in PaymentIds, e \in 0..MaxEncashments : notes[p][e] = 0
  BY DEF LedgerInit
<1>2. \A p \in PaymentIds : ~Collected(p)
  <2>1. 1..MaxEncashments \subseteq 0..MaxEncashments
    BY LedgerAssumption
  <2>2. QED
    BY <1>1, <2>1 DEF Collected
<1>3. active <= created /\ active = NoPayment /\ writes = <<>>
  BY DEF LedgerInit, NoPayment
<1>4. QED
  BY <1>1, <1>2, <1>3 DEF CollectedFirst

\* A note whose payment is newer than all that is collected may be saved.
LEMMA CollectedFirstSaveNote ==
    ASSUME LedgerTypeOK, CollectedFirst, SaveNote
    PROVE  CollectedFirst'
<1>1. PICK p, n : p = Head(writes).payment /\ n = Head(writes).amount
  OBVIOUS
<1>2. /\ p \in PaymentIds
      /\ \A q \in PaymentIds : q # p => Inside(q)' = Inside(q)
      /\ \A q \in PaymentIds, e \in 1..MaxEncashments : notes'[q][e] = notes[q][e]
  BY <1>1, SaveNoteSums
<1>3. \A q \in PaymentIds : Collected(q)' <=> Collected(q)
  BY <1>2 DEF Collected
<1>4. writes \in Seq(Saves) /\ writes # <<>> /\ writes' = Tail(writes)
  BY DEF LedgerTypeOK, SaveNote, MainIdle
<1>5. 1 \in DOMAIN writes /\ Head(writes) = writes[1] /\ writes[1].table = "payment_note"
  BY <1>4 DEF SaveNote
<1>6. p <= created /\ \A q \in PaymentIds : Collected(q) => q < p
  BY <1>1, <1>5 DEF CollectedFirst
<1>7. UNCHANGED <<active, created>>
  BY DEF SaveNote
<1>8. \A q \in PaymentIds, e \in 0..MaxEncashments : notes'[q][e] # 0 => q <= created
  <2> TAKE q \in PaymentIds, e \in 0..MaxEncashments
  <2>1. CASE q = p
    BY <1>6, <2>1
  <2>2. CASE q # p
    <3>1. e = 0 => notes'[q][e] = notes[q][e]
      BY <1>2, <2>2 DEF Inside
    <3>2. e # 0 => notes'[q][e] = notes[q][e]
      BY <1>2
    <3>3. QED
      BY <3>1, <3>2 DEF CollectedFirst
  <2>3. QED
    BY <2>1, <2>2
<1>9. \A x, q \in PaymentIds : Collected(x) /\ Inside(q)' # 0 => x < q
  BY <1>2, <1>6 DEF CollectedFirst
<1>10. \A i \in DOMAIN writes' :
          writes'[i].table = "payment_note" =>
            /\ writes'[i].payment <= created
            /\ \A q \in PaymentIds : Collected(q) => q < writes'[i].payment
  BY <1>4, TailOf DEF CollectedFirst
<1>11. QED
  BY <1>3, <1>7, <1>8, <1>9, <1>10 DEF CollectedFirst

\* The saves of payments and of the change do not touch the notes.
LEMMA CollectedFirstSaveOther ==
    ASSUME LedgerTypeOK, CollectedFirst, SavePayment \/ SaveChange
    PROVE  CollectedFirst'
<1>1. writes \in Seq(Saves) /\ writes # <<>> /\ writes' = Tail(writes)
  BY DEF LedgerTypeOK, SavePayment, SaveChange, MainIdle
<1>2. UNCHANGED <<active, created, notes>>
  BY DEF SavePayment, SaveChange
<1>3. \A q \in PaymentIds : (Collected(q)' <=> Collected(q)) /\ Inside(q)' = Inside(q)
  BY <1>2 DEF Collected, Inside
<1>4. \A i \in DOMAIN writes' :
          writes'[i].table = "payment_note" =>
            /\ writes'[i].payment <= created
            /\ \A q \in PaymentIds : Collected(q) => q < writes'[i].payment
  BY <1>1, TailOf DEF CollectedFirst
<1>5. QED
  BY <1>2, <1>3, <1>4 DEF CollectedFirst

\* An operation that leaves the notes and saves none.
LEMMA CollectedFirstQuiet ==
    ASSUME CollectedFirst, UNCHANGED <<notes, created>>, active' = active \/ active' = NoPayment,
           \A i \in DOMAIN writes' : writes'[i].table # "payment_note",
           created \in Nat
    PROVE  CollectedFirst'
<1>1. \A q \in PaymentIds : (Collected(q)' <=> Collected(q)) /\ Inside(q)' = Inside(q)
  BY DEF Collected, Inside
<1>2. active' <= created'
  BY DEF CollectedFirst, NoPayment
<1>3. active' # NoPayment => \A p \in PaymentIds : Collected(p) => p < active'
  BY DEF CollectedFirst
<1>4. QED
  BY <1>1, <1>2, <1>3 DEF CollectedFirst

\* A step that leaves payments, notes and saves alone keeps the order.
LEMMA CollectedFirstSame ==
    ASSUME CollectedFirst, UNCHANGED ledger
    PROVE  CollectedFirst'
<1>1. \A q \in PaymentIds : (Collected(q)' <=> Collected(q)) /\ Inside(q)' = Inside(q)
  BY DEF Collected, Inside, ledger
<1>2. QED
  BY <1>1 DEF CollectedFirst, ledger

\* A new payment is newer than every payment there is.
LEMMA CollectedFirstCreate ==
    ASSUME LedgerTypeOK, CollectedFirst, CreatePayment
    PROVE  CollectedFirst'
<1>1. /\ UNCHANGED <<notes, writes>> /\ writes = <<>>
      /\ created' = created + 1 /\ active' = created + 1 /\ created \in Nat
  BY DEF CreatePayment, MainIdle, LedgerTypeOK
<1>2. \A q \in PaymentIds : (Collected(q)' <=> Collected(q)) /\ Inside(q)' = Inside(q)
  BY <1>1 DEF Collected, Inside
<1>3. \A q \in PaymentIds : Collected(q) => q < created + 1
  <2> SUFFICES ASSUME NEW q \in PaymentIds, Collected(q) PROVE q < created + 1
    OBVIOUS
  <2>1. 1..MaxEncashments \subseteq 0..MaxEncashments
    BY LedgerAssumption
  <2>2. q <= created
    BY <2>1 DEF CollectedFirst, Collected
  <2>3. QED
    BY <1>1, <2>2 DEF PaymentIds
<1>4. \A q \in PaymentIds, e \in 0..MaxEncashments : notes'[q][e] # 0 => q <= created'
  <2> SUFFICES ASSUME NEW q \in PaymentIds, NEW e \in 0..MaxEncashments, notes[q][e] # 0
               PROVE  q <= created + 1
    BY <1>1
  <2>1. q <= created
    BY DEF CollectedFirst
  <2>2. QED
    BY <1>1, <2>1 DEF PaymentIds
<1>5. QED
  BY <1>1, <1>2, <1>3, <1>4 DEF CollectedFirst

\* A note for the active payment, which is newer than all that is collected.
LEMMA CollectedFirstAmount ==
    ASSUME LedgerTypeOK, CollectedFirst, active # NoPayment, NEW n \in Nat,
           AmountUpdated(active, n)
    PROVE  CollectedFirst'
<1>1. UNCHANGED <<notes, created, active>>
  BY DEF AmountUpdated
<1>2. \A q \in PaymentIds : (Collected(q)' <=> Collected(q)) /\ Inside(q)' = Inside(q)
  BY <1>1 DEF Collected, Inside
<1>3. \A i \in DOMAIN writes' :
          writes'[i].table = "payment_note" => writes'[i].payment = active
  <2>1. PICK m, c : writes' = <<NoteSave(active, n), PaymentSave(active, m)>>
                                \o (IF m.change = 0 THEN <<>> ELSE <<ChangeSave(c)>>)
    BY DEF AmountUpdated
  <2>2. CASE m.change = 0
    <3>1. writes' = <<NoteSave(active, n), PaymentSave(active, m)>>
      BY <2>1, <2>2, NoteThenChange
    <3>2. QED
      BY <3>1 DEF NoteSave, PaymentSave
  <2>3. CASE m.change # 0
    <3>1. writes' = <<NoteSave(active, n), PaymentSave(active, m), ChangeSave(c)>>
      BY <2>1, <2>3, NoteThenChange
    <3>2. QED
      BY <3>1 DEF NoteSave, PaymentSave, ChangeSave
  <2>4. QED
    BY <2>2, <2>3
<1>4. QED
  BY <1>1, <1>2, <1>3 DEF CollectedFirst

\* The order lets no encashment take a note twice.
LEMMA EncashOrdered ==
    ASSUME LedgerTypeOK, CollectedFirst, active = NoPayment, Encash
    PROVE  /\ CollectedFirst'
           /\ \A p \in PaymentIds, e \in 1..MaxEncashments : notes'[p][e] >= notes[p][e]
<1> DEFINE e1 == Len(encs) + 1
<1>1. /\ \A p \in PaymentIds : NotesOf(p)' = NotesOf(p) /\ Inside(p)' = 0
      /\ \A p \in PaymentIds : p < FirstPayment => notes'[p] = notes[p]
      /\ \A p \in PaymentIds, e \in 1..MaxEncashments :
           p >= FirstPayment => notes'[p][e] = IF e = e1 THEN NotesOf(p) ELSE 0
  BY EncashSums
<1>2. FirstPayment \in PaymentIds /\ Inside(FirstPayment) # 0
  BY FirstPaymentIs DEF Encash
<1>3. /\ UNCHANGED <<created, active, writes>> /\ writes = <<>>
      /\ IsFiniteSet(0..MaxEncashments)
      /\ notes \in [PaymentIds -> [0..MaxEncashments -> Nat]]
      /\ \A e \in 1..MaxEncashments : e \in 0..MaxEncashments
  <2>1. UNCHANGED <<created, active, writes>> /\ writes = <<>>
    BY DEF Encash, MainIdle
  <2>2. IsFiniteSet(0..MaxEncashments)
    BY LedgerAssumption, FS_Interval
  <2>3. QED
    BY <2>1, <2>2, LedgerAssumption DEF LedgerTypeOK
<1>4. \A p \in PaymentIds : p >= FirstPayment \/ p < FirstPayment
  BY <1>2 DEF PaymentIds
<1>5. \A p \in PaymentIds, e \in 0..MaxEncashments : notes'[p][e] # 0 => p <= created
  <2> SUFFICES ASSUME NEW p \in PaymentIds, NEW e \in 0..MaxEncashments, notes'[p][e] # 0
               PROVE  p <= created
    OBVIOUS
  <2>1. CASE p < FirstPayment
    BY <1>1, <2>1 DEF CollectedFirst
  <2>2. CASE p >= FirstPayment
    <3>1. e # 0
      BY <1>1 DEF Inside
    <3>2. e \in 1..MaxEncashments
      BY <3>1, LedgerAssumption
    <3>3. NotesOf(p) # 0
      BY <1>1, <2>2, <3>2
    <3>4. \E k \in 0..MaxEncashments : notes[p][k] # 0
      <4>1. notes[p] \in [0..MaxEncashments -> Nat]
        BY <1>3
      <4>2. QED
        BY <1>3, <3>3, <4>1, SumFunctionZero DEF NotesOf
    <3>5. QED
      BY <3>4 DEF CollectedFirst
  <2>3. QED
    BY <1>4, <2>1, <2>2
<1>6. \A p \in PaymentIds, e \in 1..MaxEncashments : notes'[p][e] >= notes[p][e]
  <2> TAKE p \in PaymentIds, e \in 1..MaxEncashments
  <2>1. notes[p][e] \in Nat /\ notes[p] \in [0..MaxEncashments -> Nat]
    BY <1>3
  <2>2. CASE p < FirstPayment
    BY <1>1, <2>1, <2>2
  <2>3. CASE p >= FirstPayment /\ e = e1
    <3>1. notes[p][e] <= NotesOf(p) /\ NotesOf(p) \in Nat
      BY <1>3, <2>1, SumFunctionNat DEF NotesOf
    <3>2. QED
      BY <1>1, <2>1, <2>3, <3>1
  <2>4. CASE p >= FirstPayment /\ e # e1
    <3>1. ~(p < FirstPayment)
      BY <1>2, <2>4 DEF PaymentIds
    <3>2. notes[p][e] = 0
      BY <1>2, <3>1 DEF CollectedFirst, Collected
    <3>3. QED
      BY <1>1, <2>4, <3>2
  <2>5. QED
    BY <1>4, <2>2, <2>3, <2>4
<1>7. CollectedFirst'
  BY <1>1, <1>3, <1>5 DEF CollectedFirst
<1>8. QED
  BY <1>6, <1>7

-----------------------------------------------------------------------------
(* Money: what the rows hold, and what they will hold after the saves *)

\* The rows of the payments, and with the change c all that is recorded.
RowSum(r)  == SumFunction([p \in PaymentIds |-> r[p].all])
Held(r, c) == RowSum(r) + c + lost + paidOut

\* Once the rows are r, the row of the change is c and notes for n more are
\* saved, the objects agree with the rows, and g is what the customers have put
\* in beyond what is recorded.
Settled(r, c, n, g) ==
    /\ Held(r, c) + g = AllNotes + torn + n
    /\ active # NoPayment => obj = r[active]
    /\ c = Leftover

\* What is recorded is covered by the notes.
Covered(r, c, n) == Held(r, c) <= AllNotes + torn + n

\* The saves w that are left of a note for n or of a payment.
PaymentThenChange(w, n, g) ==
    \E p \in 1..created, m \in Amounts :
        LET r == [row EXCEPT ![p] = m] IN
        \/ w = <<PaymentSave(p, m)>> /\ Settled(r, changeRow, n, g)
        \/ \E c \in Nat :
             /\ w = <<PaymentSave(p, m), ChangeSave(c)>>
             /\ Covered(r, changeRow, n)
             /\ Settled(r, c, n, g)

\* The saves of a note, of a payment with its change, or of the change first.
SavesFit(g) ==
    \/ MainIdle /\ Settled(row, changeRow, 0, g)
    \/ \E p \in PaymentIds, n \in Nat :
         /\ writes # <<>> /\ Head(writes) = NoteSave(p, n)
         /\ Covered(row, changeRow, 0)
         /\ PaymentThenChange(Tail(writes), n, g)
    \/ PaymentThenChange(writes, 0, g)
    \/ \E c \in Nat :
         /\ writes = <<ChangeSave(c)>>
         /\ Covered(row, changeRow, 0)
         /\ Settled(row, c, 0, g)
    \/ \E c \in Nat, p \in 1..created, m \in Amounts :
         /\ writes = <<ChangeSave(c), PaymentSave(p, m)>>
         /\ Covered(row, changeRow, 0)
         /\ Settled([row EXCEPT ![p] = m], c, 0, g)

\* The ledger holds the notes but for g, now or when the saves are made.
LedgerHolds(g) ==
    /\ active <= created
    /\ \A p \in PaymentIds : p > created => row[p] = Nothing
    /\ obj.all <= MaxAmountAll
    /\ obj.change # 0 => obj.all = MaxAmountAll
    /\ SavesFit(g)

\* The sum of the rows is a natural, and follows the one row that changes.
LEMMA RowSumIs ==
    ASSUME NEW r \in [PaymentIds -> Amounts]
    PROVE  RowSum(r) \in Nat
<1>1. [p \in PaymentIds |-> r[p].all] \in [PaymentIds -> Nat]
  BY DEF Amounts
<1>2. IsFiniteSet(PaymentIds)
  BY LedgerAssumption, FS_Interval DEF PaymentIds
<1>3. QED
  BY <1>1, <1>2, SumFunctionNat DEF RowSum

\* One row changed changes the sum of the rows by the difference.
LEMMA RowSumUpdate ==
    ASSUME NEW r \in [PaymentIds -> Amounts], NEW p \in PaymentIds, NEW m \in Amounts
    PROVE  /\ [r EXCEPT ![p] = m] \in [PaymentIds -> Amounts]
           /\ RowSum([r EXCEPT ![p] = m]) = RowSum(r) - r[p].all + m.all
<1> DEFINE u == [r EXCEPT ![p] = m]
           f == [q \in PaymentIds |-> r[q].all]
           g == [q \in PaymentIds |-> u[q].all]
<1>1. u \in [PaymentIds -> Amounts] /\ u[p] = m /\ \A q \in PaymentIds : q # p => u[q] = r[q]
  OBVIOUS
<1>2. IsFiniteSet(PaymentIds)
  BY LedgerAssumption, FS_Interval DEF PaymentIds
<1> HIDE DEF u
<1>3. f \in [PaymentIds -> Nat] /\ g \in [PaymentIds -> Nat]
  BY <1>1 DEF Amounts
<1>4. g[p] = m.all /\ f[p] = r[p].all /\ \A q \in PaymentIds : q # p => g[q] = f[q]
  BY <1>1
<1> HIDE DEF f, g
<1>5. Terms(f, PaymentIds) /\ Terms(g, PaymentIds) /\ AgreeExcept(g, f, PaymentIds, p)
  BY <1>2, <1>3, <1>4 DEF Terms, AgreeExcept
<1>6. SumFunction(g) = SumFunction(f) - f[p] + g[p]
  BY <1>5, SumFunctionUpdate
<1>7. QED
  BY <1>1, <1>4, <1>6 DEF RowSum, f, g, u

\* Recorded is what the rows hold.
LEMMA RecordedIs == Recorded = Held(row, changeRow)
BY DEF Recorded, Held, RowSum

\* The amounts the proofs about money add up are naturals.
LEMMA HeldIs ==
    ASSUME LedgerTypeOK, NEW r \in [PaymentIds -> Amounts], NEW c \in Nat
    PROVE  Held(r, c) \in Nat /\ Held(r, c) = RowSum(r) + c + lost + paidOut
<1>1. RowSum(r) \in Nat /\ lost \in Nat /\ paidOut \in Nat
  BY RowSumIs DEF LedgerTypeOK
<1>2. QED
  BY <1>1 DEF Held

\* With no handler running, no row holds money that was not put in.
LEMMA HoldsBacked ==
    ASSUME LedgerTypeOK, NEW g \in Nat, LedgerHolds(g)
    PROVE  /\ Backed
           /\ (MainIdle /\ g = 0 /\ torn = 0) => Recorded = AllNotes
<1> SUFFICES ASSUME MainIdle
             PROVE  /\ Recorded <= AllNotes + torn
                    /\ (g = 0 /\ torn = 0) => Recorded = AllNotes
  BY DEF Backed
<1>1. Settled(row, changeRow, 0, g)
  BY DEF LedgerHolds, SavesFit, MainIdle, PaymentThenChange
<1>2. Held(row, changeRow) \in Nat /\ AllNotes \in Nat /\ torn \in Nat
  BY HeldIs, NoteSums DEF LedgerTypeOK
<1>3. Held(row, changeRow) + g = AllNotes + torn + 0
  BY <1>1 DEF Settled
<1>4. QED
  BY <1>2, <1>3, RecordedIs

\* The first start holds nothing and owes nothing.
LEMMA LedgerHoldsInit ==
    ASSUME LedgerInit
    PROVE  LedgerHolds(0)
<1>1. LedgerTypeOK /\ AllNotes = 0
  BY LedgerInitType, LedgerInitSums
<1>2. RowSum(row) = 0
  <2> DEFINE f == [p \in PaymentIds |-> row[p].all]
  <2>1. f \in [PaymentIds -> Nat] /\ \A p \in PaymentIds : f[p] = 0
    BY DEF LedgerInit, Nothing
  <2>2. IsFiniteSet(PaymentIds)
    BY LedgerAssumption, FS_Interval DEF PaymentIds
  <2> HIDE DEF f
  <2>3. SumFunction(f) = 0
    BY <2>1, <2>2, SumFunctionZero
  <2>4. QED
    BY <2>3 DEF RowSum, f
<1>3. Settled(row, changeRow, 0, 0)
  BY <1>1, <1>2 DEF LedgerInit, Settled, Held, Leftover
<1>4. SavesFit(0)
  BY <1>3 DEF SavesFit, MainIdle, LedgerInit
<1>5. QED
  BY <1>4, LedgerAssumption DEF LedgerHolds, LedgerInit, Nothing, NoPayment

-----------------------------------------------------------------------------
(* The saves keep the money *)

\* The first save and the rest of one save and of two.
LEMMA OneAndTwo ==
    ASSUME NEW a, NEW b
    PROVE  /\ <<a>> # <<>> /\ Head(<<a>>) = a /\ Tail(<<a>>) = <<>>
           /\ <<a, b>> # <<>> /\ Head(<<a, b>>) = a /\ Tail(<<a, b>>) = <<b>>
<1> DEFINE t == Tail(<<a, b>>)
           u == <<b>>
<1>1. <<a, b>> \in Seq({a, b}) /\ u \in Seq({a, b})
  OBVIOUS
<1>2. t \in Seq({a, b}) /\ Len(t) = 1 /\ t[1] = b /\ Len(u) = 1 /\ u[1] = b
  BY <1>1
<1> HIDE DEF t, u
<1>3. \A i \in 1..Len(t) : t[i] = u[i]
  BY <1>2
<1>4. t = u
  BY <1>1, <1>2, <1>3, SeqEqual
<1>5. QED
  BY <1>4 DEF t, u

\* The three saves of a note that gives change.
LEMMA Three ==
    ASSUME NEW a, NEW b, NEW c
    PROVE  /\ <<a, b, c>> # <<>> /\ Head(<<a, b, c>>) = a
           /\ Tail(<<a, b, c>>) = <<b, c>>
<1> DEFINE s == <<a, b, c>>
           t == Tail(s)
           u == <<b, c>>
<1>1. s \in Seq({a, b, c}) /\ u \in Seq({a, b, c}) /\ s # <<>> /\ Head(s) = a
  OBVIOUS
<1>2. /\ t \in Seq({a, b, c}) /\ Len(t) = 2 /\ t[1] = b /\ t[2] = c
      /\ Len(u) = 2 /\ u[1] = b /\ u[2] = c
  BY <1>1
<1> HIDE DEF t, u
<1>3. \A i \in 1..Len(t) : t[i] = u[i]
  BY <1>2
<1>4. t = u
  BY <1>1, <1>2, <1>3, SeqEqual
<1>5. QED
  BY <1>1, <1>4 DEF t, u

\* The payment comes first in what is left of a note.
LEMMA PaymentFirst ==
    ASSUME NEW w, NEW n, NEW g, PaymentThenChange(w, n, g)
    PROVE  w # <<>> /\ Head(w).table = "payment"
<1>1. PICK p, m, c : w = <<PaymentSave(p, m)>> \/ w = <<PaymentSave(p, m), ChangeSave(c)>>
  BY DEF PaymentThenChange
<1>2. w # <<>> /\ Head(w) = PaymentSave(p, m)
  BY <1>1, OneAndTwo
<1>3. QED
  BY <1>2 DEF PaymentSave

\* A saved note is what the saves after it were waiting for.
LEMMA SaveNoteHolds ==
    ASSUME LedgerTypeOK, NEW g \in Nat, LedgerHolds(g), SaveNote
    PROVE  LedgerHolds(g)'
<1>1. writes # <<>> /\ Head(writes).table = "payment_note" /\ writes' = Tail(writes)
  BY DEF SaveNote, MainIdle
<1>2. PICK p \in PaymentIds, n \in Nat :
         /\ Head(writes) = NoteSave(p, n)
         /\ PaymentThenChange(Tail(writes), n, g)
  <2>1. \A c : writes # <<ChangeSave(c)>>
    <3> TAKE c
    <3>1. Head(<<ChangeSave(c)>>).table = "change"
      BY OneAndTwo DEF ChangeSave
    <3>2. QED
      BY <1>1, <3>1
  <2>2. \A c, q, m : writes # <<ChangeSave(c), PaymentSave(q, m)>>
    <3> TAKE c, q, m
    <3>1. Head(<<ChangeSave(c), PaymentSave(q, m)>>).table = "change"
      BY OneAndTwo DEF ChangeSave
    <3>2. QED
      BY <1>1, <3>1
  <2>3. ~PaymentThenChange(writes, 0, g)
    BY <1>1, PaymentFirst
  <2>4. QED
    BY <1>1, <2>1, <2>2, <2>3 DEF LedgerHolds, SavesFit, MainIdle
<1>3. n = Head(writes).amount
  BY <1>2 DEF NoteSave
<1>4. PICK q : q = Head(writes).payment
  OBVIOUS
<1>5. AllNotes' = AllNotes + n
  BY <1>3, <1>4, SaveNoteSums
<1>6. AllNotes \in Nat /\ torn \in Nat
  BY NoteSums DEF LedgerTypeOK
<1>7. UNCHANGED <<created, active, obj, row, change, changeRow, lost, paidOut, torn>>
  BY DEF SaveNote
<1>8. ASSUME NEW r, NEW c
      PROVE  /\ Settled(r, c, n, g) => Settled(r, c, 0, g)'
             /\ Covered(r, c, n) => Covered(r, c, 0)'
  <2>1. Held(r, c)' = Held(r, c) /\ Leftover' = Leftover
    BY <1>7 DEF Held, Leftover, RowSum
  <2>2. AllNotes' + torn' + 0 = AllNotes + torn + n
    BY <1>5, <1>6, <1>7
  <2>3. QED
    BY <1>7, <2>1, <2>2 DEF Settled, Covered
<1>9. PaymentThenChange(writes, 0, g)'
  BY <1>1, <1>2, <1>7, <1>8 DEF PaymentThenChange
<1>10. QED
  BY <1>7, <1>9 DEF LedgerHolds, SavesFit

\* A save of a payment or of the change: what is held is what it was to be.
LEMMA SavesUnchanged ==
    ASSUME UNCHANGED <<created, active, obj, change, lost, paidOut, notes, torn>>,
           NEW r, NEW c, NEW n, NEW g
    PROVE  /\ Settled(r, c, n, g)' <=> Settled(r, c, n, g)
           /\ Covered(r, c, n)' <=> Covered(r, c, n)
<1>1. Held(r, c)' = Held(r, c) /\ Leftover' = Leftover /\ AllNotes' = AllNotes
  BY DEF Held, Leftover, RowSum, AllNotes, NotesOf
<1>2. QED
  BY <1>1 DEF Settled, Covered

\* The payment saved, the change is left to save or nothing is.
LEMMA SavePaymentHolds ==
    ASSUME LedgerTypeOK, NEW g \in Nat, LedgerHolds(g), SavePayment
    PROVE  LedgerHolds(g)'
<1>1. writes # <<>> /\ Head(writes).table = "payment" /\ writes' = Tail(writes)
  BY DEF SavePayment, MainIdle
<1>2. PaymentThenChange(writes, 0, g)
  <2>1. \A c : writes # <<ChangeSave(c)>>
    <3> TAKE c
    <3>1. Head(<<ChangeSave(c)>>).table = "change"
      BY OneAndTwo DEF ChangeSave
    <3>2. QED
      BY <1>1, <3>1
  <2>2. \A c, q, m : writes # <<ChangeSave(c), PaymentSave(q, m)>>
    <3> TAKE c, q, m
    <3>1. Head(<<ChangeSave(c), PaymentSave(q, m)>>).table = "change"
      BY OneAndTwo DEF ChangeSave
    <3>2. QED
      BY <1>1, <3>1
  <2>3. \A p, n : Head(writes) # NoteSave(p, n)
    BY <1>1 DEF NoteSave
  <2>4. QED
    BY <1>1, <2>1, <2>2, <2>3 DEF LedgerHolds, SavesFit, MainIdle
<1>3. UNCHANGED <<created, active, obj, change, changeRow, lost, paidOut, notes, torn>>
  BY DEF SavePayment
<1>4. PICK p \in 1..created, m \in Amounts : \E r :
         /\ r = [row EXCEPT ![p] = m]
         /\ \/ writes = <<PaymentSave(p, m)>> /\ Settled(r, changeRow, 0, g)
            \/ \E c \in Nat :
                 /\ writes = <<PaymentSave(p, m), ChangeSave(c)>>
                 /\ Covered(r, changeRow, 0)
                 /\ Settled(r, c, 0, g)
  BY <1>2 DEF PaymentThenChange
<1>5. PICK r :
         /\ r = [row EXCEPT ![p] = m]
         /\ \/ writes = <<PaymentSave(p, m)>> /\ Settled(r, changeRow, 0, g)
            \/ \E c \in Nat :
                 /\ writes = <<PaymentSave(p, m), ChangeSave(c)>>
                 /\ Covered(r, changeRow, 0)
                 /\ Settled(r, c, 0, g)
  BY <1>4
<1>6. row' = r
  <2>1. Head(writes) = PaymentSave(p, m)
    BY <1>5, OneAndTwo
  <2>2. Head(writes).payment = p /\ Head(writes).money = m
    BY <2>1 DEF PaymentSave
  <2>3. row' = [row EXCEPT ![Head(writes).payment] = Head(writes).money]
    BY DEF SavePayment
  <2>4. QED
    BY <1>5, <2>2, <2>3
<1>7. SavesFit(g)'
  <2>1. CASE writes = <<PaymentSave(p, m)>> /\ Settled(r, changeRow, 0, g)
    <3>1. writes' = <<>>
      BY <1>1, <2>1, OneAndTwo
    <3>2. Settled(r, changeRow, 0, g)'
      BY <1>3, <2>1, SavesUnchanged DEF Settled, Held, Leftover, AllNotes, NotesOf
    <3>3. QED
      BY <1>6, <3>1, <3>2 DEF SavesFit, MainIdle
  <2>2. ASSUME NEW c \in Nat, writes = <<PaymentSave(p, m), ChangeSave(c)>>,
               Covered(r, changeRow, 0), Settled(r, c, 0, g)
        PROVE  SavesFit(g)'
    <3>1. writes' = <<ChangeSave(c)>>
      BY <1>1, <2>2, OneAndTwo
    <3>2. Settled(r, c, 0, g)' /\ Covered(r, changeRow, 0)'
      BY <1>3, <2>2, SavesUnchanged DEF Covered, Held, Leftover, AllNotes, NotesOf
    <3>3. Settled(row, c, 0, g)' /\ Covered(row, changeRow, 0)'
      BY <1>6, <3>2
    <3>4. QED
      BY <3>1, <3>3 DEF SavesFit, ChangeSave
  <2>3. QED
    BY <1>5, <2>1, <2>2
<1>8. \A q \in PaymentIds : q > created => row'[q] = Nothing
  <2> SUFFICES ASSUME NEW q \in PaymentIds, q > created PROVE r[q] = Nothing
    BY <1>6
  <2>1. q # p
    BY DEF LedgerTypeOK, PaymentIds
  <2>2. QED
    BY <1>5, <2>1 DEF LedgerHolds, LedgerTypeOK
<1>9. QED
  BY <1>3, <1>7, <1>8 DEF LedgerHolds

\* The change saved, the payment is left to save or nothing is.
LEMMA SaveChangeHolds ==
    ASSUME LedgerTypeOK, NEW g \in Nat, LedgerHolds(g), SaveChange
    PROVE  LedgerHolds(g)'
<1>1. writes # <<>> /\ Head(writes).table = "change" /\ writes' = Tail(writes)
  BY DEF SaveChange, MainIdle
<1>2. UNCHANGED <<created, active, obj, row, change, lost, paidOut, notes, torn>>
  BY DEF SaveChange
<1>3. ~PaymentThenChange(writes, 0, g)
  BY <1>1, PaymentFirst
<1>4. \A p, n : Head(writes) # NoteSave(p, n)
  BY <1>1 DEF NoteSave
<1>5. \/ \E c \in Nat : writes = <<ChangeSave(c)>> /\ Settled(row, c, 0, g)
      \/ \E c \in Nat, p \in 1..created, m \in Amounts :
           /\ writes = <<ChangeSave(c), PaymentSave(p, m)>>
           /\ Settled([row EXCEPT ![p] = m], c, 0, g)
  BY <1>1, <1>3, <1>4 DEF LedgerHolds, SavesFit, MainIdle
<1>6. ASSUME NEW c \in Nat, writes = <<ChangeSave(c)>>, Settled(row, c, 0, g)
      PROVE  SavesFit(g)'
  <2>1. writes' = <<>> /\ Head(writes) = ChangeSave(c)
    BY <1>1, <1>6, OneAndTwo
  <2>2. changeRow' = c
    BY <2>1 DEF SaveChange, ChangeSave
  <2>3. PICK r : r = row
    OBVIOUS
  <2>4. Settled(r, c, 0, g)'
    BY <1>2, <1>6, <2>3, SavesUnchanged
  <2>5. Settled(row, changeRow, 0, g)'
    BY <1>2, <2>2, <2>3, <2>4
  <2>6. QED
    BY <2>1, <2>5 DEF SavesFit, MainIdle
<1>7. ASSUME NEW c \in Nat, NEW p \in 1..created, NEW m \in Amounts,
             writes = <<ChangeSave(c), PaymentSave(p, m)>>,
             Settled([row EXCEPT ![p] = m], c, 0, g)
      PROVE  SavesFit(g)'
  <2>1. writes' = <<PaymentSave(p, m)>> /\ Head(writes) = ChangeSave(c)
    BY <1>1, <1>7, OneAndTwo
  <2>2. changeRow' = c
    BY <2>1 DEF SaveChange, ChangeSave
  <2>3. PICK r : r = [row EXCEPT ![p] = m]
    OBVIOUS
  <2>4. Settled(r, c, 0, g)'
    BY <1>2, <1>7, <2>3, SavesUnchanged
  <2>5. Settled([row EXCEPT ![p] = m], changeRow, 0, g)'
    BY <1>2, <2>2, <2>3, <2>4
  <2>6. PaymentThenChange(writes, 0, g)'
    BY <1>2, <2>1, <2>5 DEF PaymentThenChange, PaymentSave
  <2>7. QED
    BY <2>6 DEF SavesFit
<1>8. QED
  BY <1>2, <1>5, <1>6, <1>7 DEF LedgerHolds

\* Every save keeps the money.
LEMMA SaveHolds ==
    ASSUME LedgerTypeOK, NEW g \in Nat, LedgerHolds(g), Save
    PROVE  LedgerHolds(g)'
BY SaveNoteHolds, SavePaymentHolds, SaveChangeHolds DEF Save

-----------------------------------------------------------------------------
(* The operations keep the money *)

\* An operation begins with nothing to save and the objects equal to the rows.
LEMMA AtRest ==
    ASSUME LedgerTypeOK, NEW g \in Nat, LedgerHolds(g), MainIdle
    PROVE  /\ Settled(row, changeRow, 0, g)
           /\ Held(row, changeRow) + g = AllNotes + torn
           /\ Covered(row, changeRow, 0)
           /\ active # NoPayment => obj = row[active]
           /\ changeRow = Leftover
           /\ Held(row, changeRow) \in Nat /\ AllNotes \in Nat /\ torn \in Nat
<1>1. Settled(row, changeRow, 0, g)
  BY DEF LedgerHolds, SavesFit, MainIdle, PaymentThenChange
<1>2. Held(row, changeRow) \in Nat /\ AllNotes \in Nat /\ torn \in Nat
  BY HeldIs, NoteSums DEF LedgerTypeOK
<1>3. QED
  BY <1>1, <1>2 DEF Settled, Covered

\* A new payment has an empty row and holds nothing.
LEMMA CreatePaymentHolds ==
    ASSUME LedgerTypeOK, NEW g \in Nat, LedgerHolds(g), CreatePayment
    PROVE  LedgerHolds(g)'
<1>1. Settled(row, changeRow, 0, g) /\ created \in Nat
  BY AtRest DEF CreatePayment, LedgerTypeOK
<1>2. /\ created' = created + 1 /\ active' = created + 1 /\ obj' = Nothing
      /\ UNCHANGED <<row, change, changeRow, lost, paidOut, notes, writes, torn>>
      /\ MainIdle /\ created + 1 \in PaymentIds
  BY <1>1, LedgerAssumption DEF CreatePayment, PaymentIds
<1>3. row[created + 1] = Nothing
  BY <1>1, <1>2 DEF LedgerHolds
<1>4. Settled(row, changeRow, 0, g)'
  <2>1. /\ Held(row, changeRow)' = Held(row, changeRow)
        /\ Leftover' = Leftover /\ AllNotes' = AllNotes
    BY <1>2 DEF Held, RowSum, Leftover, AllNotes, NotesOf
  <2>2. obj' = row'[active']
    BY <1>2, <1>3
  <2>3. QED
    BY <1>1, <1>2, <2>1, <2>2 DEF Settled
<1>5. SavesFit(g)'
  BY <1>2, <1>4 DEF SavesFit, MainIdle
<1>6. \A p \in PaymentIds : p > created' => row'[p] = Nothing
  <2> SUFFICES ASSUME NEW p \in PaymentIds, p > created + 1 PROVE row[p] = Nothing
    BY <1>2
  <2>1. p > created
    BY <1>1 DEF PaymentIds
  <2>2. QED
    BY <2>1 DEF LedgerHolds
<1>7. QED
  BY <1>1, <1>2, <1>5, <1>6, LedgerAssumption DEF LedgerHolds, Nothing

\* What a payment with the maximum M makes of one note more.
LEMMA OneNoteMore ==
    ASSUME NEW M \in Nat, NEW n \in Nat, NEW a \in Nat, NEW c \in Nat,
           NEW a1 \in Nat, NEW c1 \in Nat,
           a <= M, c # 0 => a = M, a1 <= M, c1 # 0 => a1 = M,
           a1 + c1 = a + c + n
    PROVE  c <= c1 /\ (c # 0 => c1 # 0) /\ (c1 = 0 => a1 = a + n)
OBVIOUS

\* The sum of the rows, with one of them replaced.
LEMMA TakenApart ==
    ASSUME NEW R \in Nat, NEW R1 \in Nat, NEW a \in Nat, NEW c \in Nat, NEW n \in Nat,
           NEW a1 \in Nat, NEW c1 \in Nat, NEW k,
           R1 = R - a + a1, a1 + c1 = a + c + n, k = c
    PROVE  R1 + c1 = R + k + n
OBVIOUS

\* The gap g stays when what is held and what was put in grow alike.
LEMMA GapStays ==
    ASSUME NEW h \in Nat, NEW g \in Nat, NEW N \in Nat, NEW T \in Nat, NEW n \in Nat,
           NEW R \in Nat, NEW R1 \in Nat, NEW c \in Nat, NEW c1 \in Nat,
           NEW l \in Nat, NEW p \in Nat,
           h = R + c + l + p, h + g = N + T, R1 + c1 = R + c + n
    PROVE  R1 + c1 + l + p + g = N + T + n
OBVIOUS

\* A note for the active payment, whose change is the change there is.
LEMMA AmountUpdatedHolds ==
    ASSUME LedgerTypeOK, NEW g \in Nat, LedgerHolds(g), active # NoPayment,
           obj.change = Leftover, NEW n \in Nat, AmountUpdated(active, n)
    PROVE  LedgerHolds(g)' /\ (obj.change = Leftover)'
<1>1. /\ Held(row, changeRow) + g = AllNotes + torn /\ Covered(row, changeRow, 0)
      /\ obj = row[active] /\ changeRow = Leftover
      /\ Held(row, changeRow) \in Nat /\ AllNotes \in Nat /\ torn \in Nat
  BY AtRest DEF AmountUpdated
<1>2. /\ active \in PaymentIds /\ active \in 1..created /\ obj \in Amounts
      /\ obj.all \in Nat /\ obj.change \in Nat /\ Leftover \in Nat
      /\ lost \in Nat /\ paidOut \in Nat /\ changeRow \in Nat
      /\ row \in [PaymentIds -> Amounts]
  BY MoneyType DEF LedgerTypeOK, LedgerHolds, PaymentIds, NoPayment
<1>3. PICK m : m = Split(obj.all + obj.change + n)
  OBVIOUS
<1>4. /\ m \in Amounts /\ m.all + m.change = obj.all + obj.change + n
      /\ m.all <= MaxAmountAll /\ (m.change # 0 => m.all = MaxAmountAll)
  BY <1>2, <1>3, SplitIs
<1>5. m.all \in Nat /\ m.change \in Nat
  BY <1>4 DEF Amounts
<1>6. /\ obj' = m
      /\ change' = IF m.change = 0 THEN change ELSE m.change
      /\ writes' = <<NoteSave(active, n), PaymentSave(active, m)>>
                   \o (IF m.change = 0 THEN <<>> ELSE <<ChangeSave(m.change)>>)
      /\ UNCHANGED <<created, active, row, changeRow, lost, paidOut, notes, torn>>
  BY <1>3 DEF AmountUpdated, Money
<1>7. PICK r : r = [row EXCEPT ![active] = m]
  OBVIOUS
<1>8. /\ r \in [PaymentIds -> Amounts] /\ r[active] = m
      /\ RowSum(r) = RowSum(row) - obj.all + m.all
      /\ RowSum(r) \in Nat /\ RowSum(row) \in Nat
  BY <1>1, <1>2, <1>4, <1>7, RowSumUpdate, RowSumIs
<1>9. \A c : Held(r, c)' = RowSum(r) + c + lost + paidOut
  BY <1>6 DEF Held, RowSum
<1>10. AllNotes' = AllNotes
  BY <1>6 DEF AllNotes, NotesOf
<1>11. Held(row, changeRow) = RowSum(row) + changeRow + lost + paidOut
  BY DEF Held
<1>12. Covered(row, changeRow, 0)'
  BY <1>1, <1>6, <1>10 DEF Covered, Held, RowSum
\* The change grows only at the maximum, and then by what the payment loses.
<1>13. obj.change # 0 => obj.all = MaxAmountAll
  BY DEF LedgerHolds
<1>14. /\ obj.change <= m.change /\ (obj.change # 0 => m.change # 0)
       /\ m.change = 0 => m.all = obj.all + n
  <2>1. obj.all <= MaxAmountAll /\ MaxAmountAll \in Nat
    BY LedgerAssumption DEF LedgerHolds
  <2>2. QED
    BY <1>2, <1>4, <1>5, <1>13, <2>1, OneNoteMore
<1>15. Leftover' = m.change
  <2>1. CASE m.change = 0
    <3>1. obj.change = 0
      BY <1>14, <2>1
    <3>2. QED
      BY <1>6, <2>1, <3>1 DEF Leftover
  <2>2. CASE m.change # 0
    BY <1>5, <1>6, <2>2 DEF Leftover, NoChange
  <2>3. QED
    BY <2>1, <2>2
<1>16. PaymentThenChange(Tail(writes), n, g)' /\ Head(writes') = NoteSave(active, n) /\ writes' # <<>>
  <2>1. CASE m.change = 0
    <3>1. writes' = <<NoteSave(active, n), PaymentSave(active, m)>>
      BY <1>6, <2>1, NoteThenChange
    <3>2. /\ Tail(writes') = <<PaymentSave(active, m)>>
          /\ Head(writes') = NoteSave(active, n) /\ writes' # <<>>
      BY <3>1, OneAndTwo
    <3>3. changeRow = 0
      BY <1>1, <1>14, <2>1
    <3>4. RowSum(r) + changeRow + lost + paidOut + g = AllNotes + torn + n
      <4>1. m.all = obj.all + n
        BY <1>14, <2>1
      <4>2. RowSum(r) + changeRow = RowSum(row) + changeRow + n
        BY <1>2, <1>8, <4>1
      <4> DEFINE h == Held(row, changeRow)
                 R == RowSum(row)
                 R1 == RowSum(r)
                 N == AllNotes
      <4>3. /\ h = R + changeRow + lost + paidOut /\ h + g = N + torn
            /\ h \in Nat /\ N \in Nat /\ R \in Nat /\ R1 \in Nat /\ torn \in Nat
        BY <1>1, <1>8, <1>11
      <4> HIDE DEF h, R, R1, N
      <4>4. R1 + changeRow = R + changeRow + n
        BY <4>2 DEF R, R1
      <4>5. R1 + changeRow + lost + paidOut + g = N + torn + n
        BY <1>2, <4>3, <4>4
      <4>6. QED
        BY <4>5 DEF R1, N
    <3>5. Settled(r, changeRow, n, g)'
      BY <1>6, <1>8, <1>9, <1>10, <1>15, <2>1, <3>3, <3>4 DEF Settled
    <3>6. QED
      BY <1>2, <1>4, <1>6, <1>7, <3>2, <3>5 DEF PaymentThenChange, PaymentSave
  <2>2. CASE m.change # 0
    <3>1. writes' = <<NoteSave(active, n), PaymentSave(active, m), ChangeSave(m.change)>>
      BY <1>6, <2>2, NoteThenChange
    <3>2. /\ Tail(writes') = <<PaymentSave(active, m), ChangeSave(m.change)>>
          /\ Head(writes') = NoteSave(active, n) /\ writes' # <<>>
      BY <3>1, Three
    <3>3. RowSum(r) + m.change + lost + paidOut + g = AllNotes + torn + n
      <4>1. changeRow = obj.change
        BY <1>1
      <4>2. RowSum(r) + m.change = RowSum(row) + changeRow + n
        BY <1>2, <1>4, <1>5, <1>8, <4>1, TakenApart
      <4> DEFINE h == Held(row, changeRow)
                 R == RowSum(row)
                 R1 == RowSum(r)
                 N == AllNotes
      <4>3. /\ h = R + changeRow + lost + paidOut /\ h + g = N + torn
            /\ h \in Nat /\ N \in Nat /\ R \in Nat /\ R1 \in Nat /\ torn \in Nat
        BY <1>1, <1>8, <1>11
      <4> HIDE DEF h, R, R1, N
      <4>4. R1 + m.change = R + changeRow + n
        BY <4>2 DEF R, R1
      <4>5. R1 + m.change + lost + paidOut + g = N + torn + n
        BY <1>2, <1>5, <4>3, <4>4
      <4>6. QED
        BY <4>5 DEF R1, N
    <3>4. Settled(r, m.change, n, g)'
      BY <1>6, <1>8, <1>9, <1>10, <1>15, <3>3 DEF Settled
    <3>5. Covered(r, changeRow, n)'
      <4>1. RowSum(r) + changeRow + lost + paidOut <= AllNotes + torn + n
        <5>1. changeRow <= m.change
          BY <1>1, <1>14
        <5>2. QED
          BY <1>1, <1>2, <1>5, <1>8, <3>3, <5>1
      <4>2. QED
        BY <1>6, <1>9, <1>10, <4>1 DEF Covered
    <3>6. QED
      BY <1>2, <1>4, <1>5, <1>6, <1>7, <3>2, <3>4, <3>5
      DEF PaymentThenChange, PaymentSave, ChangeSave
  <2>3. QED
    BY <2>1, <2>2
<1>17. SavesFit(g)'
  BY <1>2, <1>12, <1>16, <1>6 DEF SavesFit, NoteSave
<1>18. LedgerHolds(g)'
  <2>1. /\ active <= created
        /\ \A p \in PaymentIds : p > created => row[p] = Nothing
    BY DEF LedgerHolds
  <2>2. obj'.all <= MaxAmountAll /\ (obj'.change # 0 => obj'.all = MaxAmountAll)
    BY <1>4, <1>6
  <2>3. UNCHANGED <<active, created, row>>
    BY <1>6
  <2>4. QED
    BY <1>17, <2>1, <2>2, <2>3 DEF LedgerHolds
<1>19. QED
  BY <1>6, <1>15, <1>18

\* Money moves between the row of the active payment and the change: the change
\* is saved first, and what was held is held when both are saved.
LEMMA MoveHolds ==
    ASSUME LedgerTypeOK, NEW g \in Nat, LedgerHolds(g), MainIdle, active # NoPayment,
           NEW m \in Amounts, NEW c \in Nat,
           m.all + c = obj.all + Leftover,
           m.all <= MaxAmountAll, m.change # 0 => m.all = MaxAmountAll,
           obj' = m, change' = c,
           writes' = <<ChangeSave(c), PaymentSave(active, m)>>,
           UNCHANGED <<created, active, row, changeRow, lost, paidOut, notes, torn>>
    PROVE  LedgerHolds(g)'
<1>1. /\ Held(row, changeRow) + g = AllNotes + torn /\ Covered(row, changeRow, 0)
      /\ obj = row[active] /\ changeRow = Leftover
      /\ Held(row, changeRow) \in Nat /\ AllNotes \in Nat /\ torn \in Nat
  BY AtRest
<1>2. /\ active \in PaymentIds /\ active \in 1..created
      /\ obj.all \in Nat /\ changeRow \in Nat /\ lost \in Nat /\ paidOut \in Nat
      /\ row \in [PaymentIds -> Amounts] /\ m.all \in Nat
  BY MoneyType DEF LedgerTypeOK, LedgerHolds, PaymentIds, NoPayment, Amounts
<1>3. PICK r : r = [row EXCEPT ![active] = m]
  OBVIOUS
<1>4. /\ r \in [PaymentIds -> Amounts] /\ r[active] = m
      /\ RowSum(r) = RowSum(row) - obj.all + m.all
      /\ RowSum(r) \in Nat /\ RowSum(row) \in Nat
  BY <1>1, <1>2, <1>3, RowSumUpdate, RowSumIs
<1>5. /\ Held(r, c)' = RowSum(r) + c + lost + paidOut
      /\ Held(row, changeRow) = RowSum(row) + changeRow + lost + paidOut
      /\ AllNotes' = AllNotes
  BY DEF Held, RowSum, AllNotes, NotesOf
<1>6. RowSum(r) + c + lost + paidOut + g = AllNotes + torn + 0
  <2>1. RowSum(r) + c = RowSum(row) + changeRow + 0
    <3>1. m.all + c = obj.all + changeRow + 0
      BY <1>1, <1>2
    <3>2. QED
      BY <1>2, <1>4, <3>1, TakenApart
  <2>2. QED
    BY <1>1, <1>2, <1>4, <1>5, <2>1, GapStays
<1>7. Leftover' = c
  BY DEF Leftover, NoChange
<1>8. Settled(r, c, 0, g)'
  BY <1>4, <1>5, <1>6, <1>7 DEF Settled
<1>9. Settled([row EXCEPT ![active] = m], c, 0, g)'
  BY <1>3, <1>8
<1>10. Covered(row, changeRow, 0)'
  BY <1>1, <1>5 DEF Covered, Held, RowSum
<1>11. SavesFit(g)'
  BY <1>2, <1>9, <1>10 DEF SavesFit, ChangeSave, PaymentSave
<1>12. QED
  BY <1>11 DEF LedgerHolds

\* Change used for the active payment, which has none of its own yet.
LEMMA MoveChangeToPaymentHolds ==
    ASSUME LedgerTypeOK, NEW g \in Nat, LedgerHolds(g), MoveChangeToPayment
    PROVE  LedgerHolds(g)' /\ (obj.change = Leftover)'
<1>1. obj.all \in Nat /\ Leftover \in Nat
  BY MoneyType
<1>2. PICK m : m = Split(obj.all + Leftover)
  OBVIOUS
<1>3. /\ m \in Amounts /\ m.all + m.change = obj.all + Leftover
      /\ m.all <= MaxAmountAll /\ (m.change # 0 => m.all = MaxAmountAll)
  BY <1>1, <1>2, SplitIs
<1>4. m.change \in Nat
  BY <1>3 DEF Amounts
<1>5. /\ MainIdle /\ active # NoPayment /\ obj' = m /\ change' = m.change
      /\ writes' = <<ChangeSave(m.change), PaymentSave(active, m)>>
      /\ UNCHANGED <<created, active, row, changeRow, lost, paidOut, notes, torn>>
  BY <1>2 DEF MoveChangeToPayment
<1>6. LedgerHolds(g)'
  <2>1. PICK c : c = m.change
    OBVIOUS
  <2>2. QED
    BY <1>3, <1>4, <1>5, <2>1, MoveHolds
<1>7. QED
  BY <1>4, <1>5, <1>6 DEF Leftover, NoChange

\* movePaymentToChange moves all a payment holds to the change.
LEMMA MovePaymentToChangeHolds ==
    ASSUME LedgerTypeOK, NEW g \in Nat, LedgerHolds(g), MovePaymentToChange
    PROVE  LedgerHolds(g)'
<1>1. obj.all \in Nat /\ Leftover \in Nat
  BY MoneyType
<1>2. PICK m, c : m = Nothing /\ c = Leftover + obj.all
  OBVIOUS
<1>3. /\ m \in Amounts /\ c \in Nat /\ m.all + c = obj.all + Leftover
      /\ m.all <= MaxAmountAll /\ (m.change # 0 => m.all = MaxAmountAll)
  BY <1>1, <1>2, LedgerAssumption DEF Nothing, Amounts
<1>4. /\ MainIdle /\ active # NoPayment /\ obj' = m /\ change' = c
      /\ writes' = <<ChangeSave(c), PaymentSave(active, m)>>
      /\ UNCHANGED <<created, active, row, changeRow, lost, paidOut, notes, torn>>
  BY <1>2 DEF MovePaymentToChange
<1>5. QED
  BY <1>3, <1>4, MoveHolds

\* Change that is given up is recorded as lost.
LEMMA ResetChangeHolds ==
    ASSUME LedgerTypeOK, NEW g \in Nat, LedgerHolds(g), ResetChange
    PROVE  LedgerHolds(g)' /\ Leftover' = 0
<1>1. /\ Settled(row, changeRow, 0, g) /\ changeRow = Leftover
      /\ Held(row, changeRow) + g = AllNotes + torn
  BY AtRest DEF ResetChange
<1>2. /\ lost' = lost + change /\ changeRow' = 0 /\ change' = NoChange /\ change # NoChange
      /\ UNCHANGED <<created, active, obj, row, paidOut, notes, writes, torn>> /\ MainIdle
  BY DEF ResetChange
<1>3. Leftover' = 0 /\ AllNotes' = AllNotes /\ changeRow = change
  BY <1>1, <1>2 DEF Leftover, AllNotes, NotesOf
<1>4. RowSum(row) \in Nat /\ changeRow \in Nat /\ lost \in Nat /\ paidOut \in Nat
  BY RowSumIs DEF LedgerTypeOK
<1>5. Held(row, changeRow)' = Held(row, changeRow)
  <2>1. Held(row, changeRow)' = RowSum(row) + 0 + (lost + changeRow) + paidOut
    BY <1>2, <1>3 DEF Held, RowSum
  <2>2. Held(row, changeRow) = RowSum(row) + changeRow + lost + paidOut
    BY DEF Held
  <2>3. QED
    BY <1>4, <2>1, <2>2
<1>6. Settled(row, changeRow, 0, g)'
  BY <1>1, <1>2, <1>3, <1>5 DEF Settled
<1>7. SavesFit(g)'
  BY <1>2, <1>6 DEF SavesFit, MainIdle
<1>8. QED
  BY <1>2, <1>3, <1>7 DEF LedgerHolds

\* The payment that is left is saved as its row has it already.
LEMMA DeactivatePaymentHolds ==
    ASSUME LedgerTypeOK, NEW g \in Nat, LedgerHolds(g), DeactivatePayment
    PROVE  LedgerHolds(g)'
<1>1. /\ Settled(row, changeRow, 0, g) /\ obj = row[active] /\ active # NoPayment
      /\ changeRow = Leftover
  BY AtRest DEF DeactivatePayment
<1>2. /\ writes' = <<PaymentSave(active, obj)>> /\ active' = NoPayment /\ obj' = Nothing
      /\ change' = IF change = 0 THEN NoChange ELSE change
      /\ UNCHANGED <<created, row, changeRow, lost, paidOut, notes, torn>>
  BY DEF DeactivatePayment
<1>3. active \in 1..created /\ obj \in Amounts /\ created \in Nat
  BY <1>1 DEF LedgerTypeOK, LedgerHolds, PaymentIds, NoPayment
<1>4. PICK p, m, r : p = active /\ m = obj /\ r = [row EXCEPT ![p] = m]
  OBVIOUS
<1>5. r = row
  BY <1>1, <1>4 DEF LedgerTypeOK
<1>6. Settled(r, changeRow, 0, g)'
  <2>1. /\ Held(r, changeRow)' = Held(row, changeRow) /\ AllNotes' = AllNotes
        /\ Leftover' = Leftover
    BY <1>2, <1>5 DEF Held, RowSum, AllNotes, NotesOf, Leftover
  <2>2. QED
    BY <1>1, <1>2, <2>1 DEF Settled
<1>7. PaymentThenChange(writes, 0, g)'
  <2>1. r = [row' EXCEPT ![p] = m] /\ p \in 1..created' /\ m \in Amounts
    BY <1>2, <1>3, <1>4
  <2>2. writes' = <<PaymentSave(p, m)>>
    BY <1>2, <1>4
  <2>3. QED
    BY <1>6, <2>1, <2>2 DEF PaymentThenChange, PaymentSave
<1>8. SavesFit(g)'
  BY <1>7 DEF SavesFit
<1>9. QED
  BY <1>2, <1>3, <1>8, LedgerAssumption DEF LedgerHolds, Nothing, NoPayment

\* An encashment moves notes and no money of the customers.
LEMMA EncashHolds ==
    ASSUME LedgerTypeOK, NEW g \in Nat, LedgerHolds(g), Encash
    PROVE  LedgerHolds(g)'
<1>1. Settled(row, changeRow, 0, g)
  BY AtRest DEF Encash
<1>2. UNCHANGED <<created, active, obj, row, change, changeRow, lost, paidOut, writes, torn>>
      /\ MainIdle
  BY DEF Encash
<1>3. AllNotes' = AllNotes
  BY EncashSums
<1>4. Settled(row, changeRow, 0, g)'
  BY <1>1, <1>2, <1>3 DEF Settled, Held, RowSum, Leftover
<1>5. QED
  BY <1>2, <1>4 DEF LedgerHolds, SavesFit, MainIdle

\* A step that leaves the ledger alone keeps the money.
LEMMA LedgerStutterHolds ==
    ASSUME NEW g, LedgerHolds(g), UNCHANGED ledger
    PROVE  LedgerHolds(g)'
<1>1. UNCHANGED <<created, active, obj, row, change, changeRow, lost, paidOut, notes,
                  writes, torn>>
  BY DEF ledger
<1>2. ASSUME NEW w, NEW n, PaymentThenChange(w, n, g)
      PROVE  PaymentThenChange(w, n, g)'
  <2>1. PICK x, d : x = row /\ d = changeRow
    OBVIOUS
  <2>2. PICK p \in 1..created, m \in Amounts :
           \/ w = <<PaymentSave(p, m)>> /\ Settled([x EXCEPT ![p] = m], d, n, g)
           \/ \E c \in Nat :
                /\ w = <<PaymentSave(p, m), ChangeSave(c)>>
                /\ Covered([x EXCEPT ![p] = m], d, n)
                /\ Settled([x EXCEPT ![p] = m], c, n, g)
    BY <1>2, <2>1 DEF PaymentThenChange
  <2>3. /\ Settled([x EXCEPT ![p] = m], d, n, g)' <=> Settled([x EXCEPT ![p] = m], d, n, g)
        /\ Covered([x EXCEPT ![p] = m], d, n)' <=> Covered([x EXCEPT ![p] = m], d, n)
        /\ \A c : Settled([x EXCEPT ![p] = m], c, n, g)'
                  <=> Settled([x EXCEPT ![p] = m], c, n, g)
    BY <1>1, SavesUnchanged
  <2>4. row' = x /\ changeRow' = d /\ created' = created
    BY <1>1, <2>1
  <2>5. QED
    BY <2>2, <2>3, <2>4 DEF PaymentThenChange, PaymentSave, ChangeSave
<1>3. SavesFit(g)'
  <2>1. PICK x, d, w : x = row /\ d = changeRow /\ w = writes
    OBVIOUS
  <2>2. row' = x /\ changeRow' = d /\ created' = created /\ writes' = w
    BY <1>1, <2>1
  <2>3. ASSUME w = <<>>, Settled(x, d, 0, g)
        PROVE  SavesFit(g)'
    <3>1. Settled(x, d, 0, g)'
      BY <1>1, <2>3, SavesUnchanged
    <3>2. QED
      BY <2>2, <2>3, <3>1 DEF SavesFit, MainIdle
  <2>4. ASSUME NEW p \in PaymentIds, NEW n \in Nat, w # <<>>, Head(w) = NoteSave(p, n),
               Covered(x, d, 0), PaymentThenChange(Tail(w), n, g)
        PROVE  SavesFit(g)'
    <3>1. Covered(x, d, 0)' /\ PaymentThenChange(Tail(w), n, g)'
      BY <1>1, <1>2, <2>4, SavesUnchanged
    <3>2. Covered(row, changeRow, 0)' /\ PaymentThenChange(Tail(writes), n, g)'
      BY <2>2, <3>1
    <3>3. QED
      BY <2>2, <2>4, <3>2 DEF SavesFit, NoteSave
  <2>5. ASSUME PaymentThenChange(w, 0, g)
        PROVE  SavesFit(g)'
    <3>1. PaymentThenChange(w, 0, g)'
      BY <1>2, <2>5
    <3>2. PaymentThenChange(writes, 0, g)'
      BY <2>2, <3>1
    <3>3. QED
      BY <3>2 DEF SavesFit
  <2>6. ASSUME NEW c \in Nat, w = <<ChangeSave(c)>>, Covered(x, d, 0), Settled(x, c, 0, g)
        PROVE  SavesFit(g)'
    <3>1. Covered(x, d, 0)' /\ Settled(x, c, 0, g)'
      BY <1>1, <2>6, SavesUnchanged
    <3>2. Covered(row, changeRow, 0)' /\ Settled(row, c, 0, g)'
      BY <2>2, <3>1
    <3>3. QED
      BY <2>2, <2>6, <3>2 DEF SavesFit, ChangeSave
  <2>7. ASSUME NEW c \in Nat, NEW p \in 1..created, NEW m \in Amounts,
               w = <<ChangeSave(c), PaymentSave(p, m)>>, Covered(x, d, 0),
               Settled([x EXCEPT ![p] = m], c, 0, g)
        PROVE  SavesFit(g)'
    <3>1. PICK r : r = [x EXCEPT ![p] = m]
      OBVIOUS
    <3>2. Covered(x, d, 0)' /\ Settled(r, c, 0, g)'
      BY <1>1, <2>7, <3>1, SavesUnchanged
    <3>3. Covered(row, changeRow, 0)' /\ Settled([row EXCEPT ![p] = m], c, 0, g)'
      BY <2>2, <3>1, <3>2
    <3>4. QED
      BY <2>2, <2>7, <3>3 DEF SavesFit, ChangeSave, PaymentSave
  <2>8. QED
    BY <2>1, <2>3, <2>4, <2>5, <2>6, <2>7 DEF LedgerHolds, SavesFit, MainIdle
<1>4. QED
  BY <1>1, <1>3 DEF LedgerHolds

\* A row a that is to become b, with the difference in the window w.
LEMMA WindowCovers ==
    ASSUME NEW N \in Nat, NEW T \in Nat, NEW w \in Nat, NEW R \in Nat, NEW R1 \in Nat,
           NEW a \in Nat, NEW b \in Nat, NEW c \in Nat, NEW l \in Nat, NEW p \in Nat,
           NEW h, NEW h1, h = R + c + l + p, h1 = R1 + c + l + p,
           R1 = R - a + b, h1 <= N + T, w >= a - b
    PROVE  h <= N + T + w
OBVIOUS

\* Wherever a handler is stopped, what is recorded is covered by the notes and
\* by what the half of a move has doubled.
LEMMA StoppedCovered ==
    ASSUME LedgerTypeOK, NEW g \in Nat, LedgerHolds(g)
    PROVE  Held(row, changeRow) <= AllNotes + torn + HalfMoved
<1>1. /\ Held(row, changeRow) \in Nat /\ AllNotes \in Nat /\ torn \in Nat /\ HalfMoved \in Nat
      /\ changeRow \in Nat /\ row \in [PaymentIds -> Amounts]
      /\ lost \in Nat /\ paidOut \in Nat
  BY HeldIs, NoteSums, HalfMovedIs DEF LedgerTypeOK
<1>2. CASE Covered(row, changeRow, 0)
  BY <1>1, <1>2 DEF Covered
<1>3. CASE MainIdle /\ Settled(row, changeRow, 0, g)
  BY <1>1, <1>3, AtRest
<1>4. CASE PaymentThenChange(writes, 0, g)
  <2>1. PICK p \in 1..created, m \in Amounts : \E r :
           /\ r = [row EXCEPT ![p] = m]
           /\ \/ writes = <<PaymentSave(p, m)>> /\ Settled(r, changeRow, 0, g)
              \/ \E c \in Nat :
                   writes = <<PaymentSave(p, m), ChangeSave(c)>> /\ Covered(r, changeRow, 0)
    BY <1>4 DEF PaymentThenChange
  <2>2. PICK r :
           /\ r = [row EXCEPT ![p] = m]
           /\ \/ writes = <<PaymentSave(p, m)>> /\ Settled(r, changeRow, 0, g)
              \/ \E c \in Nat :
                   writes = <<PaymentSave(p, m), ChangeSave(c)>> /\ Covered(r, changeRow, 0)
    BY <2>1
  <2>3. p \in PaymentIds
    BY LedgerAssumption DEF LedgerTypeOK, PaymentIds
  <2>4. /\ r \in [PaymentIds -> Amounts] /\ RowSum(r) = RowSum(row) - row[p].all + m.all
        /\ RowSum(r) \in Nat /\ RowSum(row) \in Nat
        /\ row[p].all \in Nat /\ m.all \in Nat
    <3>1. r \in [PaymentIds -> Amounts] /\ RowSum(r) = RowSum(row) - row[p].all + m.all
      BY <1>1, <2>2, <2>3, RowSumUpdate
    <3>2. row[p].all \in Nat /\ m.all \in Nat
      BY <1>1, <2>3 DEF Amounts
    <3>3. QED
      BY <1>1, <3>1, <3>2, RowSumIs
  <2>5. /\ Held(r, changeRow) \in Nat /\ Held(r, changeRow) = RowSum(r) + changeRow + lost + paidOut
        /\ Held(row, changeRow) = RowSum(row) + changeRow + lost + paidOut
    BY <1>1, <2>4, HeldIs
  <2>6. Held(r, changeRow) <= AllNotes + torn
    <3>1. CASE Settled(r, changeRow, 0, g)
      BY <1>1, <2>5, <3>1 DEF Settled
    <3>2. CASE Covered(r, changeRow, 0)
      BY <1>1, <2>5, <3>2 DEF Covered
    <3>3. QED
      BY <2>2, <3>1, <3>2
  <2>7. HalfMoved >= row[p].all - m.all
    <3>1. Head(writes) = PaymentSave(p, m) /\ writes # <<>>
      BY <2>2, OneAndTwo
    <3>2. /\ Head(writes).table = "payment" /\ Head(writes).payment = p
          /\ Head(writes).money = m
      BY <3>1 DEF PaymentSave
    <3>3. QED
      BY <3>1, <3>2, HalfMovedIs DEF MainIdle
  <2>8. QED
    BY <1>1, <2>4, <2>5, <2>6, <2>7, WindowCovers
<1>5. QED
  BY <1>2, <1>3, <1>4 DEF LedgerHolds, SavesFit

\* After a stop nothing is left to save, and the gap is what it comes to.
LEMMA LedgerCrashHolds ==
    ASSUME LedgerTypeOK, NEW g \in Nat, LedgerHolds(g), LedgerCrash
    PROVE  \E k \in Nat : LedgerHolds(k)'
<1>1. /\ Held(row, changeRow) \in Nat /\ AllNotes \in Nat /\ torn \in Nat /\ HalfMoved \in Nat
      /\ RowSum(row) \in Nat /\ changeRow \in Nat /\ lost \in Nat /\ paidOut \in Nat
      /\ created \in Nat
  <2>1. /\ row \in [PaymentIds -> Amounts] /\ changeRow \in Nat /\ lost \in Nat
        /\ paidOut \in Nat /\ torn \in Nat /\ created \in Nat
        /\ notes \in [PaymentIds -> [0..MaxEncashments -> Nat]]
    BY DEF LedgerTypeOK
  <2>2. QED
    BY <2>1, HeldIs, NoteSums, HalfMovedIs, RowSumIs
<1>2. Held(row, changeRow) <= AllNotes + torn + HalfMoved
  BY StoppedCovered
<1>3. PICK k : k = AllNotes + (torn + HalfMoved) - Held(row, changeRow)
  OBVIOUS
<1>4. k \in Nat /\ Held(row, changeRow) + k = AllNotes + (torn + HalfMoved) + 0
  BY <1>1, <1>2, <1>3
<1>5. /\ active' = NoPayment /\ obj' = Nothing /\ change' = NoChange /\ changeRow' = 0
      /\ lost' = lost + changeRow /\ writes' = <<>> /\ torn' = torn + HalfMoved
      /\ UNCHANGED <<created, row, paidOut, notes>>
  BY DEF LedgerCrash
<1>6. Held(row, changeRow)' = Held(row, changeRow)
  <2>1. Held(row, changeRow)' = RowSum(row) + 0 + (lost + changeRow) + paidOut
    BY <1>5 DEF Held, RowSum
  <2>2. Held(row, changeRow) = RowSum(row) + changeRow + lost + paidOut
    BY DEF Held
  <2>3. QED
    BY <1>1, <2>1, <2>2
<1>7. AllNotes' = AllNotes /\ Leftover' = 0
  BY <1>5 DEF AllNotes, NotesOf, Leftover
<1>8. Settled(row, changeRow, 0, k)'
  BY <1>4, <1>5, <1>6, <1>7 DEF Settled
<1>9. LedgerHolds(k)'
  BY <1>1, <1>5, <1>8, LedgerAssumption
  DEF LedgerHolds, SavesFit, MainIdle, Nothing, NoPayment
<1>10. QED
  BY <1>4, <1>9

=============================================================================

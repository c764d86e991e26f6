---------------------------- MODULE CashDispenser ----------------------------
(***************************************************************************)
(* Paying out the unspent change: the scripting proxy FundsService asks    *)
(* CashDispenserManager what it can give (canDispense), has it given       *)
(* (dispense), and waits for the signal dispensed().  The manager asks the *)
(* driver for notes of one unit at a time until the sum is reached or no   *)
(* unit can go on; what was given is taken off the change only then.       *)
(*                                                                         *)
(* One dispenser with several units.  Its driver works in a thread of its  *)
(* own: `job' is the request it holds, `queue' are its signals on the way  *)
(* to the main thread.  The manager knows the contents of a unit by its    *)
(* own count (m_CurrencyCashList, saved as the device parameter CashUnits),*)
(* the driver by another (m_unitData), and the notes really there are the  *)
(* stock.  The scenarios are scripts outside src/; this one waits for      *)
(* dispensed() before it does anything else with the change.               *)
(***************************************************************************)
EXTENDS ChangeLedger

CONSTANTS
    Units,         \* the units, 1..n
    Nominal,       \* the nominal of each
    MaxCount,      \* bound: notes in a unit
    MaxChange,     \* bound: the change to be paid out
    MaxFaults,     \* bound: failures of the device, wrong loads and stops
    MaxRefills,    \* bound: refills of a unit
    Repeats        \* of a command sent up to CommandMaxIteration times because its answer
                   \* is lost, how many the device may carry out

ASSUME DispenserAssumption ==
    /\ Nominal \in Seq(Nat \ {0})
    /\ Units = 1..Len(Nominal)
    /\ MaxCount \in Nat
    /\ MaxChange \in Nat
    /\ MaxFaults \in Nat
    /\ MaxRefills \in Nat
    /\ Repeats \in Nat \ {0}

VARIABLES
    count,      \* m_CurrencyCashList
    saved,      \* the same in the database
    unitData,   \* m_unitData of the driver
    stock,      \* the notes in the units
    down,       \* the driver reports an error
    failed,     \* m_FailedDispensers holds the dispenser
    job,        \* the request the driver's thread holds
    queue,      \* signals of the driver
    amounts,    \* m_Amounts
    available,  \* m_AvailableAmount of the scripting proxy
    saves,      \* device parameters and dispensed_note rows still to be saved
    booked,     \* the sum of dispensed_note
    stage,      \* where the scenario is
    given,      \* history: what the customers have taken out of the dispenser,
                \* but for
    untold,     \* history: the notes a reply of the driver has left out
    silent,     \* history: the driver has ended the request without dispensed()
    promised,   \* history: the sum last asked of dispense()
    handed,     \* history: all that has come out for it
    refills,
    faults,
    crashed

unitVars     == <<count, saved, unitData, stock>>
managerVars  == <<failed, amounts, available, saves, booked, stage>>
deviceVars   == <<down, job, queue>>
history      == <<given, untold, silent, promised, handed, refills, faults, crashed>>
vars == <<ledger, unitVars, managerVars, deviceVars, history>>

NoJob     == [unit |-> 0, items |-> 0]
NoAmounts == [toDispensing |-> 0, dispensed |-> 0]
Contents  == [Units -> 0..MaxCount]

\* One cancelled payment has left its money as change; the units are loaded,
\* perhaps not with as many notes as the operator has declared.
Init ==
    /\ created = 1
    /\ active = NoPayment
    /\ obj = Nothing
    /\ row = [p \in PaymentIds |-> Nothing]
    /\ change \in 1..MaxChange
    /\ changeRow = change
    /\ lost = 0
    /\ paidOut = 0
    /\ notes = [p \in PaymentIds |->
                   [e \in 0..MaxEncashments |-> IF p = 1 /\ e = 0 THEN change ELSE 0]]
    /\ encs = <<>>
    /\ writes = <<>>
    /\ torn = 0
    /\ count \in Contents
    /\ stock \in {s \in Contents : \A u \in Units : s[u] <= count[u]}
    /\ saved = count
    /\ unitData = count
    /\ down = FALSE
    /\ failed = FALSE
    /\ job = NoJob
    /\ queue = <<>>
    /\ amounts = NoAmounts
    /\ available = 0
    /\ saves = <<>>
    /\ booked = 0
    /\ stage = "idle"
    /\ given = 0
    /\ untold = 0
    /\ silent = FALSE
    /\ promised = 0
    /\ handed = 0
    /\ refills = 0
    /\ faults = (IF stock = count THEN 0 ELSE 1)
    /\ faults <= MaxFaults
    /\ crashed = FALSE

Idle == MainIdle /\ saves = <<>>

-----------------------------------------------------------------------------
(* What can be given: getItem_DataSet, getItem_Data, canDispense *)

\* The units that may serve a sum, by the counts c of the manager.
Usable(c, sum) ==
    {u \in Units : ~failed /\ ~down /\ c[u] # 0 /\ Nominal[u] <= sum}

\* The largest nominal first, as many of it as there are, then the next one: the
\* fold sets the smallest aside for the end.
CanDispense(c, sum) ==
    LET usable == Usable(c, sum)
        notesOf(v) == SumFunctionOnSet(c, {u \in usable : Nominal[u] = v})
        add(v, taken) == taken + v * Min({(sum - taken) \div v, notesOf(v)})
    IN MapThenFoldSet(add, 0, LAMBDA v : v, Min, {Nominal[u] : u \in usable})

\* Mutant: the smallest nominal is given first.
UnitForSmallest(c, sum) ==
    LET least == Min({Nominal[u] : u \in Usable(c, sum)}) IN
    Min({u \in Usable(c, sum) : Nominal[u] = least})

\* The unit that dispense() turns to: the first one of the largest nominal.
UnitFor(c, sum) ==
    LET best == Max({Nominal[u] : u \in Usable(c, sum)}) IN
    Min({u \in Usable(c, sum) : Nominal[u] = best})

-----------------------------------------------------------------------------
(* Saves of the device parameters and of dispensed_note *)

UnitsSave(c) == [table |-> "device_param", counts |-> c]
GivenSave(n) == [table |-> "dispensed_note", amount |-> n]

SaveUnits ==
    /\ saves # <<>>
    /\ Head(saves).table = "device_param"
    /\ saved' = Head(saves).counts
    /\ saves' = Tail(saves)
    /\ UNCHANGED <<ledger, count, unitData, stock, failed, amounts, available,
                   booked, stage, deviceVars, history>>

SaveGiven ==
    /\ saves # <<>>
    /\ Head(saves).table = "dispensed_note"
    /\ booked' = booked + Head(saves).amount
    /\ saves' = Tail(saves)
    /\ UNCHANGED <<ledger, unitVars, failed, amounts, available, stage,
                   deviceVars, history>>

SaveLedger ==
    /\ saves = <<>>
    /\ SaveChange
    /\ UNCHANGED <<unitVars, managerVars, deviceVars, history>>

-----------------------------------------------------------------------------
(* CashDispenserManager *)

\* dispense(sum) by the counts c, with q the signals on their way: the driver is
\* asked for notes of one unit; one it takes for empty answers at once.
Ask(c, sum, q) ==
    LET u == UnitFor(c, sum)
        items == Min({c[u], sum \div Nominal[u]})
    IN
    IF unitData'[u] = 0
    THEN /\ job' = job
         /\ queue' = Append(q, [signal |-> "dispensed", unit |-> u, items |-> 0])
    ELSE /\ job' = [unit |-> u, items |-> items]
         /\ queue' = q

Signalled(signal) ==
    /\ Idle
    /\ queue # <<>>
    /\ Head(queue).signal = signal

\* Mutant: more notes are taken off a unit than its count has.
ReducedUnchecked(u, items) == [count EXCEPT ![u] = @ - items]

\* handleSignal: the notes are taken off the count of their unit, and a unit
\* that runs out has the counts of all units sent to the driver.
Reduced(u, items) == [count EXCEPT ![u] = @ - Min({items, @})]
SentToDriver(c, u) == IF c[u] = 0 THEN c ELSE unitData

OnRejected ==
    /\ Signalled("rejected")
    /\ LET s == Head(queue)
           c == Reduced(s.unit, s.items)
       IN
       /\ count' = c
       /\ unitData' = SentToDriver(c, s.unit)
       /\ saves' = <<UnitsSave(c)>>
    /\ queue' = Tail(queue)
    /\ UNCHANGED <<ledger, saved, stock, down, job, failed, amounts, available,
                   booked, stage, history>>

\* Mutant: the number of the unit is not looked at.
OnAnyUnitEmpty ==
    /\ Signalled("unitEmpty")
    /\ count' = [u \in Units |-> 0]
    /\ queue' = Tail(queue)
    /\ UNCHANGED <<ledger, saved, unitData, stock, down, job, managerVars, history>>

\* onUnitEmpty sets the count, which the next save takes to the database.
OnUnitEmpty ==
    /\ Signalled("unitEmpty")
    /\ count' = [count EXCEPT ![Head(queue).unit] = 0]
    /\ queue' = Tail(queue)
    /\ UNCHANGED <<ledger, saved, unitData, stock, down, job, managerVars, history>>

\* onStatusChanged.
OnStatus ==
    /\ Idle
    /\ queue # <<>>
    /\ Head(queue).signal \in {"error", "ok"}
    /\ failed' = (Head(queue).signal = "error")
    /\ queue' = Tail(queue)
    /\ UNCHANGED <<ledger, unitVars, down, job, amounts, available, saves,
                   booked, stage, history>>

\* Mutant: only the last unit counts as given.
ServedLast(sum) == [toDispensing |-> amounts.toDispensing - sum, dispensed |-> sum]

\* Mutant: what has been given is not taken off what is to be given.
ServedTwice(sum) == [amounts EXCEPT !.dispensed = @ + sum]

\* m_Amounts after a unit has given this sum.
Served(sum) == [toDispensing |-> amounts.toDispensing - sum,
                dispensed    |-> amounts.dispensed + sum]

\* onDispensed: the next request while the rest can be served at all, else the
\* whole sum is reported and PaymentService takes it off the change.
OnDispensed ==
    /\ Signalled("dispensed")
    /\ LET s == Head(queue)
           c == Reduced(s.unit, s.items)
           sum == s.items * Nominal[s.unit]
           served == Served(sum)
       IN
       /\ count' = c
       /\ unitData' = SentToDriver(c, s.unit)
       /\ saves' = <<UnitsSave(c)>> \o (IF sum = 0 THEN <<>> ELSE <<GivenSave(sum)>>)
       /\ IF CanDispense(c, served.toDispensing) # 0
          THEN /\ Ask(c, served.toDispensing, Tail(queue))
               /\ amounts' = served
               /\ UNCHANGED <<stage, ledger>>
          ELSE /\ AmountDispensed(served.dispensed)
               /\ amounts' = NoAmounts
               /\ stage' = "idle"
               /\ queue' = Tail(queue)
               /\ job' = job
    /\ UNCHANGED <<saved, stock, down, failed, available, booked, history>>

-----------------------------------------------------------------------------
(* The scripting proxy and the scenario *)

\* FundsService::canDispense, asked about the whole of the change.
OfferChange ==
    /\ Idle
    /\ stage = "idle"
    /\ Leftover # 0
    /\ available' = CanDispense(count, Leftover)
    /\ stage' = IF available' = 0 THEN "idle" ELSE "offered"
    /\ UNCHANGED <<ledger, unitVars, failed, amounts, saves, booked,
                   deviceVars, history>>

\* FundsService::dispense of what canDispense has found; if none of it can be
\* given any more, dispensed(0) follows at once.
Dispense ==
    LET sum == available IN
    /\ Idle
    /\ stage = "offered"
    /\ available' = 0
    /\ UNCHANGED unitData
    /\ IF Usable(count, sum) = {}
       THEN /\ amounts' = NoAmounts
            /\ stage' = "idle"
            /\ UNCHANGED <<job, queue>>
       ELSE /\ amounts' = IF amounts = NoAmounts
                          THEN [amounts EXCEPT !.toDispensing = sum] ELSE amounts
            /\ Ask(count, sum, queue)
            /\ stage' = "waiting"
    /\ promised' = IF stage' = "waiting" THEN sum ELSE 0
    /\ handed' = 0
    /\ UNCHANGED <<ledger, count, saved, stock, down, failed, saves, booked,
                   given, untold, silent, refills, faults, crashed>>

\* The customer leaves what could not be given.
GiveUpChange ==
    /\ Idle
    /\ stage = "idle"
    /\ ResetChange
    /\ UNCHANGED <<unitVars, managerVars, deviceVars, history>>

\* setCashUnitsState from the service menu: a unit is filled and declared, which
\* the operator sees done when the counts are saved.
Refill(u) ==
    /\ Idle
    /\ stage = "idle"
    /\ refills < MaxRefills
    /\ refills' = refills + 1
    /\ stock' = [stock EXCEPT ![u] = MaxCount]
    /\ count' = [count EXCEPT ![u] = MaxCount]
    /\ saved' = count'
    /\ unitData' = count'
    /\ UNCHANGED <<ledger, managerVars, deviceVars, given, untold, silent, promised,
                   handed, faults, crashed>>

-----------------------------------------------------------------------------
(* The driver *)

\* k notes come out for the request and r go to the reject bin.
TakenOut(k, r) ==
    /\ job' = NoJob
    /\ stock' = [stock EXCEPT ![job.unit] = @ - k - r]
    /\ handed' = handed + k * Nominal[job.unit]

\* Of k notes that came out the driver knows of `told'.
Told(k, told) ==
    /\ given' = given + told * Nominal[job.unit]
    /\ untold' = untold + (k - told) * Nominal[job.unit]

\* Mutant: a driver that knows of no note does not answer.
PerformedSilently(k, told, r, empty) ==
    LET u == job.unit IN
    /\ TakenOut(k, r) /\ Told(k, told)
    /\ unitData' = IF empty THEN [unitData EXCEPT ![u] = 0] ELSE unitData
    /\ queue' = queue
         \o (IF empty THEN <<[signal |-> "unitEmpty", unit |-> u]>> ELSE <<>>)
         \o (IF r = 0 THEN <<>> ELSE <<[signal |-> "rejected", unit |-> u, items |-> r]>>)
         \o (IF told = 0 THEN <<>>
             ELSE <<[signal |-> "dispensed", unit |-> u, items |-> told]>>)
    /\ UNCHANGED silent

\* performDispense to its end: a unit that could not serve the request is reported
\* empty, then the rejected notes, then the notes given that it was told of.
Performed(k, told, r, empty) ==
    LET u == job.unit IN
    /\ TakenOut(k, r) /\ Told(k, told)
    /\ unitData' = IF empty THEN [unitData EXCEPT ![u] = 0] ELSE unitData
    /\ queue' = queue
         \o (IF empty THEN <<[signal |-> "unitEmpty", unit |-> u]>> ELSE <<>>)
         \o (IF r = 0 THEN <<>> ELSE <<[signal |-> "rejected", unit |-> u, items |-> r]>>)
         \o <<[signal |-> "dispensed", unit |-> u, items |-> told]>>
    /\ UNCHANGED silent

\* The notes come out, as many as there are.
Give ==
    /\ job # NoJob
    /\ ~down
    /\ LET k == Min({job.items, stock[job.unit]}) IN
       Performed(k, k, 0, k < job.items)
    /\ UNCHANGED <<ledger, count, saved, managerVars, down, promised, refills,
                   faults, crashed>>

DeviceFault ==
    /\ job # NoJob
    /\ ~down
    /\ faults < MaxFaults
    /\ faults' = faults + 1
    /\ UNCHANGED <<ledger, count, saved, managerVars, down, promised, refills, crashed>>

\* One note goes to the reject bin.
GiveAndReject ==
    /\ DeviceFault
    /\ job.items < stock[job.unit]
    /\ Performed(job.items, job.items, 1, FALSE)

\* The device jams before all the notes are out; its poll may see an error later.
Jam ==
    /\ DeviceFault
    /\ \E k \in 0..Min({job.items, stock[job.unit]}) \ {job.items} :
           Performed(k, k, 0, FALSE)

\* What may come out when the answer to a request is lost.
MayComeOut == 0..Min({Repeats * job.items, stock[job.unit]})

\* The answer is lost after notes came out: the bill dispenser does not count a
\* pack without an answer; the hopper reports the last status it could read, which
\* is of the last of the commands it was sent.
LoseAnswer ==
    /\ DeviceFault
    /\ \E k \in MayComeOut \ {0} : \E told \in 0..Min({job.items, k - 1}) :
           Performed(k, told, 0, FALSE)

\* The hopper is left without dispensed(): with an error status, after a failed
\* command before that of dispensing, or after that one, carried out or not.
EndedSilently(k) ==
    /\ TakenOut(k, 0) /\ Told(k, 0)
    /\ silent' = TRUE
    /\ UNCHANGED <<unitData, queue>>

LoseCommand ==
    /\ DeviceFault
    /\ \E k \in MayComeOut : EndedSilently(k)

\* A device that is down gives nothing, the hopper without a word.
GiveNothing ==
    /\ job # NoJob
    /\ down
    /\ Performed(0, 0, 0, FALSE) \/ EndedSilently(0)
    /\ UNCHANGED <<ledger, count, saved, managerVars, down, promised, refills,
                   faults, crashed>>

Fail ==
    /\ ~down
    /\ faults < MaxFaults
    /\ faults' = faults + 1
    /\ down' = TRUE
    /\ queue' = Append(queue, [signal |-> "error"])
    /\ UNCHANGED <<ledger, unitVars, managerVars, job, given, untold, silent, promised,
                   handed, refills, crashed>>

Recover ==
    /\ down
    /\ down' = FALSE
    /\ queue' = Append(queue, [signal |-> "ok"])
    /\ UNCHANGED <<ledger, unitVars, managerVars, job, history>>

\* The program stops; a request the device holds may still be carried out.
Crash ==
    /\ faults < MaxFaults
    /\ faults' = faults + 1
    /\ crashed' = TRUE
    /\ LedgerCrash
    /\ IF job = NoJob
       THEN UNCHANGED <<stock, given>>
       ELSE \E k \in 0..Min({job.items, stock[job.unit]}) :
              /\ stock' = [stock EXCEPT ![job.unit] = @ - k]
              /\ given' = given + k * Nominal[job.unit]
    /\ count' = saved
    /\ unitData' = saved
    /\ down' = FALSE
    /\ failed' = FALSE
    /\ job' = NoJob
    /\ queue' = <<>>
    /\ amounts' = NoAmounts
    /\ available' = 0
    /\ saves' = <<>>
    /\ stage' = "idle"
    /\ silent' = FALSE
    /\ UNCHANGED <<saved, booked, untold, promised, handed, refills>>

SaveNext == SaveUnits \/ SaveGiven \/ SaveLedger
Manager  == OnRejected \/ OnUnitEmpty \/ OnStatus \/ OnDispensed
Scenario == OfferChange \/ Dispense \/ GiveUpChange \/ \E u \in Units : Refill(u)
Driver   == Give \/ GiveAndReject \/ Jam \/ LoseAnswer \/ LoseCommand \/ GiveNothing
              \/ Fail \/ Recover

Next == SaveNext \/ Manager \/ Scenario \/ Driver \/ Crash

\* The event loop of the program goes on, and performDispense comes to its end.
Fairness ==
    /\ WF_vars(SaveNext)
    /\ WF_vars(Manager)
    /\ WF_vars(Give \/ GiveNothing)

Spec == Init /\ [][Next]_vars /\ Fairness

-----------------------------------------------------------------------------
(* Properties *)

Signals ==
    [signal : {"error", "ok"}]
    \cup [signal : {"unitEmpty"}, unit : Units]
    \cup [signal : {"rejected", "dispensed"}, unit : Units, items : 0..MaxCount]

TypeOK ==
    /\ LedgerTypeOK
    /\ {count, saved, unitData, stock} \subseteq Contents
    /\ {down, failed, crashed, silent} \subseteq BOOLEAN
    /\ job \in [unit : Units, items : 1..MaxCount] \cup {NoJob}
    /\ queue \in Seq(Signals)
    /\ amounts \in [toDispensing : Nat, dispensed : Nat]
    /\ {available, booked, given, untold, promised, handed} \subseteq Nat
    /\ saves \in Seq([table : {"device_param"}, counts : Contents]
                     \cup [table : {"dispensed_note"}, amount : Nat])
    /\ stage \in {"idle", "offered", "waiting"}
    /\ faults \in 0..MaxFaults
    /\ refills \in 0..MaxRefills

\* No jam, rejected note, wrong load or stop of the program makes the terminal hand
\* out more than the customers have put in: what comes out beyond it are notes that
\* a reply of the driver has left out.
NeverOverpays == given <= AllNotes

\* While the program runs, what has been given and told of, however many replies and
\* units it took, is taken off the change and is in dispensed_note once, no less for
\* jams, rejected notes, empty units and lost answers.
PaidOutIsGiven ==
    (~crashed /\ Idle /\ stage = "idle") => (paidOut = given /\ booked = given)

\* canDispense keeps its word: with honest counts and a device that works,
\* exactly the sum it has found is given, unit after unit.
PromiseKept == (faults = 0 /\ stage = "idle") => handed = promised

\* The recorded contents of a unit never fall below the notes in it, so no note
\* is forgotten in a unit taken for empty, whatever stops in between.
NoNoteForgotten ==
    \A u \in Units : saves = <<>> => (count[u] >= stock[u] /\ saved[u] >= stock[u])

\* dispensed() comes in the end, unless the program is started anew or a driver has
\* ended its request without it.
DispensingEnds == stage = "waiting" ~> stage = "idle" \/ silent

=============================================================================

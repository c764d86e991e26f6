# Formal model of the payment kiosk

TLA+ modules, TLC models and TLAPS proofs about the self-service payment
terminal of this repository. A kiosk takes cash from a client and passes it on
to an operator through a processing server. What must not happen is that the
client pays twice, that the money disappears, or that a receipt says "paid" when
the operator has nothing; several threads, a database, restarts and a network
that loses answers make that hard. The project starts with that core.

## 1. The system

| Part | State | Operations | Talks to |
|---|---|---|---|
| Payment (`src/modules/Payment`, `plugins/Payments/Humo`) | parameters with their "updated" marks: status, step, session, priority, tries | `process`, `perform_Step`, `cancel`, `remove`, `serialize`, `restore`; requests CHECK, PAY, STATUS | server, `savePayment` of its factory |
| `PaymentService` | active payment, change payment, offline payment id, command queue, timer, three locks | create, process, update, stop, cancel, deactivate, queue turn, force / remove commands, change, encashment | scripting proxy, database, cash managers (signals), `RemoteService` (commands) |
| Payment database (`DatabaseUtils`) | tables payment, payment_param, payment_note, change, encashment | save in a transaction, queue query, notes, balance, encashment, backup | everybody, under one mutex |
| Cash acceptor manager | context: payment, sum so far, maximum, enabled validators | enable, disable, escrow, stacked, status | drivers, PaymentService (`amountUpdated`) |
| Cash dispenser manager, funds service | units with counts, sum to dispense and dispensed | dispense, dispensed, rejected, unit empty | drivers, PaymentService (`dispensed`) |
| Scenario engine, scripting proxies, GUI | current scenario | external scripts call the proxies | PaymentService, cash managers |
| Remote service, update engine, Updater | command ids and states, update files | receive a command, report, download, deploy | server, PaymentService, watch service |
| Watch service, its client, message queue | modules, their pings, restart counters | register, ping, restart, shut down | all programs of the terminal |
| Network service and task manager | connection, task queue | dial, check, transfer, time out | request sender |
| Device service and manager, drivers | device instances and holders | acquire, release, detect | cash, printing |
| Printing, scheduler, terminal, event, settings, crypt services | receipts, task times, statuses, configuration | print, retry, schedule, restart | |

What makes them correct, and where it is hard:

* **Payment processing.** A payment takes money at most once; what took money is
  in the database before it is asked for; "completed" is true; a payment left
  alone ends. Hard: the worker of the scenario, the payment thread and remote
  commands work on one object; the program stops between the request and the
  record; answers are lost; a save may fail or mix two states.
* **Change and cash.** Every accepted note is in exactly one payment or in the
  change, nothing is lost or doubled by a transfer between two payments, by a
  note that arrives late or by a dispenser that stops halfway.
* **Encashment.** Every payment and note belongs to exactly one encashment, also
  one saved while the encashment runs.
* **Supervision, update, devices, scheduling.** A module that hangs is restarted
  and one being stopped is not; an update is deployed whole or not at all; a
  device has one holder; a task is not lost by a restart.

`PROJECT.json` lists every component with its status, and under "hazards" the
places in the code where these things may go wrong, with the properties that
cover them or the planned module that will.

## 2. Modules

| Module | Content |
|---|---|
| `HumoServer` | the processing server as the client reads it: for each request the possible (state afterwards, answer) pairs |
| `PaymentProcessing` | one payment, the three processes that touch it, its row, restarts; properties; inductive invariant |
| `PayOnce` | abstract specification: what payment processing promises the client |
| `ChangeLedger` | the money of the terminal: payments, change, notes, encashments, and the rows they are saved in |
| `CashAcceptor` | the acceptors and `CashAcceptorManager`, composed with the ledger |
| `CashDispenser` | the dispenser, `CashDispenserManager` and `FundsService`, composed with the ledger |
| `UpdateEngine` | description, download, backup, deploy and roll back of an update (`Updater`) |
| `WatchService` | the modules of the terminal as the watch service starts, watches and closes them |
| `SoftwareUpdate` | `UpdaterApp` with the two modules above: an update of a running terminal |
| `MC...` | constants, symmetry and instances for TLC |
| `PaymentProcessing_proofs` | payment processing in any order of calls: types, what is complete was sent, what is online stays with the worker |
| `PaymentOnce_proofs` | a waiting scenario: paid once, recorded before it is paid, complete means paid, the refinement of `PayOnce` |
| `SumLemmas` | folds and sums over finite sets |
| `ChangeLedger_proofs` | what each operation of the ledger does to types, notes and money |
| `CashAcceptor_proofs` | the acceptors over the ledger: types, notes, money, who may be on |
| `CashDispenser_proofs` | the dispenser over the ledger: types, what was given and what was booked |
| `UpdateEngine_proofs` | the inductive invariant of the update engine, type correctness included |
| `SoftwareUpdate_proofs` | the same in the terminal, and the terminal itself: who runs while files are replaced, how the service quits |

### PaymentProcessing: state and code

| Variable | In the code |
|---|---|
| `row`, `rowSig` | the row of table `payment` with its `payment_param` rows; column `signature` |
| `mem` | the `IPayment` objects: the one `createPayment` made and the copies `getPayment` loads for the worker and for the payment thread |
| `active` | `m_ActivePayment` holds the object |
| `use` | the `shared_ptr` a job of the worker or the payment thread holds (`m_OfflinePayment` for the latter) |
| `pc` | where the main thread ("ui"), the worker ("worker", `processPaymentStep` run by `QtConcurrent`) and the payment thread ("thread", `onProcessPayments`) are |
| `answer` | `SERVER_ERROR` / `SERVER_RESULT` of the last request, by what the code distinguishes |
| `sig` | the signature `savePayment` has computed and not yet passed to the database |
| `held` | the session `perform_Step(DataCheck)` keeps in a local variable |
| `server` | the attempts as the server has them |
| `faults` | restarts and failed writes so far (bound) |

A step of the model is what happens between two points at which others can see
or change something: a request is one step and the handling of its answer
another; a save is two, the signature (`createSignature`) and the write
(`DatabaseUtils::savePayment`, one transaction under one mutex). So
`Payment::process` is `SendCheck`, `CheckAccepted`, `Sign`, `WriteBeforePay`,
`SendPay`, `PayAnswered`, or `SendStatus` with the `Status...` actions, or
`CheckExists` with `FoundComplete` / `FoundOpen`. The same operators, with the
process as parameter, are run by the worker after `WorkerPays` and by the
payment thread after `ClaimOffline`. `Saved` keeps the marks of updated
parameters: status, session, priority and tries are columns and always written,
the step is a parameter and written only when marked.

`UiWaits` says which scenarios are considered. The scripts that drive a payment
are not in the repository. `UiWaits = TRUE` is a scenario that calls nothing on a
payment while a step of it runs (it waits for `stepCompleted`), and changes it no
more once it has handed it over; `UiWaits = FALSE` is any order of calls the
proxy accepts.

`Commands` are the jobs others leave to the payment thread: "force" and "remove"
from the server through `RemoteService`, "update" from `updatePaymentFields`.

### Server

`HumoServer` is external. It assumes what the client relies on: a second PAY of a
session has no effect, and a PAY whose answer was lost has taken effect, or never
will, by the time a later request is answered. Without the second no client that
retries could pay only once. `"net"` (no usable answer) is possible for every
request, before or after the server acted.

### ChangeLedger: state and code

| Variable | In the code |
|---|---|
| `active`, `obj` | `m_ActivePayment`; its parameters AMOUNT_ALL and CHANGE |
| `row` | the same parameters in the rows of the payments |
| `change`, `changeRow` | `m_ChangePayment` (a payment of its own), and its row |
| `lost` | rows in the state LostChange |
| `paidOut` | what `onAmountDispensed` has taken off the change |
| `notes` | table `payment_note`: the sum by payment and encashment (`ejection`), 0 for notes still inside |
| `encs` | table `encashment` |
| `writes` | the saves the running handler has still to make |

Every operation of the ledger runs on the main thread. It changes the objects in
one step and leaves its saves in `writes`; they are made one by one, each a
transaction, and `LedgerCrash` may come between two. No other handler runs before
the last save (`MainIdle`). At the next start nobody owns the change, and the
payment thread turns its row into LostChange (`processPaymentInternal`).

`torn` is a history: `movePaymentToChange` saves the change before it empties the
payment, so a stop in between leaves the money in two rows. `Backed` allows that
one window and no other.

### CashAcceptor

`dev` is the driver of each acceptor and what is in it: switched on, told to
switch off (`stop`), failed, a note in escrow or on its way to the stacker.
`queue` are its signals on their way to the main thread; `ctx` is `m_PaymentData`.
`Enable`, `Disable`, `OnEscrow`, `OnStacked`, `OnError` and `OnDisabled` are the
manager's handlers, with everything they call: `AmountUpdated` of the ledger is
part of `OnStacked`.

The scripts that use the manager are not in the repository. `stage` is the
discipline their interface asks for: change left over is used or given up before
money is taken, a payment is left after `disabled()`, acceptance is started again
when the signals sent before have been handled, encashment is made with no payment
open. What goes wrong outside it is not claimed to be right.

### CashDispenser

The sum is promised by `CanDispense` (largest nominal first), asked for unit by
unit (`Ask`, with `UnitFor`), and reported when nothing more can be given
(`OnDispensed`). There are three counts of each unit: `count` of the manager,
`saved` in the database, `unitData` of the driver; `stock` is what is in it. A wrong
load (fewer notes than declared) counts as a fault. `Performed` is the end of
`performDispense` of a driver: unit empty, rejected, dispensed, in this order.
Amounts are whole: the loop of `canDispense` is a fold over nominals.

What a driver reports is what it was told, not what came out. `Give`, `GiveAndReject`
and `Jam` are replies that say all of it. `LoseAnswer` is a reply lost after notes came
out: the bill dispenser does not count that pack (`PuloonCashDispenser.cpp:253-279`), the
hopper reports the last status it could read (`SuzoHopper.cpp:188-194`), and it repeats a
command without an answer, each of which the device may carry out (`Repeats`). With
`LoseCommand`, and on a device that is down, the hopper ends the request without
`dispensed()` (`SuzoHopper.cpp:159-186`). `told` and the notes that came out are kept
apart in the histories `given` (what the driver was told of) and `untold` (what a reply
left out); `handed` is all that came out for the sum `promised` last; `silent` says that
a request was left without an answer. The scenario then waits for ever: it dispenses
again only after `dispensed()`.

### UpdateEngine, WatchService, SoftwareUpdate

A file is its version, a number; 0 is no file. `Releases` are the distributions an
update command may name, in any order and as often as it likes: for each the version of
every file, 0 for a file it does not list. `deploy()` is a sequence of parts
(`stage`), each over a set of files (`left`): back up what will be removed, delete
it, install, post actions; after an exception undo and restore. The order of files
within a part is open. `Stop` may come between any two files; nothing continues a
deploy that was cut off, the next update starts from what it left.

`saved` are the distributions whose configuration is stored (`saveUpdateConfiguration`
keeps the others of a partial update); 0 stands for one from before. A terminal that
has none stores the first it is told of when it is described (`getComponents`), another
one only when it is deployed.

A try of a download brings new data or not (`line`), and every try with new data
postpones the limit, as often as the line and the server will have it
(`downloadComplete`). A file that cannot be read for its checksum leaves the download
without a task ("stalled", `downloadComponents`). Only the updater's own timer of four
hours ends these two (`TooLong`).

Three histories serve the properties: `held`, the files deploys have found (those of
`skip_existing` and optional components left out); `deployed`, the distribution whose
deploy went through last; `torn`, that one was cut off since, or rolled back with errors.

In `WatchService` time is what has run out: a module is `quiet` when its kill
timeout has passed since it answered, `slow` when the first ping timeout has. Single
shot timers are counted: `retries` (closeModules), `reinits` (reinitialize),
`revivals` (checkAutoStartModules). `Checked` is a whole pass of `onCheckModules`
over the modules in the order of the map; `CloseModules` a whole
`doCloseModules` with the closing action. The command stack of a module is
left out because it is empty again at the end of every handler that fills it.

`SoftwareUpdate` composes them: `app` is the updater that has run itself again from
the temporary folder and is no child of the service any more, `link`, `inbox` and
`outbox` its connection. The dialogue is: download, `close_module` of the
kiosk, wait for it with the error timer of fifteen minutes, `exit` of the service,
and when the connection is lost `deploy()`; at the end the service is launched.
`FailStopClient` and `ErrorExit` are two events ten milliseconds apart: "leaving"
is the kiosk that closes in between.

### Bounds and abstractions, by name

* One payment. Sessions: two or three; `createPaymentSession` gives a number
  nobody has used, and a number that was at most checked and that nothing refers
  to any more is used again (`Fresh`, `Renewed`), so the number of attempts is not
  bounded. Three numbers let two attempts with a fresh one beside them exist.
* `TriesLimit = 0` in the runs (25 in the code, `CPayment::TriesLimit`); the count
  stops one above the limit (`Counted`). The comparison is with the old count, so
  0 gives "below", "at" and "above". It also lets transport errors, which set the count
  to 1 and no further, reach the limit: `ComesToAnEnd` with a limit they do not reach
  is not checked (`core_live` with 1 has 1.2 million states).
* `MaxFaults`: restarts and failed writes together.
* One worker step at a time.
* Queue timing (`next_try_date`, suspension by 15 minutes, network state) is left
  open: `Pick` may happen at any moment the row is in the queue.
* The `Cheated` save inside `getPayment` is one step; `m_OfflinePaymentLock` is
  the guard of `UiUpdate`, not a lock.
* Amounts are not modelled in `PaymentProcessing`: change payments and the
  `LostChange` branch of `processPaymentInternal` are in the change ledger.
* Provider settings are valid (every request has its URL).
* `cash_in`: two payments, two encashments, three notes, a bill acceptor and a coin
  acceptor, a maximum that a second note passes, one device failure,
  timeout or stop. Two payments are needed for a note that could reach the wrong
  one, two acceptors for a maximum reached while the other has a note.
* `cash_out`: units of different nominals (3 and 2, so that the largest first is not always the best) with counts up to
  two, a change of up to seven, two faults, one refill. A device that keeps answering "nothing given" would be asked for ever;
  the faults bound it. A command is carried out up to three times (`CommandMaxIteration`).
* `update`: the shipped configuration (kiosk: autostart, start priority 1, close
  priority 1, at most 3 starts; updater: 3, 2, 1), one update command, one command
  of others, one fault; one distribution with a file replaced, one removed and an
  optional one. Two tries for each download (18 in the code).
* `update_engine`, `finding_rollback`: any number of update commands, two distributions, a
  library that changes in both, a module that the first removes and the second brings
  again, a settings file, an optional one; two failing file operations or stops. Two
  distributions are needed for one that is cut off over another, and two faults for a
  deploy cut off twice or a roll back that fails.
* Processes start within a step, as QProcess does on Windows.

## 3. Runs

| Run | Instance | Shows |
|---|---|---|
| `core_force` | offline provider, waiting scenario, force command, one fault; 915 thousand states | `AtMostOnePaid`, `Recorded`, `CompletedIsPaid`, `PayIsRecoverable`, refinement of `PayOnce` (`ImplementsPayOnce`), `TypeOK` |
| `core_remove` | remove and update commands; 857 thousand | `AtMostOnePaid`, `Recorded`, and `IInv`, the invariant of the proofs |
| `core_online` | provider with `payOnline`; 82 thousand | `OnlyWorkerPays`: the payment thread never takes money for it; `Recorded` |
| `core_free` | any order of calls, one session; 1.7 million | `CompletedIsSent`: completed only after a PAY. The only run in which the recheck after `SessionAlreadyExist` completes a payment (one session, two processes) |
| `core_live` | fairness, one fault; 171 thousand | `ComesToAnEnd` |
| `cash_in` | acceptors and ledger with a scenario, failures, stops, encashment; 314 thousand | `Backed`, `Conserved`: no money in two places, none lost; `NotesCollectedOnce`, `CollectedStays`: each note in one encashment; `AmountIsFinal`, `DisabledIsOff`, `StopsAtMaximum`; `StoppingEnds` |
| `cash_out` | dispenser and ledger with jams, rejects, lost answers and commands, wrong loads, a stop, a refill; 115 thousand | `NeverOverpays`, `PaidOutIsGiven`, `PromiseKept`, `NoNoteForgotten`; `DispensingEnds` |
| `update_engine` | the engine alone, two distributions in any order, failing files, stops; 780 thousand | `NothingLost`, `RestoresReplaced`, `DeployedStands`; `EngineInv`, the invariant of the proofs; `DownloadEnds` |
| `update` | kiosk, watch service, updater, a reboot or restart by others, a hang, a crash, a loss of power; 79 thousand | `DeployAloneUnlessRestarted`, `QuitsAfterClosing`; `KioskReturns`, `UpdaterEnds` |
| `finding_double`, `finding_cheated`, `finding_rollback` | smallest instance with the trace | see Findings |

Deadlock is not checked: a payment that has been settled and left leaves nothing
to do, and so do a terminal whose notes are all inserted, a change that is paid
out, and a service that was told to stop.

`PayIsRecoverable` is checked without the remove command: a remove that arrives
between CHECK and PAY of the worker leaves the row Deleted while PAY is sent (the answer
of PAY takes that back; see the limits for the case in which nothing does).

**Fairness** (`core_live`). Weak fairness of the payment thread's own steps: its
timer is started again at the end of each `onProcessPayments` and the thread runs
nothing else. Strong fairness for its requests: an answer other than a transport
error arrives if the request is sent again and again, and STATUS gives a result
the code knows. The scenario and the worker need no fairness because the property
speaks of payments the scenario has left, and in `UiWaits` both are done then. The
property allows one escape, `NoSessionLeft`: the server refuses CHECK so often,
each with a number still referred to, that the finite set of numbers runs out.

**Fairness** (cash). Weak fairness of the main thread's saves and of the handlers
of signals (an event loop takes every event posted to it), of a driver that has
begun to stack, return a note or switch off, and of `performDispense`, which comes to its
end: with a report, or without one when a command fails or the device is down, which
`DispensingEnds` therefore allows (`silent`). Nobody has to feed a note, to touch the screen, or to repair a device.

**Fairness** (`update`). Weak fairness of the updater's steps (its queued slots, the
network task that completes with or without error, its timers, that of four hours
included), of the service's timers and messages, of modules that ping or close when told, and of a machine
that starts again after a reboot. Not of commands, hangs, crashes or loss of power. A
kiosk that hangs is noticed by the check and killed: that is what `KioskReturns` is
about. It leaves out two cases, both real: a restart command of others in the course
of an update, after which two closing rounds may run and the second one may quit the
service for good, and the kiosk that closes just when the updater gives up waiting
("left"), after which the service exits and nobody launches it.

## 4. Findings

Each is a run that must fail, with TLC's trace.

1. `finding_double`: processing online and then offline before the step ends puts
   the worker and the payment thread into `Payment::process` of one object; the
   save before PAY ("to prevent doubling", `Payment.cpp:393`) does not prevent
   two sessions being paid. Nothing in `processPayment` refuses the second call;
   only a scenario that waits does.
2. `finding_cheated`: `savePayment` signs first and reads the object again under
   the database mutex; `deactivatePayment` and the end of the payment thread's
   turn interleave, and an honest payment becomes `Cheated` when it is next
   loaded.
3. `finding_rollback`: a deploy that fails deletes all new files and restores the
   backup; a file of a component with `skip_existing` or `optional` that was on
   the disk belongs to the first and not to the second, and is gone. The
   documentation promises an installation "with rollback capability".

Not a finding of its own, but a case the properties of `update` leave out
(`RestartedMeanwhile`): the updater takes a lost connection for the end of the watch
service. A restart of the service by another client loses it too, the service starts
the kiosk, and the files are replaced under it; `DeployAlone` alone does not hold.

Nor are two things the dispenser's drivers do. An answer lost after notes came out makes
`dispensed()` report fewer of them, and `onDispensed` asks for what seems to be missing
again: more comes out than `dispense` was to give, and than was put in. And a hopper whose
command fails emits neither `dispensed()` nor `error()`, so that the payout waits for
ever. The properties of `cash_out` are stated for what is left: `NeverOverpays` and
`PaidOutIsGiven` speak of the notes the driver was told of (`given`), `DispensingEnds`
allows a request that was left in silence (`silent`).

## 5. Proofs

TLAPS, for every value of the constants that satisfies the named assumptions
(`SessionAssumption`, `LimitAssumption`, `OptionAssumption`, `LedgerAssumption`,
`AcceptorAssumption`, `DispenserAssumption`, `EngineAssumption`,
`ConfigurationAssumption`, `UpdateAssumption`; TLC evaluates each in a run). A
hypothesis on top of them is part of the theorem:

| Theorem | States | Hypothesis |
|---|---|---|
| `PaymentProcessing_proofs`: `TypeCorrect` | `TypeOK` | |
| `NotCompleteUnsent` | `CompletedIsSent` | none: any order of calls |
| `OnlineStaysWithWorker` | `OnlyWorkerPays` | `PayOnline`, what it is about |
| `PaymentOnce_proofs`: `Invariant`, `PaidOnce`, `PaidIsRecorded`, `CompleteMeansPaid` | `IInv`, `AtMostOnePaid`, `Recorded`, `CompletedIsPaid` | `UiWaits` |
| `ProcessingImplementsPayOnce` | `ImplementsPayOnce`: `Spec => Promise!Spec` | `UiWaits` |
| `PaidCanBeRecovered` | `PayIsRecoverable` | `UiWaits`, no remove command (which may mark the row Deleted before PAY is sent) |
| `CashAcceptor_proofs`: `TypeCorrect`, `DisabledMeansOff` | `TypeOK`, `DisabledIsOff` | |
| `EveryNoteCollectedOnce`, `CollectedNotesStay` | `NotesCollectedOnce`, `CollectedStays` | |
| `RowsAreBacked`, `MoneyConserved` | `Backed`, `Conserved` | |
| `EveryNoteBooked`, `OneNotePastMaximum` | `AmountIsFinal`, `StopsAtMaximum` | |
| `CashDispenser_proofs`: `DispenserTypes`, `NeverHandsOutMore`, `PayoutIsRecorded`, `NotesAreKnown` | `TypeOK`, `NeverOverpays`, `PaidOutIsGiven`, `NoNoteForgotten` | |
| `WholeOfferIsGiven` | `PromiseKept` | |
| `SoftwareUpdate_proofs`: `TerminalTypes`, `ServiceQuitsLast` | `UpdateTypeOK`, `QuitsAfterClosing` | |
| `FilesAreReplacedAlone` | `DeployAloneUnlessRestarted` | `Updater \notin AutoStart`, as `watchdog.ini.in:18` ships it |
| `EngineInvariantInTerminal`, `NothingIsLost`, `FailedDeployRestores`, `DeployedVersionStands` | `EngineInv`, `NothingLost`, `RestoresReplaced`, `DeployedStands` | |
| `UpdateEngine_proofs`: `EngineInvariant` | `EngineInv` under `EngineSpec` | |

**Payment.** `AtMostOnePaid` alone is not inductive: a second attempt could be
under way when the first takes money. `IInv` adds:

* `Holding`: which object a process holds; a copy of its own only when the
  scenario has left the payment.
* `Waiting`, `Turns`: at most one process is inside `Payment::process`. While the
  payment is active its priority says whose turn it is (the worker's while it is
  Online, the payment thread's afterwards), and after the scenario has left it the
  worker is done. This is where `UiWaits` and the priority test of
  `processPaymentInternal` are used.
* `Untouched`: the number check puts a temporary session into the payment only
  while no session of it has money.
* `Agreed`: the session that has money is the one in the row and in every live
  object, at the second step. So whoever loads or holds the payment asks for its
  status and does not start anew.
* `Attempt`: from the answer to CHECK to PAY nothing has been taken, and at PAY
  the row has the step and the session. This is the save before PAY.

Every action preserves `IInv` (one lemma per action or group, `Once...` in
`PaymentOnce_proofs`); the interesting ones are `OncePay` (money is taken: `Agreed`
from `Attempt`), `OnceStatus` (a status that says "not paid" lets the attempt start
anew only because no session has money) and `OnceCrash` (what remains is the row).
TLC checks `IInv` in `core_remove`.

A verdict is true because of where it comes from. `Truthful`: an answer that makes
the kiosk take a payment for complete was given for a session PAY had reached, or
that was paid. Together with the types it gives `CompletedIsSent` for any scenario:
only `SaysComplete` answers complete an object (`Verdict...` lemmas), and the server
never takes back what was sent. "Sent" is not "paid": after `SessionAlreadyExist`
the recheck takes any session at or beyond the second step for complete. `Ordered`
shows that with a waiting scenario this never happens by mistake: CHECK is refused
as known only if PAY has reached none, so the recheck finds nothing sent. `Verdict`
is the conjunction, with `SomeCompleted => Paid`.

Refinement. `taken` of `PayOnce` is the set of sessions that have, or may still get,
the money, and `verdict` is read off the row. PAY maps to `Take` (allowed because
`AtMostOnePaid'`), the server's decision to `Settle` or `Refuse`, a write of the row to
`Decide` (allowed because of `Verdict`), all other steps to a stutter. `OnTheWay`, for
`PayIsRecoverable`, follows a payment from CHECK to PAY: its object stays to be
processed, and at PAY so is the row.

**Cash.** `ChangeLedger_proofs` says what each operation of the ledger does, so that
the two components that use it only have to show which operation a step performs
(`StepIs`, `DispenserStep`...).

* Notes. `NotesCollectedOnce` and `CollectedStays` need `CollectedFirst`: every payment
  with collected notes is older than every payment with notes inside, than the active
  one and than the one whose note is being saved. `Encash` stamps every note of the
  first payment with a note inside and of all later ones; by `CollectedFirst` none of
  these has been collected before.
* Money. `LedgerHolds(g)`: what rows, change, lost change and payouts hold, with the
  saves still outstanding, is the sum of the notes less `g`. The shape of the saves
  (`SavesFit`) says which sum each moment between two saves has. `Backed` is the
  case of any `g`, `Conserved` that of `g = 0`; only a stop makes a gap.
* Acceptors. `OnTakesPart`: one that is on takes part and has not told that it is off,
  and acceptors take part only from `Enable` to `disabled(p)`. `StageFits`: the change
  in the object is the change there is. From them `DisabledIsOff`, and that the
  scenario's operations find the ledger as they need it.
* While nothing fails (`faults = 0`), `Calm` says in which order the signals of an
  acceptor come: no error, nothing after `disabled()` but `disabled()` again, and from
  one with escrow a note only after what became of the note before has been reported.
  `Tally` splits the booked notes of a payment among the acceptors: what one has taken
  is its share and one nominal for each `stacked` signal still in its queue; no share
  exceeds the sum the manager goes by, and the acceptor that is stacking was below the
  maximum. `NoteFirst`: of the saves a handler has to make only the first is a note. With
  empty queues `Tally` is `AmountIsFinal`; with at most one `stacked` signal it gives
  `StopsAtMaximum`.
* Dispenser. A request is with nobody (`NoRequest`), with the driver (`Requested`) or
  answered in the queue (`Replied`); each says how the notes the driver was told of
  (`given`), the manager's sums and the change agree. What a lost reply left out is in
  none of them: `NeverOverpays` and `PaidOutIsGiven` speak of `given`, so that the first
  says that only such notes can come out beyond what was put in, and the second that the
  books agree with the reports whatever was lost. A driver that went silent leaves the
  request with nobody and the sums as they were. `Covering`: what is asked for is covered by the change, and the
  change by the notes. `Booking`: `dispensed_note` and what the saves add to it.
  `Counting`: no count, and none about to be saved, is below the notes in the unit.
  The proof found two states the model should not start in and now does not: a
  unit wrongly loaded with more faults than `MaxFaults`.
* Offers. `PromiseKept` compares the sum `canDispense` finds in one pass with what
  `dispense` asks for unit after unit. `Greedy` is the fold of `canDispense` as a function
  on sets of nominals; three facts about it, each by `SubsetInduction` along the fold:
  asked for what it has found it finds the same (`GreedyAgain`), nominals too large or
  without notes do not matter (`GreedyFewer`), and with some notes of the largest
  useful nominal gone it finds the rest (`GreedyRest`). So `Keeping`, while nothing fails:
  contents are counted right, and what is still to be given can be given whole with them.

`SumFunction` and `FoldFunction` are recursive functions defined with CHOOSE. That a
function with their equation exists is proved in `SumLemmas` by an induction that is
first-order: `SubsetInduction` takes the set of the subsets that have the property in
place of a predicate, and there is no smallest subset outside it. What a sum does when
one of its terms changes, and what a fold keeps (`FoldIn`), follow.

**Update.** The properties of the engine speak of the state after a deploy or between its
files, for any sequence of distributions; `EngineInv` says for each part of `deploy()` how the disk and the
backup relate to `before`, the directory the deploy began with:

* `BackingUp`: until the backup is complete nothing has changed, and every old file
  is in the backup or still to be copied. So `Changes` holds when the first file
  goes: what may differ from `before` is in the backup or is one of the new files.
* `FoundBefore`: what an earlier deploy found in another version than `before` is in a
  backup already; so `NothingLost` need not look at more than this deploy.
* `Remaining`, `Deleting`, `Installing`: what each part has still to do. When
  nothing is left of the last one, every listed file has the version of the
  distribution and, unless only some components are updated, every other file is
  gone, whatever mixture `before` was: the directory is whole when the configuration
  is stored (`DeploySucceedsKeeps`).
* `RollingBack`: when the undo is over and met no error, each file is as it was or
  is missing and still to be restored (`ProceedKeeps`, from `Changes`).
* `StoodBefore`: the directory a deploy starts from is the one the last that went
  through has left, unless one was cut off since; so a deploy that is rolled back
  without errors leaves `DeployedStands` as it was. While a deploy is under way, and
  from one that is cut off until the next that goes through, nothing is claimed: the
  stored configuration is then that of a distribution which is not on the disk.

`UpdateEngine_proofs` has one lemma for each action of `deploy()` (`...Keeps`), one
for all that happens outside (`OutsideSteps`), and `ChangesOneFile` for what the four
that touch a file have in common. In the composition every step is one of the
engine, the end of its process (`Over`, which may come at any point) or leaves the
files alone (`UpdaterStep`, `OtherStep`). TLC checks `EngineInv` in `update_engine`.

The terminal has an invariant of its own, `TerminalInv`. `Undisturbed`: as long as nobody
has the service restarted, no module outlives it and no second start of it waits; its
end loses the connection, so an updater that is cut off or deploys finds no service and
no module. `Unasked`: before the first update command there is no updater; it needs
that the service does not start one by itself. The passes over the modules
(`Checked`, `Closing`, revival) are folds along `ByName`: `CheckedIn`, `ClosingIn` and
`RevivedIn` say which set of module states they stay in, by `FoldIn`. A round of
closing ends the service only when its fold finds no module that answers
(`QuitsAfterClosing`).

**Only model-checked.** Liveness (`ComesToAnEnd`, `StoppingEnds`, `DispensingEnds`,
`KioskReturns`, `UpdaterEnds`, `DownloadEnds`) is out of the prover's reach. Every other
property of the passing runs is a theorem, under the hypotheses of the table.

## 6. Plan

Done: payment processing; the ledger with acceptors, dispenser and encashment; the
update with the watch service; all their safety properties proved. Next, in order, each
with its runs and then its theorems:

1. `PaymentCommands`: `updatePaymentFields` with a forced update, the command queue,
   the locks, `hangupProcessing`, unsaved parameters and the
   encashment that waits for them.
2. `Tasks` (scheduler), `NetworkTasks` (queue of transfers), `Devices` (acquisition
   and release), the queue of commands of `RemoteService`.
3. Several dispensers and `onUnitsDefined`; charge providers; config, userpack and
   integrity commands of the updater; exclusive modules and the close command.
4. Commission and limits against a reference definition.

## 7. Not modelled

Drivers (63 thousand lines of device protocols: the kiosk's logic sees only their
signals), GUI, graphics and splash screens (drawing), scenario scripts (not in the
repository), the earlier application under `src/deprecated` (built only on request, for reference), vendored code
and assets, packaging and build files. The map covers a small share of the lines for
this reason: drivers, drawing and the deprecated application are most of them.
Cryptography is a signature that equals what it was computed from. Wording, logs and
receipts' layout are left out.

Within the modelled parts: electronic money, commission and charge providers
(acceptors); units the driver does not know, which it answers by `unitEmpty` alone so
that the scenario waits for ever, and a script that dispenses again after a driver went
silent, for which `m_Amounts` still holds the old sums (dispenser); packages, BITS, folders left alone and
empty ones, a second updater process (update); exclusive modules, start priority -1,
the close command (nobody in the repository sends it), processes that fail to start,
memory and forbidden processes, the splash screen (watch service). The updater's
process does not crash by itself; a loss of power stops it together with the rest.

A payment may end Deleted though the operator has taken it. The remove command of the
payment thread asks for the STATUS while the worker is about to send PAY; the answer "not
paid" is applied (`Payment::remove`, `Payment.cpp:586-600`) after that of PAY. It is not
paid twice and its session stays in the row, which is what `core_remove` checks. The scenario of `CashAcceptor` takes no
money after it has moved the change, and encashes with no payment open: what the code
does outside this order (change overwritten by later notes, notes of an older payment
stamped again) is not checked.

The verdict `BadPayment` says nothing of the money: a payment is given up after
the limit of tries while the operator may still be deciding, and an online payment
whose worker died is given up without a STATUS request. The properties above claim
only the other direction.

---------------------------- MODULE WatchService ----------------------------
(***************************************************************************)
(* The watch service (watchdog): it starts the modules of its              *)
(* configuration, watches that they answer, and closes them when the       *)
(* service is to restart, to stop or to reboot the machine.                *)
(*                                                                         *)
(* Time is what has run out: a module is quiet when its kill timeout has    *)
(* passed since it answered, slow when its first ping timeout has passed   *)
(* since it was started.  The pending single shot timers are counted.      *)
(* A process is started within one step, as QProcess does on Windows.      *)
(***************************************************************************)
EXTENDS Naturals, Sequences, SequencesExt, FiniteSets

CONSTANTS
    Modules,        \* the modules of the configuration
    ByName,         \* the sequence of them in the order of the map
    AutoStart,      \* the modules with autostart
    Priority,       \* [Modules -> Nat], start order
    ClosePriority,  \* [Modules -> Nat], close order
    MaxStarts,      \* [Modules -> Nat], 0 for no limit
    Kiosk           \* the module whose end the updater waits for

ASSUME ConfigurationAssumption ==
    /\ ByName \in Seq(Modules)
    /\ ToSet(ByName) = Modules /\ Len(ByName) = Cardinality(Modules)
    /\ AutoStart \subseteq Modules
    /\ Priority \in [Modules -> Nat]
    /\ ClosePriority \in [Modules -> Nat]
    /\ MaxStarts \in [Modules -> Nat]
    /\ Kiosk \in Modules

VARIABLES
    service,        \* the service process runs
    checking,       \* m_Timer is active
    action,         \* m_CloseAction
    mod,            \* m_Modules, with the state of the process of each
    strays,         \* processes of a configuration that was dropped
    retries,        \* pending calls of closeModules()
    reinits,        \* pending calls of reinitialize()
    revivals,       \* pending calls of checkAutoStartModules()
    link,           \* the updater's connection: "none", "up", or "cut"
    inbox,          \* what was sent to the updater and not read yet
    outbox          \* what the updater sent and was not handled yet

timers == <<retries, reinits, revivals>>
serviceVars == <<service, checking, action, mod, strays, timers, link, inbox, outbox>>

Final == {"exit", "reboot", "shutdown"}

\* heard: the module answered since it was started; missed: a check found it
\* quiet (noResponseCount); told: it was sent the close command.
Module == [run : {"off", "up", "hung"}, need : BOOLEAN, starts : Nat,
           heard : BOOLEAN, quiet : BOOLEAN, slow : BOOLEAN, missed : BOOLEAN,
           told : BOOLEAN]

ServiceTypeOK ==
    /\ service \in BOOLEAN /\ checking \in BOOLEAN
    /\ action \in Final \cup {"none", "restart"}
    /\ mod \in [Modules -> Module]
    /\ strays \subseteq Modules
    /\ retries \in Nat /\ reinits \in Nat /\ revivals \in Nat
    /\ link \in {"none", "up", "cut"}
    /\ inbox \subseteq {"close", "closed"}
    /\ outbox \in Seq({"close_module", "start_module", "exit"})

\* loadConfiguration
Loaded ==
    [m \in Modules |->
        [run |-> "off", need |-> m \in AutoStart, starts |-> 0, heard |-> FALSE,
         quiet |-> FALSE, slow |-> FALSE, missed |-> FALSE, told |-> FALSE]]

-----------------------------------------------------------------------------
(* One module, given the states ms of all of them *)

Running(ms, m) == ms[m].run # "off"

\* Mutant: a module counts as closed as soon as it is told to close.
AllTold(ms) == \A m \in Modules : ms[m].told \/ ~Running(ms, m)

AllClosed(ms) == \A m \in Modules : ~Running(ms, m)

Started(r) ==
    [r EXCEPT !.run = "up", !.heard = FALSE, !.quiet = FALSE, !.slow = FALSE,
              !.told = FALSE, !.starts = @ + 1]

Ended(r) == [r EXCEPT !.run = "off", !.heard = FALSE, !.quiet = FALSE,
                      !.slow = FALSE, !.told = FALSE]

\* SModule::touch
Touched(r) == [r EXCEPT !.heard = TRUE, !.quiet = FALSE, !.slow = FALSE]

\* Those to start before m are running and have answered.
CanRun(ms, m) ==
    \A k \in Modules : Priority[k] < Priority[m] /\ ms[k].need =>
        Running(ms, k) /\ ms[k].heard

CanTerminate(ms, m) ==
    \A k \in Modules : ClosePriority[k] < ClosePriority[m] => ~Running(ms, k)

\* Mutant: a module that does not answer is told and told again.
CloseModuleGently(ms, m, ignorePriority) ==
    [ms EXCEPT ![m] =
        IF ~Running(ms, m) THEN ms[m]
        ELSE IF ~(CanTerminate(ms, m) \/ ignorePriority)
          THEN [ms[m] EXCEPT !.need = FALSE]
          ELSE [ms[m] EXCEPT !.need = FALSE, !.told = TRUE]]

\* A running module is told to close, and killed when it is quiet.
CloseModule(ms, m, ignorePriority) ==
    LET stopped == [ms[m] EXCEPT !.need = FALSE]
    IN  [ms EXCEPT ![m] =
            IF ~Running(ms, m) THEN ms[m]
            ELSE IF ~(CanTerminate(ms, m) \/ ignorePriority) THEN stopped
            ELSE IF ms[m].quiet THEN Ended(stopped)
            ELSE [stopped EXCEPT !.told = TRUE]]

StartLimit(r, m) == MaxStarts[m] > 0 /\ r.starts >= MaxStarts[m]

\* The module is wanted and not running.
StartWanted(ms, m) ==
    IF ~CanRun(ms, m) THEN ms
    ELSE [ms EXCEPT ![m] = IF StartLimit(@, m) THEN [@ EXCEPT !.need = FALSE]
                                               ELSE Started(@)]

\* The module is wanted and running: killed when quiet at two checks.
Supervised(r) ==
    IF ~r.heard /\ ~r.slow THEN r
    ELSE IF ~r.quiet THEN [r EXCEPT !.missed = FALSE]
    ELSE IF r.missed THEN [Ended(r) EXCEPT !.missed = FALSE]
    ELSE [r EXCEPT !.missed = TRUE]

CheckModule(ms, m) ==
    IF ~ms[m].need THEN CloseModule(ms, m, TRUE)
    ELSE IF Running(ms, m) THEN [ms EXCEPT ![m] = Supervised(@)]
    ELSE StartWanted(ms, m)

\* onCheckModules.  The command stack of a module is empty before a command
\* and holds that command only when the check after it takes it.
Checked(ms) == FoldLeft(CheckModule, ms, ByName)

\* One round over the modules of those to close, by priority.
Closing(ms) == FoldLeft(LAMBDA s, m : CloseModule(s, m, FALSE), ms, ByName)

\* The close command after which nothing is started again.
NoneWanted(ms) == [m \in Modules |-> [ms[m] EXCEPT !.need = FALSE]]

\* checkAutoStartModules
Revived(ms) ==
    LET Revive(s, m) ==
            IF m \in AutoStart /\ ~s[m].need
              THEN Checked([s EXCEPT ![m].need = TRUE, ![m].starts = 0])
              ELSE s
    IN  FoldLeft(Revive, ms, ByName)

-----------------------------------------------------------------------------
(* The service as a whole *)

\* onModuleFinished: the clients are told of a process that ended.
Send(messages) == inbox' = IF link = "up" THEN inbox \cup messages ELSE inbox
ClosedNow(ms) == IF Running(mod, Kiosk) /\ ~Running(ms, Kiosk)
                   THEN {"closed"} ELSE {}

Becomes(ms) == mod' = ms /\ Send(ClosedNow(ms))

\* The message queue goes down with everyone's connection.
Disconnects == /\ link' = IF link = "up" THEN "cut" ELSE link
               /\ inbox' = {} /\ outbox' = <<>>

\* reinitialize: the modules are read anew, the processes of the old ones are
\* forgotten, the queue is closed and opened.
Reinitialize(ms) ==
    /\ mod' = Loaded
    /\ strays' = strays \cup {m \in Modules : Running(ms, m)}
    /\ checking' = TRUE
    /\ Disconnects

\* The application quits and ends the processes it is the parent of.
QuitService ==
    /\ service' = FALSE /\ checking' = FALSE
    /\ mod' = Loaded /\ strays' = {}
    /\ retries' = 0 /\ reinits' = 0 /\ revivals' = 0
    /\ Disconnects

\* doCloseModules with m_CloseAction = act; rest is the number of further
\* calls pending, queue what the updater sent besides.  The next call is due
\* in a second unless all are closed.
CloseModules(ms, act, rest, queue) ==
    LET closing == Closing(ms)
    IN  \/ /\ ~AllClosed(closing)
           /\ mod' = closing /\ Send(ClosedNow(closing) \cup {"close"})
           /\ retries' = rest + 1 /\ action' = act /\ checking' = FALSE
           /\ outbox' = queue
           /\ UNCHANGED <<service, strays, reinits, revivals, link>>
        \/ /\ AllClosed(closing) /\ act = "none"
           /\ mod' = closing /\ Send(ClosedNow(closing) \cup {"close"})
           /\ retries' = rest /\ reinits' = reinits + 1
           /\ action' = act /\ checking' = FALSE /\ outbox' = queue
           /\ UNCHANGED <<service, strays, revivals, link>>
        \/ /\ AllClosed(closing) /\ act = "restart"
           /\ Reinitialize(closing)
           /\ retries' = rest /\ action' = "none"
           /\ UNCHANGED <<service, reinits, revivals>>
        \/ /\ AllClosed(closing) /\ act \in Final
           /\ QuitService
           /\ action' = act

-----------------------------------------------------------------------------
(* Timers *)

CheckModules ==
    /\ service /\ checking
    /\ Becomes(Checked(mod))
    /\ UNCHANGED <<service, checking, action, strays, timers, link, outbox>>

Retry ==
    /\ service /\ retries > 0
    /\ CloseModules(mod, action, retries - 1, outbox)

Reinit ==
    /\ service /\ reinits > 0
    /\ reinits' = reinits - 1
    /\ Reinitialize(mod)
    /\ UNCHANGED <<service, action, retries, revivals>>

Revive ==
    /\ service /\ revivals > 0
    /\ revivals' = revivals - 1
    /\ Becomes(Revived(mod))
    /\ UNCHANGED <<service, checking, action, strays, retries, reinits, link, outbox>>

\* The service is launched, unless it runs: a second instance quits.
Launched ==
    /\ service' = TRUE
    /\ IF service THEN UNCHANGED <<checking, action, mod>>
                  ELSE checking' = TRUE /\ action' = "none" /\ mod' = Loaded
    /\ UNCHANGED <<strays, timers>>

-----------------------------------------------------------------------------
(* Commands, from a sender that is a module or not *)

Sent(sender, ms) == IF sender \in Modules /\ Running(ms, sender)
                      THEN [ms EXCEPT ![sender] = Touched(@)] ELSE ms

\* start_module
Start(m, sender, queue) ==
    /\ service /\ outbox' = queue
    /\ Becomes(Sent(sender, Checked([mod EXCEPT ![m].need = TRUE, ![m].starts = 0])))
    /\ UNCHANGED <<service, checking, action, strays, timers, link>>

\* close_module: a module that starts by itself does so after ten minutes.
Close(m, queue) ==
    /\ service /\ outbox' = queue
    /\ Becomes(Checked([mod EXCEPT ![m].need = FALSE]))
    /\ revivals' = IF m \in AutoStart THEN revivals + 1 ELSE revivals
    /\ UNCHANGED <<service, checking, action, strays, retries, reinits, link>>

\* restart, exit, reboot, shutdown
Command(act, queue) ==
    /\ service
    /\ CloseModules(NoneWanted(mod), act, retries, queue)

-----------------------------------------------------------------------------
(* The module processes: external *)

\* A ping, or any message of the module.
Ping(m) ==
    /\ service /\ mod[m].run = "up"
    /\ mod' = [mod EXCEPT ![m] = Touched(@)]
    /\ UNCHANGED <<service, checking, action, strays, timers, link, inbox, outbox>>

\* A module that was told to close does so in its time.
ModuleCloses(m) ==
    /\ mod[m].run = "up" /\ mod[m].told
    /\ Becomes([mod EXCEPT ![m] = Ended(@)])
    /\ UNCHANGED <<service, checking, action, strays, timers, link, outbox>>

Silence(m) ==
    /\ mod[m].run = "hung"
    /\ \/ ~mod[m].quiet /\ mod' = [mod EXCEPT ![m].quiet = TRUE]
       \/ ~mod[m].heard /\ ~mod[m].slow /\ mod' = [mod EXCEPT ![m].slow = TRUE]
    /\ UNCHANGED <<service, checking, action, strays, timers, link, inbox, outbox>>

Hang(m) ==
    /\ mod[m].run = "up"
    /\ mod' = [mod EXCEPT ![m].run = "hung"]
    /\ UNCHANGED <<service, checking, action, strays, timers, link, inbox, outbox>>

Crash(m) ==
    /\ Running(mod, m)
    /\ Becomes([mod EXCEPT ![m] = Ended(@)])
    /\ UNCHANGED <<service, checking, action, strays, timers, link, outbox>>

\* A kiosk that lost its connection closes itself.
StrayCloses(m) ==
    /\ m \in strays /\ strays' = strays \ {m}
    /\ UNCHANGED <<service, checking, action, mod, timers, link, inbox, outbox>>

ServiceInit ==
    /\ service = TRUE /\ checking = TRUE /\ action = "none"
    /\ mod = Loaded /\ strays = {}
    /\ retries = 0 /\ reinits = 0 /\ revivals = 0
    /\ link = "none" /\ inbox = {} /\ outbox = <<>>

=============================================================================

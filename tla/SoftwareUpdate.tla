--------------------------- MODULE SoftwareUpdate ---------------------------
(***************************************************************************)
(* An update of the terminal: the kiosk has the watch service start the     *)
(* updater, which downloads the new distribution beside the kiosk, has the  *)
(* kiosk closed and the service stopped, replaces the files, and launches   *)
(* the service again (UpdaterApp with the modules WatchService and          *)
(* UpdateEngine).  Others may send the service commands at any time.        *)
(***************************************************************************)
EXTENDS WatchService, UpdateEngine

CONSTANTS
    Updater,    \* the updater as a module of the service
    Others,     \* the commands others may send
    MaxOthers,  \* how many of them, each at most once
    MaxAsks     \* update commands of the server

ASSUME UpdateAssumption ==
    /\ Updater \in Modules \ {Kiosk}
    /\ Others \subseteq Final \cup {"restart"}
    /\ MaxAsks \in Nat /\ MaxOthers \in Nat

VARIABLES
    app,        \* what the updater that runs from the temporary folder does
    issued,     \* the commands others have sent
    asks

vars == <<serviceVars, engineVars, app, issued, asks>>

\* The commands after the download: "waiting" for the kiosk to close with the
\* error timer running, "asked" the service to exit, "failing" when the timer
\* has run out, "leaving" when it did and the kiosk closed all the same, "left"
\* when it is gone after that.
Apps == {"none", "download", "waiting", "asked", "failing", "leaving",
         "left", "deploy", "finish"}

UpdateTypeOK ==
    /\ ServiceTypeOK
    /\ TypeOK
    /\ app \in Apps
    /\ issued \subseteq Others
    /\ asks \in 0..MaxAsks

Init == ServiceInit /\ EngineInit /\ app = "none" /\ issued = {} /\ asks = 0

\* What a step of the service leaves alone, and what a step of the updater does.
updaterSide == <<engineVars, app, issued, asks>>
serviceSide == <<service, checking, action, mod, strays, timers, issued, asks>>

-----------------------------------------------------------------------------
(* The updater *)

\* The server's command reaches the kiosk.
Ask ==
    /\ asks < MaxAsks /\ asks' = asks + 1
    /\ mod[Kiosk].run = "up"
    /\ Start(Updater, Kiosk, outbox)
    /\ UNCHANGED <<engineVars, app, issued>>

\* The module runs itself again from the temporary folder and exits with the
\* code of which nobody is told.  The new process is no child of the service.
Detach ==
    /\ service /\ mod[Updater].run = "up" /\ app \in {"none", "left"}
    /\ mod' = [mod EXCEPT ![Updater] = Ended(@)]
    /\ app' = "download" /\ link' = "up"
    /\ RunUpdate
    /\ UNCHANGED <<service, checking, action, strays, timers, inbox, outbox,
                   issued, asks>>

Exits == app' = (IF app = "leaving" THEN "left" ELSE "none") /\ link' = "none" /\ inbox' = {}

\* A client that is not connected sends nothing.
Sends(messages) == outbox' = IF link = "up" THEN outbox \o messages ELSE outbox

\* onDownloadComplete, when all is downloaded.
Download ==
    /\ app = "download" /\ Downloading
    /\ IF stage' = "ready"
         THEN app' = "waiting" /\ Sends(<<"close_module">>)
         ELSE app' = (IF stage' = "done" THEN "finish" ELSE app) /\ UNCHANGED outbox
    /\ UNCHANGED <<link, inbox, serviceSide>>

\* The service tells it to close, which only a download heeds.
ToldToClose ==
    /\ "close" \in inbox
    /\ IF app = "download" THEN Exits /\ Over
                           ELSE /\ inbox' = inbox \ {"close"}
                                /\ UNCHANGED <<app, link, engineVars>>
    /\ UNCHANGED <<faults, outbox, serviceSide>>

\* Mutant: a line in the log is all that comes of it.
TooLongLogged ==
    /\ app = "download"
    /\ UNCHANGED <<app, link, inbox, engineVars, outbox, serviceSide>>

\* The download took the longest time allowed, of which a timer of its own tells.
TooLong ==
    /\ app = "download" /\ Over /\ Exits
    /\ UNCHANGED <<faults, outbox, serviceSide>>

\* onModuleClosed for the kiosk, when subscribed.
Answer == [waiting |-> "asked", failing |-> "leaving"]

KioskClosed ==
    /\ "closed" \in inbox /\ inbox' = inbox \ {"closed"}
    /\ IF app \in DOMAIN Answer
         THEN app' = Answer[app] /\ Sends(<<"exit">>)
         ELSE UNCHANGED <<app, outbox>>
    /\ UNCHANGED <<link, engineVars, serviceSide>>

\* The kiosk did not close in fifteen minutes.
FailStopClient ==
    /\ app = "waiting"
    /\ app' = "failing" /\ Sends(<<"start_module">>)
    /\ UNCHANGED <<link, inbox, engineVars, serviceSide>>

\* Ten milliseconds later it exits; an exit command it sent stays sent.
ErrorExit ==
    /\ app \in {"failing", "leaving"}
    /\ Exits /\ Over
    /\ UNCHANGED <<faults, outbox, serviceSide>>

\* Connected to the service no more: that it stopped is what an updater that
\* has its download waits for.
Disconnected ==
    /\ link = "cut"
    /\ CASE app = "download" ->
              service /\ link' = "up" /\ UNCHANGED <<app, engineVars>>
         [] app = "finish" ->
              link' = "none" /\ UNCHANGED <<app, engineVars>>
         [] OTHER ->
              link' = "none" /\ app' = "deploy" /\ Deploy
    /\ UNCHANGED <<inbox, outbox, serviceSide>>

\* Mutant: the service is launched before the last part of the deploy.
DeployFilesLaunchFirst ==
    /\ app = "deploy" /\ Deploying
    /\ app' = IF stage' = "done" THEN "finish" ELSE app
    /\ IF stage' = "post"
         THEN Launched
         ELSE UNCHANGED <<service, checking, action, mod, strays, timers>>
    /\ UNCHANGED <<link, inbox, outbox, issued, asks>>

\* deploy(); at its end the service is launched.
DeployFiles ==
    /\ app = "deploy" /\ Deploying
    /\ IF stage' = "done"
         THEN app' = "finish" /\ Launched
         ELSE UNCHANGED <<app, service, checking, action, mod, strays, timers>>
    /\ UNCHANGED <<link, inbox, outbox, issued, asks>>

Finish ==
    /\ app = "finish" /\ Quit /\ Exits
    /\ UNCHANGED <<outbox, serviceSide>>

-----------------------------------------------------------------------------
(* The service and what it watches *)

\* The service takes the next message of the updater.
Handle ==
    /\ outbox # <<>>
    /\ \/ Head(outbox) = "close_module" /\ Close(Kiosk, Tail(outbox))
       \/ Head(outbox) = "start_module" /\ Start(Kiosk, Updater, Tail(outbox))
       \/ Head(outbox) = "exit" /\ Command("exit", Tail(outbox))
    /\ UNCHANGED updaterSide

Service == (CheckModules \/ Retry \/ Reinit \/ Revive) /\ UNCHANGED updaterSide

OtherCommand ==
    /\ Cardinality(issued) < MaxOthers
    /\ \E act \in Others \ issued :
            issued' = issued \cup {act} /\ Command(act, outbox)
    /\ UNCHANGED <<engineVars, app, asks>>

Processes == \E m \in Modules : Ping(m) \/ ModuleCloses(m) \/ Silence(m) \/ StrayCloses(m)

Live == Processes /\ UNCHANGED updaterSide

KioskFails ==
    /\ (Hang(Kiosk) \/ Crash(Kiosk)) /\ Fault
    /\ UNCHANGED <<storage, command, rolling, record, stage, left, line,
                   app, issued, asks>>

\* The machine is started, by the reboot command or after a loss of power.
PowerUp ==
    /\ service' = TRUE /\ checking' = TRUE /\ action' = "none"
    /\ mod' = Loaded /\ strays' = {}
    /\ retries' = 0 /\ reinits' = 0 /\ revivals' = 0
    /\ outbox' = <<>> /\ inbox' = {} /\ link' = "none" /\ app' = "none"
    /\ Over
    /\ UNCHANGED <<issued, asks>>

Rebooted == ~service /\ action = "reboot" /\ PowerUp /\ UNCHANGED faults
PowerLoss == Fault /\ PowerUp

-----------------------------------------------------------------------------

UpdaterRuns == Detach \/ Download \/ ToldToClose \/ KioskClosed
                 \/ Disconnected \/ DeployFiles \/ Finish \/ ErrorExit

Next ==
    \/ Ask \/ UpdaterRuns \/ TooLong \/ FailStopClient
    \/ Handle \/ Service \/ OtherCommand \/ Live \/ KioskFails
    \/ Rebooted \/ PowerLoss

Fairness ==
    /\ WF_vars(UpdaterRuns) /\ WF_vars(FailStopClient) /\ WF_vars(TooLong)
    /\ WF_vars(Handle) /\ WF_vars(Service) /\ WF_vars(Live)
    /\ WF_vars(Rebooted)

Spec == Init /\ [][Next]_vars /\ Fairness

-----------------------------------------------------------------------------
(* Properties *)

KioskRuns == Running(mod, Kiosk) \/ Kiosk \in strays

\* The files are replaced while no kiosk uses them.
DeployAlone == app = "deploy" => ~KioskRuns

\* Others had the service restarted and an update was asked for: the restart may
\* have cut the updater off in the middle of it.
RestartedMeanwhile == "restart" \in issued /\ asks > 0

\* The files are replaced while no kiosk uses them, whoever reboots the machine
\* and whatever fails: onDisconnected of the updater means the service is gone,
\* unless it was restarted in the course of the update.
DeployAloneUnlessRestarted == RestartedMeanwhile \/ DeployAlone

\* The service that quits leaves no module to be killed with it.
QuitsAfterClosing ==
    [][service /\ ~service' =>
        \A m \in Modules : mod[m].run = "off" \/ mod[m].quiet]_vars

\* Whatever happens to an update, the kiosk comes back: also when it hangs, when
\* the power fails in a deploy or the updater gives up waiting for it.  Left out
\* are a restart of the service by others meanwhile, and the updater that gives
\* up in the moment in which the kiosk closes: there nobody starts it again.
KioskReturns ==
    []<>(mod[Kiosk].run = "up" \/ app = "left" \/ RestartedMeanwhile)

\* An updater ends, one way or another: also when a line that breaks off again and
\* again with a little more of the file has it try for ever, when a file it cannot
\* read has left the download without a task, when the kiosk does not close or the
\* service is restarted.
UpdaterGone == app \in {"none", "left"}

UpdaterEnds == ~UpdaterGone ~> UpdaterGone

=============================================================================

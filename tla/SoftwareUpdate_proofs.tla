------------------------ MODULE SoftwareUpdate_proofs ------------------------
(***************************************************************************)
(* What is proved of the update engine alone holds of it in the terminal,  *)
(* where the watch service, the kiosk, a loss of power and the updater's   *)
(* own timers end it at any point: every step of the composition is a step *)
(* of the engine, the end of its process, or leaves the files alone.  Then *)
(* the terminal itself: the types, that files are replaced only while no   *)
(* module runs, and that the service quits only when all are closed.       *)
(***************************************************************************)
EXTENDS SoftwareUpdate, UpdateEngine_proofs, SumLemmas

\* The engine stays as it is, but for the faults it counts.
Untouched == UNCHANGED <<storage, command, rolling, record, stage, left, line>>

\* The types of the engine when its process ends or elsewhere something fails.
LEMMA TypeElsewhere ==
    ASSUME TypeOK, Over \/ Untouched, Fault \/ UNCHANGED faults
    PROVE  TypeOK'
<1>1. faults' \in 0..MaxFaults
  BY FaultType DEF TypeOK
<1>2. CASE Untouched
  BY <1>1, <1>2 DEF Untouched, storage, command, rolling, record, TypeOK
<1>3. CASE Over
  BY <1>1, <1>3 DEF Over, storage, command, rolling, TypeOK, Stages
<1>4. QED
  BY <1>2, <1>3

\* The steps of the updater.
LEMMA UpdaterStep ==
    ASSUME UpdaterRuns \/ TooLong \/ FailStopClient
    PROVE  \/ EngineNext
           \/ Over /\ UNCHANGED faults
           \/ UNCHANGED engineVars
<1>1. CASE Detach \/ Finish
  BY <1>1 DEF Detach, Finish, EngineNext
<1>2. CASE Download \/ DeployFiles
  BY <1>2 DEF Download, DeployFiles, EngineNext
<1>3. CASE ToldToClose
  BY <1>3 DEF ToldToClose
<1>4. CASE Disconnected
  BY <1>4 DEF Disconnected, EngineNext
<1>5. CASE TooLong \/ ErrorExit
  BY <1>5 DEF TooLong, ErrorExit
<1>6. CASE KioskClosed \/ FailStopClient
  BY <1>6 DEF KioskClosed, FailStopClient, engineVars
<1>7. QED
  BY <1>1, <1>2, <1>3, <1>4, <1>5, <1>6 DEF UpdaterRuns

\* The steps of the service, of what it watches and of the machine.
LEMMA OtherStep ==
    ASSUME \/ Ask \/ Handle \/ Service \/ OtherCommand \/ Live \/ KioskFails
           \/ Rebooted \/ PowerLoss
    PROVE  /\ \/ Over
              \/ Untouched
           /\ Fault \/ UNCHANGED faults
<1>1. CASE Ask \/ OtherCommand
  BY <1>1 DEF Ask, OtherCommand, engineVars, Untouched
<1>2. CASE Handle \/ Service \/ Live
  BY <1>2 DEF Handle, Service, Live, updaterSide, engineVars, Untouched
<1>3. CASE KioskFails
  BY <1>3 DEF KioskFails, Untouched
<1>4. CASE Rebooted \/ PowerLoss
  BY <1>4 DEF Rebooted, PowerLoss, PowerUp
<1>5. QED
  BY <1>1, <1>2, <1>3, <1>4

\* The invariant of the engine is one of the terminal.
LEMMA InvUpdateStep == EngineInv /\ [Next]_vars => EngineInv'
<1> SUFFICES ASSUME EngineInv, [Next]_vars
             PROVE  EngineInv'
  OBVIOUS
<1>1. CASE EngineNext \/ UNCHANGED engineVars
  BY <1>1, InvNext
<1>2. CASE /\ \/ Over
              \/ Untouched
           /\ Fault \/ UNCHANGED faults
  <2>1. TypeOK'
    BY <1>2, TypeElsewhere DEF EngineInv
  <2>2. QED
    BY <1>2, <2>1, OutsideSteps, InvElsewhere DEF Parts, Untouched
<1>3. CASE UNCHANGED vars
  BY <1>1, <1>3 DEF vars
<1>4. QED
  BY <1>1, <1>2, <1>3, UpdaterStep, OtherStep DEF Next

\* In the terminal too the invariant of the engine holds in every state.
THEOREM EngineInvariantInTerminal == Spec => []EngineInv
<1>1. Init => EngineInv
  BY InvInit DEF Init
<1>2. QED
  BY <1>1, InvUpdateStep, PTL DEF Spec

\* A file that updates replace or remove is on the disk or in a backup folder,
\* also when the service is restarted or the power fails in the middle.
THEOREM NothingIsLost == Spec => []NothingLost
<1>1. EngineInv => NothingLost
  BY DEF EngineInv
<1>2. QED
  BY <1>1, EngineInvariantInTerminal, PTL

\* A failed deploy whose roll back met no error left the directory as it was,
\* but for the files of skip_existing and optional components.
THEOREM FailedDeployRestores == Spec => []RestoresReplaced
<1>1. EngineInv => RestoresReplaced
  BY DEF EngineInv
<1>2. QED
  BY <1>1, EngineInvariantInTerminal, PTL

\* The distribution whose deploy went through last is stored and on the disk, through
\* any sequence of distributions and whatever other deploys had left before it; after a
\* deploy that was cut off or not rolled back cleanly not until the next goes through.
THEOREM DeployedVersionStands == Spec => []DeployedStands
<1>1. EngineInv => DeployedStands
  BY DEF EngineInv
<1>2. QED
  BY <1>1, EngineInvariantInTerminal, PTL

-----------------------------------------------------------------------------
(* What passes over all modules, one after the other, keep *)

\* The modules have an order, and of some of them one is the last.
LEMMA OrderIs ==
    /\ IsFiniteSet(DOMAIN ByName)
    /\ \A T \in SUBSET DOMAIN ByName :
          T # {} => Max(T) \in T /\ ByName[Max(T)] \in Modules
<1>1. DOMAIN ByName = 1..Len(ByName) /\ \A i \in DOMAIN ByName : ByName[i] \in Modules
  BY ConfigurationAssumption
<1>2. IsFiniteSet(DOMAIN ByName)
  BY <1>1, ConfigurationAssumption, FS_Interval
<1>3. ASSUME NEW T \in SUBSET DOMAIN ByName, T # {}
      PROVE  Max(T) \in T
  BY <1>1, <1>2, <1>3, FS_Subset, MaxIs
<1>4. QED
  BY <1>1, <1>2, <1>3

\* A check of the modules keeps what the check of each one keeps.
LEMMA CheckedIn ==
    ASSUME NEW V, \A s \in V, m \in Modules : CheckModule(s, m) \in V, NEW ms \in V
    PROVE  Checked(ms) \in V
<1> DEFINE S == DOMAIN ByName
           Body(it, T) == IF T = {} THEN ms ELSE CheckModule(it[T \ {Max(T)}], ByName[Max(T)])
           Iter == CHOOSE it : it = [T \in SUBSET S |-> Body(it, T)]
           pick == [T \in SUBSET S |-> Max(T)]
           step == [T \in SUBSET S |-> [s \in V |-> IF T = {} THEN ms ELSE CheckModule(s, ByName[Max(T)])]]
<1>1. Checked(ms) = Iter[S]
  BY DEF Checked, FoldLeft, MapThenFoldSet
<1>2. IsFiniteSet(S) /\ \A T \in SUBSET S : T # {} => Max(T) \in T /\ ByName[Max(T)] \in Modules
  BY OrderIs
<1> HIDE DEF S
<1>3. Steps(pick, step, S, V)
  <2>1. \A T \in SUBSET S, s \in V : (IF T = {} THEN ms ELSE CheckModule(s, ByName[Max(T)])) \in V
    BY <1>2
  <2>2. QED
    BY <1>2, <2>1 DEF Steps
<1>4. PICK it : IsFold(it, pick, step, ms, S, V)
  <2> HIDE DEF pick, step
  <2>1. QED
    BY <1>2, <1>3, FoldExists
<1>5. it = [T \in SUBSET S |-> Body(it, T)]
  <2>1. \A T \in SUBSET S : it[T \ {Max(T)}] \in V
    BY <1>4 DEF IsFold
  <2>2. \A T \in SUBSET S : it[T] = Body(it, T)
    BY <1>4, <2>1 DEF IsFold
  <2> HIDE DEF Body
  <2>3. QED
    BY <1>4, <2>2 DEF IsFold
<1>6. Iter = [T \in SUBSET S |-> Body(Iter, T)]
  <2> HIDE DEF Body
  <2>1. QED
    BY <1>5
<1>7. Follows(Iter, pick, step, ms, S, V)
  <2> SUFFICES ASSUME NEW T \in SUBSET S
               PROVE  IF T = {} THEN Iter[T] = ms
                      ELSE Iter[T \ {pick[T]}] \in V => Iter[T] = step[T][Iter[T \ {pick[T]}]]
    <3> HIDE DEF Iter, pick, step
    <3>1. QED
      BY DEF Follows
  <2>1. Iter[T] = Body(Iter, T)
    <3> HIDE DEF Body, Iter
    <3>1. QED
      BY <1>6
  <2> HIDE DEF Iter
  <2>2. QED
    BY <2>1
<1>8. Iter[S] \in V
  <2> HIDE DEF Iter, pick, step
  <2>1. QED
    BY <1>2, <1>3, <1>7, FoldIn
<1>9. QED
  <2> HIDE DEF Iter
  <2>1. QED
    BY <1>1, <1>8

\* So does a round of closing them.
LEMMA ClosingIn ==
    ASSUME NEW V, \A s \in V, m \in Modules : CloseModule(s, m, FALSE) \in V, NEW ms \in V
    PROVE  Closing(ms) \in V
<1> DEFINE S == DOMAIN ByName
           Body(it, T) == IF T = {} THEN ms ELSE CloseModule(it[T \ {Max(T)}], ByName[Max(T)], FALSE)
           Iter == CHOOSE it : it = [T \in SUBSET S |-> Body(it, T)]
           pick == [T \in SUBSET S |-> Max(T)]
           step == [T \in SUBSET S |-> [s \in V |-> IF T = {} THEN ms ELSE CloseModule(s, ByName[Max(T)], FALSE)]]
<1>1. Closing(ms) = Iter[S]
  BY DEF Closing, FoldLeft, MapThenFoldSet
<1>2. IsFiniteSet(S) /\ \A T \in SUBSET S : T # {} => Max(T) \in T /\ ByName[Max(T)] \in Modules
  BY OrderIs
<1> HIDE DEF S
<1>3. Steps(pick, step, S, V)
  <2>1. \A T \in SUBSET S, s \in V : (IF T = {} THEN ms ELSE CloseModule(s, ByName[Max(T)], FALSE)) \in V
    BY <1>2
  <2>2. QED
    BY <1>2, <2>1 DEF Steps
<1>4. PICK it : IsFold(it, pick, step, ms, S, V)
  <2> HIDE DEF pick, step
  <2>1. QED
    BY <1>2, <1>3, FoldExists
<1>5. it = [T \in SUBSET S |-> Body(it, T)]
  <2>1. \A T \in SUBSET S : it[T \ {Max(T)}] \in V
    BY <1>4 DEF IsFold
  <2>2. \A T \in SUBSET S : it[T] = Body(it, T)
    BY <1>4, <2>1 DEF IsFold
  <2> HIDE DEF Body
  <2>3. QED
    BY <1>4, <2>2 DEF IsFold
<1>6. Iter = [T \in SUBSET S |-> Body(Iter, T)]
  <2> HIDE DEF Body
  <2>1. QED
    BY <1>5
<1>7. Follows(Iter, pick, step, ms, S, V)
  <2> SUFFICES ASSUME NEW T \in SUBSET S
               PROVE  IF T = {} THEN Iter[T] = ms
                      ELSE Iter[T \ {pick[T]}] \in V => Iter[T] = step[T][Iter[T \ {pick[T]}]]
    <3> HIDE DEF Iter, pick, step
    <3>1. QED
      BY DEF Follows
  <2>1. Iter[T] = Body(Iter, T)
    <3> HIDE DEF Body, Iter
    <3>1. QED
      BY <1>6
  <2> HIDE DEF Iter
  <2>2. QED
    BY <2>1
<1>8. Iter[S] \in V
  <2> HIDE DEF Iter, pick, step
  <2>1. QED
    BY <1>2, <1>3, <1>7, FoldIn
<1>9. QED
  <2> HIDE DEF Iter
  <2>1. QED
    BY <1>1, <1>8

\* What checkAutoStartModules does about one module.
ReviveOne(s, m) ==
    IF m \in AutoStart /\ ~s[m].need
      THEN Checked([s EXCEPT ![m].need = TRUE, ![m].starts = 0]) ELSE s

\* So does the start of those that are to start by themselves.
LEMMA RevivedIn ==
    ASSUME NEW V, \A s \in V, m \in Modules : ReviveOne(s, m) \in V, NEW ms \in V
    PROVE  Revived(ms) \in V
<1> DEFINE S == DOMAIN ByName
           Body(it, T) == IF T = {} THEN ms ELSE ReviveOne(it[T \ {Max(T)}], ByName[Max(T)])
           Iter == CHOOSE it : it = [T \in SUBSET S |-> Body(it, T)]
           pick == [T \in SUBSET S |-> Max(T)]
           step == [T \in SUBSET S |-> [s \in V |-> IF T = {} THEN ms ELSE ReviveOne(s, ByName[Max(T)])]]
<1>1. Revived(ms) = Iter[S]
  BY DEF Revived, ReviveOne, FoldLeft, MapThenFoldSet
<1>2. IsFiniteSet(S) /\ \A T \in SUBSET S : T # {} => Max(T) \in T /\ ByName[Max(T)] \in Modules
  BY OrderIs
<1> HIDE DEF S
<1>3. Steps(pick, step, S, V)
  <2>1. \A T \in SUBSET S, s \in V : (IF T = {} THEN ms ELSE ReviveOne(s, ByName[Max(T)])) \in V
    BY <1>2
  <2>2. QED
    BY <1>2, <2>1 DEF Steps
<1>4. PICK it : IsFold(it, pick, step, ms, S, V)
  <2> HIDE DEF pick, step
  <2>1. QED
    BY <1>2, <1>3, FoldExists
<1>5. it = [T \in SUBSET S |-> Body(it, T)]
  <2>1. \A T \in SUBSET S : it[T \ {Max(T)}] \in V
    BY <1>4 DEF IsFold
  <2>2. \A T \in SUBSET S : it[T] = Body(it, T)
    BY <1>4, <2>1 DEF IsFold
  <2> HIDE DEF Body
  <2>3. QED
    BY <1>4, <2>2 DEF IsFold
<1>6. Iter = [T \in SUBSET S |-> Body(Iter, T)]
  <2> HIDE DEF Body
  <2>1. QED
    BY <1>5
<1>7. Follows(Iter, pick, step, ms, S, V)
  <2> SUFFICES ASSUME NEW T \in SUBSET S
               PROVE  IF T = {} THEN Iter[T] = ms
                      ELSE Iter[T \ {pick[T]}] \in V => Iter[T] = step[T][Iter[T \ {pick[T]}]]
    <3> HIDE DEF Iter, pick, step
    <3>1. QED
      BY DEF Follows
  <2>1. Iter[T] = Body(Iter, T)
    <3> HIDE DEF Body, Iter
    <3>1. QED
      BY <1>6
  <2> HIDE DEF Iter
  <2>2. QED
    BY <2>1
<1>8. Iter[S] \in V
  <2> HIDE DEF Iter, pick, step
  <2>1. QED
    BY <1>2, <1>3, <1>7, FoldIn
<1>9. QED
  <2> HIDE DEF Iter
  <2>1. QED
    BY <1>1, <1>8

-----------------------------------------------------------------------------
(* The states of the modules *)

States == [Modules -> Module]

\* The module is neither wanted nor running.
Resting(s, m) == ~s[m].need /\ s[m].run = "off"

\* The states in which the updater is neither.
UpdaterRests == {s \in States : Resting(s, Updater)}

\* The states in which what has ended since ms was quiet.
EndedQuiet(ms) ==
    {s \in States : \A m \in Modules :
        /\ s[m].run = "off" => ms[m].run = "off" \/ ms[m].quiet
        /\ s[m].run # "off" => s[m].quiet = ms[m].quiet}

\* What the operations on one module make of its record.
LEMMA RecordTypes ==
    ASSUME NEW r \in Module
    PROVE  /\ Started(r) \in Module /\ Ended(r) \in Module /\ Touched(r) \in Module
           /\ Supervised(r) \in Module
           /\ \A b \in BOOLEAN : /\ [r EXCEPT !.need = b] \in Module
                                 /\ [r EXCEPT !.need = b, !.starts = 0] \in Module
                                 /\ [r EXCEPT !.need = b, !.told = TRUE] \in Module
<1>1. Started(r) \in Module
  <2> DEFINE n == r.starts + 1
  <2>1. r.starts \in Nat
    BY DEF Module
  <2>2. n \in Nat
    BY <2>1
  <2> HIDE DEF n
  <2>3. [r EXCEPT !.run = "up", !.heard = FALSE, !.quiet = FALSE, !.slow = FALSE,
                  !.told = FALSE, !.starts = n] \in Module
    BY <2>2 DEF Module
  <2>4. QED
    BY <2>3 DEF Started, n
<1>2. Ended(r) \in Module /\ Touched(r) \in Module
  BY DEF Module, Ended, Touched
<1>3. ASSUME NEW e \in Module, NEW b \in BOOLEAN
      PROVE  [e EXCEPT !.missed = b] \in Module
  BY DEF Module
<1>4. Supervised(r) \in Module
  BY <1>2, <1>3 DEF Supervised
<1>5. ASSUME NEW b \in BOOLEAN
      PROVE  /\ [r EXCEPT !.need = b] \in Module
             /\ [r EXCEPT !.need = b, !.starts = 0] \in Module
             /\ [r EXCEPT !.need = b, !.told = TRUE] \in Module
  BY DEF Module
<1>6. QED
  BY <1>1, <1>2, <1>4, <1>5

\* Closing a module that runs.
LEMMA CloseModuleIs ==
    ASSUME NEW s \in States, NEW m \in Modules, NEW b \in BOOLEAN
    PROVE  /\ CloseModule(s, m, b) \in States
           /\ \A k \in Modules : k # m => CloseModule(s, m, b)[k] = s[k]
           /\ LET r == CloseModule(s, m, b)[m] IN
              /\ s[m].run = "off" => r = s[m]
              /\ r.run = "off" => s[m].run = "off" \/ s[m].quiet
              /\ r.run # "off" => r.quiet = s[m].quiet
<1> DEFINE r == s[m]
           stopped == [r EXCEPT !.need = FALSE]
           q == IF ~Running(s, m) THEN r
                ELSE IF ~(CanTerminate(s, m) \/ b) THEN stopped
                ELSE IF r.quiet THEN Ended(stopped)
                ELSE [stopped EXCEPT !.told = TRUE]
<1>1. r \in Module /\ stopped \in Module
  BY RecordTypes DEF States
<1>2. stopped.run = r.run /\ stopped.quiet = r.quiet
  BY <1>1 DEF Module
<1>3. /\ [stopped EXCEPT !.told = TRUE] \in Module
      /\ [stopped EXCEPT !.told = TRUE].run = r.run
      /\ [stopped EXCEPT !.told = TRUE].quiet = r.quiet
  <2>1. [stopped EXCEPT !.told = TRUE] \in Module
    BY <1>1 DEF Module
  <2>2. QED
    BY <1>1, <1>2, <2>1 DEF Module
<1> HIDE DEF stopped
<1>4. q \in Module
  <2>1. Ended(stopped) \in Module
    BY <1>1, RecordTypes
  <2>2. QED
    BY <1>1, <1>3, <2>1
<1>5. /\ r.run = "off" => q = r
      /\ q.run = "off" => r.run = "off" \/ r.quiet
      /\ q.run # "off" => q.quiet = r.quiet
  <2>1. CASE ~Running(s, m)
    BY <2>1 DEF Running
  <2>2. CASE Running(s, m) /\ r.quiet /\ (CanTerminate(s, m) \/ b)
    BY <2>2, <1>1 DEF Running, Ended, Module
  <2>3. CASE Running(s, m) /\ ~r.quiet /\ (CanTerminate(s, m) \/ b)
    BY <2>3, <1>3 DEF Running
  <2>4. CASE Running(s, m) /\ ~(CanTerminate(s, m) \/ b)
    BY <2>4, <1>2 DEF Running
  <2>5. QED
    BY <2>1, <2>2, <2>3, <2>4
<1>6. CloseModule(s, m, b) = [s EXCEPT ![m] = q]
  BY DEF CloseModule, stopped
<1> HIDE DEF q
<1>7. QED
  BY <1>4, <1>5, <1>6 DEF States

\* The check of a module.
LEMMA CheckModuleIs ==
    ASSUME NEW s \in States, NEW m \in Modules
    PROVE  /\ CheckModule(s, m) \in States
           /\ \A k \in Modules : k # m => CheckModule(s, m)[k] = s[k]
           /\ Resting(s, m) => CheckModule(s, m)[m] = s[m]
<1> DEFINE t == CheckModule(s, m)
           limited == IF StartLimit(s[m], m) THEN [s[m] EXCEPT !.need = FALSE] ELSE Started(s[m])
<1>1. s[m] \in Module
  BY DEF States
<1>2. CASE ~s[m].need
  <2>1. t = CloseModule(s, m, TRUE)
    BY <1>2 DEF CheckModule
  <2>2. /\ CloseModule(s, m, TRUE) \in States
        /\ \A k \in Modules : k # m => CloseModule(s, m, TRUE)[k] = s[k]
        /\ s[m].run = "off" => CloseModule(s, m, TRUE)[m] = s[m]
    BY CloseModuleIs
  <2>3. QED
    BY <2>1, <2>2 DEF Resting
<1>3. CASE s[m].need /\ Running(s, m)
  <2>1. t = [s EXCEPT ![m] = Supervised(s[m])]
    BY <1>3 DEF CheckModule, States
  <2>2. Supervised(s[m]) \in Module
    BY <1>1, RecordTypes
  <2>3. QED
    BY <1>3, <2>1, <2>2 DEF States, Resting
<1>4. CASE s[m].need /\ ~Running(s, m)
  <2>1. t = s \/ t = [s EXCEPT ![m] = limited]
    BY <1>4 DEF CheckModule, StartWanted, States
  <2>2. limited \in Module
    BY <1>1, RecordTypes
  <2> HIDE DEF limited
  <2>3. QED
    BY <1>4, <2>1, <2>2 DEF States, Resting
<1>5. QED
  BY <1>2, <1>3, <1>4

\* A check of all modules keeps their types, and the updater where it rests.
LEMMA CheckedIs ==
    ASSUME NEW ms \in States
    PROVE  Checked(ms) \in States /\ (ms \in UpdaterRests => Checked(ms) \in UpdaterRests)
<1>1. \A s \in States, m \in Modules : CheckModule(s, m) \in States
  BY CheckModuleIs
<1>2. \A s \in UpdaterRests, m \in Modules : CheckModule(s, m) \in UpdaterRests
  <2> SUFFICES ASSUME NEW s \in UpdaterRests, NEW m \in Modules
               PROVE  CheckModule(s, m) \in UpdaterRests
    OBVIOUS
  <2>1. s \in States /\ Resting(s, Updater) /\ Updater \in Modules
    BY UpdateAssumption DEF UpdaterRests
  <2>2. CheckModule(s, m) \in States /\ CheckModule(s, m)[Updater] = s[Updater]
    BY <2>1, CheckModuleIs
  <2>3. QED
    BY <2>1, <2>2 DEF UpdaterRests, Resting
<1>3. QED
  BY <1>1, <1>2, CheckedIn

\* So does checkAutoStartModules, when the updater is not to start by itself.
LEMMA RevivedIs ==
    ASSUME NEW ms \in States
    PROVE  /\ Revived(ms) \in States
           /\ Updater \notin AutoStart /\ ms \in UpdaterRests => Revived(ms) \in UpdaterRests
<1>1. ASSUME NEW s \in States, NEW m \in Modules
      PROVE  /\ ReviveOne(s, m) \in States
             /\ Updater \notin AutoStart /\ s \in UpdaterRests => ReviveOne(s, m) \in UpdaterRests
  <2> DEFINE t == [s EXCEPT ![m].need = TRUE, ![m].starts = 0]
  <2>1. [s[m] EXCEPT !.need = TRUE, !.starts = 0] \in Module
    BY RecordTypes DEF States
  <2>2. t = [s EXCEPT ![m] = [s[m] EXCEPT !.need = TRUE, !.starts = 0]]
    BY DEF States
  <2>3. t \in States /\ \A k \in Modules : k # m => t[k] = s[k]
    BY <2>1, <2>2 DEF States
  <2>4. ReviveOne(s, m) = s \/ (m \in AutoStart /\ ReviveOne(s, m) = Checked(t))
    BY DEF ReviveOne
  <2> HIDE DEF t
  <2>5. m # Updater /\ s \in UpdaterRests => t \in UpdaterRests
    BY <2>3, UpdateAssumption DEF UpdaterRests, Resting
  <2>6. QED
    BY <2>3, <2>4, <2>5, CheckedIs
<1>2. Revived(ms) \in States
  <2>1. \A s \in States, m \in Modules : ReviveOne(s, m) \in States
    BY <1>1
  <2>2. QED
    BY <2>1, RevivedIn
<1>3. ASSUME Updater \notin AutoStart, ms \in UpdaterRests
      PROVE  Revived(ms) \in UpdaterRests
  <2>1. \A s \in UpdaterRests, m \in Modules : ReviveOne(s, m) \in UpdaterRests
    BY <1>1, <1>3 DEF UpdaterRests
  <2>2. QED
    BY <1>3, <2>1, RevivedIn
<1>4. QED
  BY <1>2, <1>3

\* A round of closing ends only what is quiet.
LEMMA ClosingIs ==
    ASSUME NEW ms \in States
    PROVE  LET closing == Closing(ms)
           IN  /\ closing \in States /\ closing \in EndedQuiet(ms)
               /\ ms \in UpdaterRests => closing \in UpdaterRests
<1>1. \A s \in States, m \in Modules : CloseModule(s, m, FALSE) \in States
  BY CloseModuleIs
<1>2. ASSUME NEW s \in UpdaterRests, NEW m \in Modules
      PROVE  CloseModule(s, m, FALSE) \in UpdaterRests
  <2>1. s \in States /\ Resting(s, Updater) /\ Updater \in Modules
    BY UpdateAssumption DEF UpdaterRests
  <2>2. /\ CloseModule(s, m, FALSE) \in States
        /\ \A k \in Modules : k # m => CloseModule(s, m, FALSE)[k] = s[k]
        /\ s[m].run = "off" => CloseModule(s, m, FALSE)[m] = s[m]
    BY <2>1, CloseModuleIs
  <2>3. CloseModule(s, m, FALSE)[Updater] = s[Updater]
    BY <2>1, <2>2 DEF Resting
  <2>4. QED
    BY <2>1, <2>2, <2>3 DEF UpdaterRests, Resting
<1>3. ASSUME NEW s \in EndedQuiet(ms), NEW m \in Modules
      PROVE  CloseModule(s, m, FALSE) \in EndedQuiet(ms)
  <2> DEFINE t == CloseModule(s, m, FALSE)
  <2>1. s \in States
    BY DEF EndedQuiet
  <2>2. /\ t \in States
        /\ \A k \in Modules : k # m => t[k] = s[k]
        /\ s[m].run = "off" => t[m] = s[m]
        /\ t[m].run = "off" => s[m].run = "off" \/ s[m].quiet
        /\ t[m].run # "off" => t[m].quiet = s[m].quiet
    BY <2>1, CloseModuleIs
  <2> HIDE DEF t
  <2>3. t[m].run # "off" => s[m].run # "off"
    BY <2>2
  <2>4. QED
    BY <2>2, <2>3 DEF EndedQuiet, t
<1>4. ms \in EndedQuiet(ms)
  BY DEF EndedQuiet
<1>5. QED
  BY <1>1, <1>2, <1>3, <1>4, ClosingIn

-----------------------------------------------------------------------------
(* The steps of the service *)

Messages == {"close_module", "start_module", "exit"}

\* A step that has the service quit does so without a module that answers.
EndsQuietly(ms) ==
    service /\ ~service' => \A m \in Modules : ms[m].run = "off" \/ ms[m].quiet

\* The updater rests also after the step.
StaysAtRest == Updater \notin AutoStart /\ mod \in UpdaterRests => mod' \in UpdaterRests

\* What the watch service starts from: every module off.
LEMMA LoadedIs ==
    /\ Loaded \in States
    /\ \A m \in Modules : Loaded[m].run = "off"
    /\ Updater \notin AutoStart => Loaded \in UpdaterRests
<1> DEFINE r(b) == [run |-> "off", need |-> b, starts |-> 0, heard |-> FALSE,
                    quiet |-> FALSE, slow |-> FALSE, missed |-> FALSE, told |-> FALSE]
<1>1. Loaded = [m \in Modules |-> r(m \in AutoStart)]
  BY DEF Loaded
<1>2. \A b \in BOOLEAN : r(b) \in Module /\ r(b).run = "off" /\ r(b).need = b
  BY DEF Module
<1> HIDE DEF r
<1>3. ASSUME NEW m \in Modules
      PROVE  Loaded[m] \in Module /\ Loaded[m].run = "off" /\ (m \notin AutoStart => ~Loaded[m].need)
  <2>1. Loaded[m] = r(m \in AutoStart)
    BY <1>1
  <2>2. CASE m \in AutoStart
    <3>1. Loaded[m] = r(TRUE)
      BY <2>1, <2>2
    <3>2. QED
      BY <1>2, <2>2, <3>1
  <2>3. CASE m \notin AutoStart
    <3>1. (m \in AutoStart) = FALSE
      BY <2>3
    <3>2. Loaded[m] = r(FALSE)
      BY <2>1, <3>1
    <3>3. QED
      BY <1>2, <2>3, <3>2
  <2>4. QED
    BY <2>2, <2>3
<1>4. Loaded = [m \in Modules |-> Loaded[m]]
  BY <1>1
<1>5. QED
  BY <1>3, <1>4, UpdateAssumption DEF UpdaterRests, Resting, States

\* The updater is told what has ended, and that it is to close.
LEMMA SendType ==
    ASSUME inbox \subseteq {"close", "closed"}, NEW s,
           Send(ClosedNow(s)) \/ Send(ClosedNow(s) \union {"close"})
    PROVE  inbox' \subseteq {"close", "closed"}
<1>1. ClosedNow(s) \subseteq {"close", "closed"}
  BY DEF ClosedNow
<1>2. QED
  BY <1>1 DEF Send

\* doCloseModules: what it leaves, and when it has the service quit.
LEMMA CloseModulesStep ==
    ASSUME ServiceTypeOK, NEW ms \in States, NEW act \in Final \union {"none", "restart"},
           NEW rest \in Nat, NEW queue \in Seq(Messages), CloseModules(ms, act, rest, queue)
    PROVE  /\ ServiceTypeOK'
           /\ EndsQuietly(ms)
           /\ Updater \notin AutoStart /\ ms \in UpdaterRests => mod' \in UpdaterRests
           /\ link = "none" => link' = "none"
           /\ act \in Final =>
                /\ action' = act /\ (UNCHANGED reinits \/ reinits' = 0)
                /\ \/ UNCHANGED <<service, strays, link>>
                   \/ QuitService
<1> DEFINE closing == Closing(ms)
<1>1. /\ closing \in States /\ closing \in EndedQuiet(ms)
      /\ ms \in UpdaterRests => closing \in UpdaterRests
  BY ClosingIs
<1>2. /\ Loaded \in States
      /\ Updater \notin AutoStart => Loaded \in UpdaterRests
  BY LoadedIs
<1>3. AllClosed(closing) => \A m \in Modules : ms[m].run = "off" \/ ms[m].quiet
  BY <1>1 DEF AllClosed, Running, EndedQuiet
<1>4. <<>> \in Seq(Messages) /\ {m \in Modules : Running(closing, m)} \subseteq Modules /\ rest + 1 \in Nat
  OBVIOUS
<1>5. act \in Final => act \notin {"none", "restart"}
  BY DEF Final
<1>6. \/ /\ ~AllClosed(closing)
         /\ mod' = closing /\ Send(ClosedNow(closing) \union {"close"})
         /\ retries' = rest + 1 /\ action' = act /\ checking' = FALSE
         /\ outbox' = queue
         /\ UNCHANGED <<service, strays, reinits, revivals, link>>
      \/ /\ AllClosed(closing) /\ act = "none"
         /\ mod' = closing /\ Send(ClosedNow(closing) \union {"close"})
         /\ retries' = rest /\ reinits' = reinits + 1
         /\ action' = act /\ checking' = FALSE /\ outbox' = queue
         /\ UNCHANGED <<service, strays, revivals, link>>
      \/ /\ AllClosed(closing) /\ act = "restart"
         /\ Reinitialize(closing)
         /\ retries' = rest /\ action' = "none"
         /\ UNCHANGED <<service, reinits, revivals>>
      \/ /\ AllClosed(closing) /\ act \in Final
         /\ QuitService
         /\ action' = act
  BY DEF CloseModules
<1> HIDE DEF closing
<1>7. CASE /\ mod' = closing /\ Send(ClosedNow(closing) \union {"close"})
           /\ retries' \in {rest, rest + 1} /\ reinits' \in {reinits, reinits + 1}
           /\ action' = act /\ checking' = FALSE /\ outbox' = queue
           /\ UNCHANGED <<service, strays, revivals, link>>
           /\ act \in Final => UNCHANGED reinits
  <2>1. inbox' \subseteq {"close", "closed"}
    BY <1>7, SendType DEF ServiceTypeOK
  <2>2. retries' \in Nat /\ reinits' \in Nat
    BY <1>7, <1>4 DEF ServiceTypeOK
  <2>3. ServiceTypeOK'
    BY <1>1, <1>7, <2>1, <2>2 DEF ServiceTypeOK, States, Messages
  <2>4. QED
    BY <1>1, <1>7, <2>3 DEF EndsQuietly
<1>8. CASE /\ act = "restart" /\ Reinitialize(closing) /\ retries' = rest /\ action' = "none"
           /\ UNCHANGED <<service, reinits, revivals>>
  <2>1. ServiceTypeOK'
    BY <1>2, <1>4, <1>8 DEF Reinitialize, Disconnects, ServiceTypeOK, States, Messages
  <2>2. QED
    BY <1>2, <1>5, <1>8, <2>1 DEF EndsQuietly, Reinitialize, Disconnects
<1>9. CASE AllClosed(closing) /\ act \in Final /\ QuitService /\ action' = act
  <2>1. ServiceTypeOK'
    BY <1>2, <1>4, <1>9 DEF QuitService, Disconnects, ServiceTypeOK, States, Messages
  <2>2. QED
    BY <1>2, <1>3, <1>9, <2>1 DEF EndsQuietly, QuitService, Disconnects
<1>10. QED
  BY <1>5, <1>6, <1>7, <1>8, <1>9

\* A step keeps the types, quits only when nothing answers, and leaves the updater
\* at rest.
Decent == ServiceTypeOK' /\ EndsQuietly(mod) /\ StaysAtRest

\* The service goes on with other states of the modules.
LEMMA BecomesStep ==
    ASSUME ServiceTypeOK, NEW ms \in States, Becomes(ms),
           UNCHANGED <<service, checking, action, strays, link>>,
           outbox' \in Seq(Messages), retries' \in Nat, reinits' \in Nat, revivals' \in Nat,
           Updater \notin AutoStart /\ mod \in UpdaterRests => ms \in UpdaterRests
    PROVE  Decent
<1>1. mod' = ms /\ inbox' \subseteq {"close", "closed"}
  BY SendType DEF Becomes, ServiceTypeOK
<1>2. ServiceTypeOK'
  BY <1>1 DEF ServiceTypeOK, States, Messages
<1>3. QED
  BY <1>1, <1>2 DEF Decent, EndsQuietly, StaysAtRest

\* One field of one module changes.
LEMMA OneModule ==
    ASSUME NEW s \in States, NEW m \in Modules, NEW r \in Module
    PROVE  /\ [s EXCEPT ![m] = r] \in States
           /\ m # Updater \/ (r.need = s[m].need /\ (s[m].run = "off" => r.run = "off"))
                => (s \in UpdaterRests => [s EXCEPT ![m] = r] \in UpdaterRests)
<1>1. [s EXCEPT ![m] = r] \in States
  BY DEF States
<1>2. [s EXCEPT ![m] = r][Updater] = IF m = Updater THEN r ELSE s[Updater]
  BY UpdateAssumption DEF States
<1>3. QED
  BY <1>1, <1>2 DEF UpdaterRests, Resting

\* start_module, by the kiosk or the updater.
LEMMA StartStep ==
    ASSUME ServiceTypeOK, NEW m \in Modules, NEW sender \in Modules, NEW queue \in Seq(Messages),
           Start(m, sender, queue)
    PROVE  ServiceTypeOK' /\ EndsQuietly(mod) /\ (m # Updater => StaysAtRest)
<1> DEFINE r == [mod[m] EXCEPT !.need = TRUE, !.starts = 0]
           asked == [mod EXCEPT ![m] = r]
           checked == Checked(asked)
           touched == Sent(sender, checked)
<1>1. mod \in States
  BY DEF ServiceTypeOK, States
<1>2. r \in Module
  BY <1>1, RecordTypes DEF States
<1>3. [mod EXCEPT ![m].need = TRUE, ![m].starts = 0] = asked
  BY <1>1 DEF States
<1> HIDE DEF r
<1>4. asked \in States /\ (m # Updater /\ mod \in UpdaterRests => asked \in UpdaterRests)
  BY <1>1, <1>2, OneModule
<1> HIDE DEF asked
<1>5. checked \in States /\ (m # Updater /\ mod \in UpdaterRests => checked \in UpdaterRests)
  BY <1>4, CheckedIs
<1> HIDE DEF checked
<1>6. touched \in States /\ (m # Updater /\ mod \in UpdaterRests => touched \in UpdaterRests)
  <2>1. CASE Running(checked, sender)
    <3>1. Touched(checked[sender]) \in Module
      BY <1>5, RecordTypes DEF States
    <3>2. touched = [checked EXCEPT ![sender] = Touched(checked[sender])]
      BY <1>5, <2>1 DEF Sent, States
    <3>3. [checked EXCEPT ![sender] = Touched(checked[sender])] \in States
      BY <1>5, <3>1, OneModule
    <3>4. sender # Updater \/ checked \notin UpdaterRests
      BY <2>1 DEF Running, UpdaterRests, Resting
    <3>5. checked \in UpdaterRests => [checked EXCEPT ![sender] = Touched(checked[sender])] \in UpdaterRests
      BY <1>5, <3>1, <3>4, OneModule
    <3>6. QED
      BY <1>5, <3>2, <3>3, <3>5
  <2>2. CASE ~Running(checked, sender)
    BY <1>5, <2>2 DEF Sent
  <2>3. QED
    BY <2>1, <2>2
<1>7. /\ Becomes(touched) /\ outbox' = queue
      /\ UNCHANGED <<service, checking, action, strays, timers, link>>
  BY <1>3 DEF Start, touched, checked
<1> HIDE DEF touched
<1>8. mod' = touched /\ inbox' \subseteq {"close", "closed"}
  BY <1>7, SendType DEF Becomes, ServiceTypeOK
<1>9. ServiceTypeOK'
  BY <1>6, <1>7, <1>8 DEF ServiceTypeOK, States, Messages, timers
<1>10. QED
  BY <1>6, <1>7, <1>8, <1>9 DEF EndsQuietly, StaysAtRest

\* close_module.
LEMMA CloseStep ==
    ASSUME ServiceTypeOK, NEW m \in Modules, NEW queue \in Seq(Messages), Close(m, queue)
    PROVE  Decent
<1> DEFINE r == [mod[m] EXCEPT !.need = FALSE]
           asked == [mod EXCEPT ![m] = r]
           checked == Checked(asked)
<1>1. mod \in States
  BY DEF ServiceTypeOK, States
<1>2. r \in Module /\ r.run = mod[m].run /\ r.need = FALSE
  <2>1. mod[m] \in Module
    BY <1>1 DEF States
  <2>2. r \in Module
    BY <2>1, RecordTypes
  <2>3. QED
    BY <2>1, <2>2 DEF Module
<1>3. [mod EXCEPT ![m].need = FALSE] = asked
  BY <1>1 DEF States
<1> HIDE DEF r
<1>4. asked \in States /\ (mod \in UpdaterRests => asked \in UpdaterRests)
  <2>1. mod \in UpdaterRests /\ m = Updater => r.need = mod[m].need
    BY <1>1, <1>2 DEF UpdaterRests, Resting, States, Module
  <2>2. QED
    BY <1>1, <1>2, <2>1, OneModule
<1> HIDE DEF asked
<1>5. checked \in States /\ (mod \in UpdaterRests => checked \in UpdaterRests)
  BY <1>4, CheckedIs
<1>6. /\ Becomes(checked) /\ outbox' = queue
      /\ UNCHANGED <<service, checking, action, strays, retries, reinits, link>>
      /\ revivals' \in {revivals, revivals + 1}
  BY <1>3 DEF Close, checked
<1> HIDE DEF checked
<1>7. retries' \in Nat /\ reinits' \in Nat /\ revivals' \in Nat
  BY <1>6 DEF ServiceTypeOK
<1>8. QED
  BY <1>5, <1>6, <1>7, BecomesStep

\* restart, exit, reboot and shutdown.
LEMMA CommandStep ==
    ASSUME ServiceTypeOK, NEW act \in Final \union {"restart"}, NEW queue \in Seq(Messages),
           Command(act, queue)
    PROVE  /\ Decent
           /\ link = "none" => link' = "none"
           /\ act \in Final =>
                /\ action' = act /\ (UNCHANGED reinits \/ reinits' = 0)
                /\ UNCHANGED <<service, strays, link>> \/ QuitService
<1>1. mod \in States /\ retries \in Nat
  BY DEF ServiceTypeOK, States
<1>2. ASSUME NEW m \in Modules
      PROVE  /\ NoneWanted(mod)[m] \in Module /\ NoneWanted(mod)[m].run = mod[m].run
             /\ NoneWanted(mod)[m].quiet = mod[m].quiet /\ ~NoneWanted(mod)[m].need
  <2>1. mod[m] \in Module /\ NoneWanted(mod)[m] = [mod[m] EXCEPT !.need = FALSE]
    BY <1>1 DEF NoneWanted, States
  <2>2. QED
    BY <2>1 DEF Module
<1>3. NoneWanted(mod) \in States
  BY <1>2 DEF NoneWanted, States
<1>4. mod \in UpdaterRests => NoneWanted(mod) \in UpdaterRests
  BY <1>2, <1>3, UpdateAssumption DEF UpdaterRests, Resting
<1>5. CloseModules(NoneWanted(mod), act, retries, queue) /\ act \in Final \union {"none", "restart"}
  BY DEF Command
<1>6. EndsQuietly(NoneWanted(mod)) => EndsQuietly(mod)
  BY <1>2 DEF EndsQuietly
<1>7. QED
  BY <1>1, <1>3, <1>4, <1>5, <1>6, CloseModulesStep DEF Decent, StaysAtRest

\* The timers of the service.
LEMMA ServiceStep ==
    ASSUME ServiceTypeOK, Service
    PROVE  Decent
<1>1. mod \in States /\ outbox \in Seq(Messages)
  BY DEF ServiceTypeOK, States, Messages
<1>2. CASE CheckModules
  <2>1. Checked(mod) \in States /\ (mod \in UpdaterRests => Checked(mod) \in UpdaterRests)
    BY <1>1, CheckedIs
  <2>2. /\ Becomes(Checked(mod)) /\ UNCHANGED <<service, checking, action, strays, link, outbox>>
        /\ retries' \in Nat /\ reinits' \in Nat /\ revivals' \in Nat
    BY <1>2 DEF CheckModules, timers, ServiceTypeOK
  <2>3. QED
    BY <1>1, <2>1, <2>2, BecomesStep
<1>3. CASE Retry
  <2>1. /\ action \in Final \union {"none", "restart"} /\ retries - 1 \in Nat
        /\ CloseModules(mod, action, retries - 1, outbox)
    BY <1>3 DEF Retry, ServiceTypeOK
  <2>2. QED
    BY <1>1, <2>1, CloseModulesStep DEF Decent, StaysAtRest
<1>4. CASE Reinit
  <2>1. reinits' \in Nat /\ <<>> \in Seq(Messages)
    BY <1>4 DEF Reinit, ServiceTypeOK
  <2>2. ServiceTypeOK'
    BY <1>1, <1>4, <2>1, LoadedIs DEF Reinit, Reinitialize, Disconnects, ServiceTypeOK, States, Messages
  <2>3. QED
    BY <1>4, <2>2, LoadedIs DEF Reinit, Reinitialize, Decent, EndsQuietly, StaysAtRest
<1>5. CASE Revive
  <2>1. /\ Revived(mod) \in States
        /\ Updater \notin AutoStart /\ mod \in UpdaterRests => Revived(mod) \in UpdaterRests
    BY <1>1, RevivedIs
  <2>2. /\ Becomes(Revived(mod)) /\ UNCHANGED <<service, checking, action, strays, link, outbox>>
        /\ retries' \in Nat /\ reinits' \in Nat /\ revivals' \in Nat
    BY <1>5 DEF Revive, ServiceTypeOK
  <2>3. QED
    BY <1>1, <2>1, <2>2, BecomesStep
<1>6. QED
  BY <1>2, <1>3, <1>4, <1>5 DEF Service

\* The processes answer, end or hang; without the service they are gone.
LEMMA ProcessStep ==
    ASSUME ServiceTypeOK, NEW m \in Modules,
           Ping(m) \/ ModuleCloses(m) \/ Silence(m) \/ StrayCloses(m) \/ Hang(m) \/ Crash(m)
    PROVE  /\ Decent
           /\ UNCHANGED <<service, action, retries, reinits, link>> /\ strays' \subseteq strays
           /\ ~service /\ (\A k \in Modules : mod[k].run = "off") => UNCHANGED mod
<1> DEFINE r == mod[m]
<1>1. mod \in States /\ outbox \in Seq(Messages) /\ r \in Module
  BY DEF ServiceTypeOK, States, Messages
<1>2. ASSUME NEW q \in Module, mod' = [mod EXCEPT ![m] = q], q.need = r.need, r.run # "off",
             UNCHANGED <<service, checking, action, strays, timers, link, outbox>>,
             UNCHANGED inbox \/ Becomes([mod EXCEPT ![m] = q])
      PROVE  Decent
  <2>1. mod' \in States /\ (mod \in UpdaterRests => mod' \in UpdaterRests)
    BY <1>1, <1>2, OneModule
  <2>2. inbox' \subseteq {"close", "closed"}
    BY <1>2, SendType DEF Becomes, ServiceTypeOK
  <2>3. ServiceTypeOK'
    BY <1>2, <2>1, <2>2 DEF ServiceTypeOK, States, timers
  <2>4. QED
    BY <1>2, <2>1, <2>3 DEF Decent, EndsQuietly, StaysAtRest
<1>3. CASE Ping(m)
  <2>1. Touched(r) \in Module /\ Touched(r).need = r.need
    <3>1. Touched(r).need = r.need
      BY <1>1 DEF Touched, Module
    <3>2. QED
      BY <1>1, <3>1, RecordTypes
  <2>2. mod' = [mod EXCEPT ![m] = Touched(r)]
    BY <1>1, <1>3 DEF Ping, States
  <2> HIDE DEF r
  <2>3. r.run # "off"
    BY <1>3 DEF Ping, r
  <2>4. Decent
    BY <1>2, <1>3, <2>1, <2>2, <2>3 DEF Ping
  <2>5. QED
    BY <1>3, <2>4 DEF Ping, timers
<1>4. CASE ModuleCloses(m) \/ Crash(m)
  <2>1. Ended(r) \in Module /\ Ended(r).need = r.need
    <3>1. Ended(r).need = r.need
      BY <1>1 DEF Ended, Module
    <3>2. QED
      BY <1>1, <3>1, RecordTypes
  <2>2. Becomes([mod EXCEPT ![m] = Ended(r)]) /\ r.run # "off"
    BY <1>1, <1>4 DEF ModuleCloses, Crash, States, Running
  <2>3. mod' = [mod EXCEPT ![m] = Ended(r)]
    BY <2>2 DEF Becomes
  <2>4. UNCHANGED <<service, checking, action, strays, timers, link, outbox>>
    BY <1>4 DEF ModuleCloses, Crash
  <2>5. Decent
    BY <1>2, <2>1, <2>2, <2>3, <2>4
  <2>6. QED
    BY <2>2, <2>4, <2>5 DEF timers
<1>5. CASE Silence(m)
  <2>1. \E q \in {[r EXCEPT !.quiet = TRUE], [r EXCEPT !.slow = TRUE]} :
           q \in Module /\ q.need = r.need /\ mod' = [mod EXCEPT ![m] = q]
    BY <1>1, <1>5 DEF Silence, States, Module
  <2>2. r.run # "off" /\ UNCHANGED <<service, checking, action, strays, timers, link, inbox, outbox>>
    BY <1>5 DEF Silence
  <2> HIDE DEF r
  <2>3. Decent
    BY <1>2, <2>1, <2>2
  <2>4. QED
    BY <2>2, <2>3 DEF timers, r
<1>6. CASE Hang(m)
  <2>1. [r EXCEPT !.run = "hung"] \in Module /\ [r EXCEPT !.run = "hung"].need = r.need
    BY <1>1 DEF Module
  <2>2. mod' = [mod EXCEPT ![m] = [r EXCEPT !.run = "hung"]] /\ r.run # "off"
    BY <1>1, <1>6 DEF Hang, States
  <2>3. UNCHANGED <<service, checking, action, strays, timers, link, inbox, outbox>>
    BY <1>6 DEF Hang
  <2>4. Decent
    BY <1>2, <2>1, <2>2, <2>3
  <2>5. QED
    BY <2>2, <2>3, <2>4 DEF timers
<1>7. CASE StrayCloses(m)
  <2>1. strays' \subseteq strays /\ UNCHANGED <<service, checking, action, mod, timers, link, inbox, outbox>>
    BY <1>7 DEF StrayCloses
  <2>2. ServiceTypeOK'
    BY <2>1 DEF ServiceTypeOK, timers
  <2>3. QED
    BY <2>1, <2>2 DEF Decent, EndsQuietly, StaysAtRest, timers
<1>8. QED
  BY <1>3, <1>4, <1>5, <1>6, <1>7

-----------------------------------------------------------------------------
(* The terminal *)

TerminalTypeOK ==
    ServiceTypeOK /\ app \in Apps /\ issued \subseteq Others /\ asks \in 0..MaxAsks

\* As long as nobody has the service restarted, no module is left running by it:
\* it goes down with all of them, and then the updater that waits for that finds
\* nothing running.
Undisturbed ==
    "restart" \notin issued =>
        /\ strays = {} /\ reinits = 0
        /\ action # "restart" /\ (retries > 0 => action # "none")
        /\ app \in {"none", "left", "deploy"} => link = "none"
        /\ link = "cut" \/ app = "deploy" => ~service
        /\ ~service => mod = Loaded /\ retries = 0

\* Before the first update command the updater is not there.
Unasked == asks = 0 => app = "none" /\ link = "none" /\ mod \in UpdaterRests

TerminalInv == TerminalTypeOK /\ Undisturbed /\ (Updater \notin AutoStart => Unasked)

\* A step that keeps the invariant and has the service quit only when nothing
\* answers.
Sound == TerminalInv' /\ EndsQuietly(mod)

\* The invariant at the first start.
LEMMA TerminalInit == Init => TerminalInv
<1> SUFFICES ASSUME Init PROVE TerminalInv
  OBVIOUS
<1>1. mod \in States /\ (Updater \notin AutoStart => mod \in UpdaterRests)
  BY LoadedIs DEF Init, ServiceInit
<1>2. ServiceTypeOK
  BY <1>1 DEF Init, ServiceInit, ServiceTypeOK, States
<1>3. asks \in 0..MaxAsks /\ app \in Apps
  BY UpdateAssumption DEF Init, Apps
<1>4. Undisturbed
  BY DEF Init, ServiceInit, Undisturbed
<1>5. QED
  BY <1>1, <1>2, <1>3, <1>4 DEF TerminalInv, TerminalTypeOK, Unasked, Init, ServiceInit

\* A step of the service that is up, and goes on.
LEMMA GoesOn ==
    ASSUME TerminalInv, Decent, service, UNCHANGED <<service, app, issued, asks>>,
           UNCHANGED <<action, strays, retries, reinits, link>>
    PROVE  Sound
<1>1. Undisturbed'
  BY DEF TerminalInv, Undisturbed
<1>2. QED
  BY <1>1 DEF TerminalInv, TerminalTypeOK, Decent, Sound, Unasked, StaysAtRest

\* A step by which the service closes the modules for good.
LEMMA ClosesDown ==
    ASSUME TerminalInv, Decent, service, UNCHANGED <<app, asks>>, issued \subseteq issued',
           issued' \subseteq Others,
           "restart" \notin issued' =>
               /\ action' \in Final /\ (UNCHANGED reinits \/ reinits' = 0)
               /\ UNCHANGED <<service, strays, link>> \/ QuitService,
           link = "none" => link' = "none"
    PROVE  Sound
<1>1. Undisturbed'
  <2> SUFFICES ASSUME "restart" \notin issued'
               PROVE  Undisturbed'
    BY DEF Undisturbed
  <2>1. /\ strays = {} /\ reinits = 0
        /\ app \in {"none", "left", "deploy"} => link = "none"
        /\ link # "cut" /\ app # "deploy"
    BY DEF TerminalInv, Undisturbed
  <2>2. action' \notin {"none", "restart"} /\ reinits' = 0
    BY <2>1 DEF Final
  <2>3. CASE UNCHANGED <<service, strays, link>>
    BY <2>1, <2>2, <2>3 DEF Undisturbed
  <2>4. CASE QuitService
    BY <2>1, <2>2, <2>4 DEF Undisturbed, QuitService, Disconnects
  <2>5. QED
    BY <2>3, <2>4
<1>2. QED
  BY <1>1 DEF TerminalInv, TerminalTypeOK, Decent, Sound, Unasked, StaysAtRest

\* A step of the updater.
LEMMA UpdaterKeeps ==
    ASSUME TerminalInv, UNCHANGED serviceSide, app' \in Apps, link' \in {"none", "up", "cut"},
           inbox' \subseteq {"close", "closed"}, outbox' \in Seq(Messages),
           app' \in {"none", "left", "deploy"} => link' = "none" \/ UNCHANGED <<app, link>>,
           link' = "cut" \/ app' = "deploy" => link = "cut" \/ UNCHANGED <<app, link>>,
           app = "none" => UNCHANGED app,
           link = "none" => UNCHANGED link
    PROVE  Sound
<1>1. TerminalTypeOK'
  BY DEF TerminalInv, TerminalTypeOK, ServiceTypeOK, serviceSide, timers, Messages
<1>2. Undisturbed'
  BY DEF TerminalInv, Undisturbed, serviceSide, timers
<1>3. (Updater \notin AutoStart => Unasked)'
  BY DEF TerminalInv, Unasked, serviceSide, UpdaterRests
<1>4. QED
  BY <1>1, <1>2, <1>3 DEF TerminalInv, Sound, EndsQuietly, serviceSide

\* What is sent to the service is one of the messages.
LEMMA SendsType ==
    ASSUME ServiceTypeOK, NEW q \in Seq(Messages), Sends(q)
    PROVE  outbox' \in Seq(Messages)
<1>1. outbox \in Seq(Messages) /\ outbox \o q \in Seq(Messages)
  BY DEF ServiceTypeOK, Messages
<1>2. QED
  BY <1>1 DEF Sends

\* What the updater does on its way to its end.
LEMMA UpdaterSound ==
    ASSUME TerminalInv,
           \/ Download \/ ToldToClose \/ TooLong \/ KioskClosed \/ FailStopClient \/ ErrorExit
           \/ Disconnected \/ Finish
    PROVE  Sound
<1>1. /\ ServiceTypeOK /\ outbox \in Seq(Messages) /\ app \in Apps
      /\ link \in {"none", "up", "cut"} /\ inbox \subseteq {"close", "closed"}
  BY DEF TerminalInv, TerminalTypeOK, ServiceTypeOK, Messages
<1>2. \A x \in Messages : <<x>> \in Seq(Messages)
  OBVIOUS
<1>3. {"close_module", "start_module", "exit"} \subseteq Messages
  BY DEF Messages
<1>4. CASE Download
  <2>1. /\ app = "download" /\ app' \in {"waiting", "finish", "download"}
        /\ UNCHANGED outbox \/ Sends(<<"close_module">>)
        /\ UNCHANGED <<link, inbox, serviceSide>>
    BY <1>4 DEF Download
  <2>2. outbox' \in Seq(Messages)
    BY <1>1, <1>2, <1>3, <2>1, SendsType
  <2>3. QED
    BY <1>1, <2>1, <2>2, UpdaterKeeps DEF Apps
<1>5. CASE ToldToClose
  <2>1. /\ UNCHANGED <<outbox, serviceSide>>
        /\ \/ app = "download" /\ Exits
           \/ UNCHANGED <<app, link>> /\ inbox' \subseteq inbox
    BY <1>5 DEF ToldToClose
  <2>2. app = "download" /\ Exits => app' = "none" /\ link' = "none" /\ inbox' = {}
    BY DEF Exits
  <2>3. QED
    BY <1>1, <2>1, <2>2, UpdaterKeeps DEF Apps
<1>6. CASE TooLong \/ ErrorExit \/ Finish
  <2>1. /\ app \in {"download", "failing", "leaving", "finish"}
        /\ Exits /\ UNCHANGED <<outbox, serviceSide>>
    BY <1>6 DEF TooLong, ErrorExit, Finish
  <2>2. app' \in {"none", "left"} /\ link' = "none" /\ inbox' = {}
    BY <2>1 DEF Exits
  <2>3. QED
    BY <1>1, <2>1, <2>2, UpdaterKeeps DEF Apps
<1>7. CASE KioskClosed
  <2>1. /\ UNCHANGED <<link, serviceSide>> /\ inbox' \subseteq inbox
        /\ \/ UNCHANGED <<app, outbox>>
           \/ app \in {"waiting", "failing"} /\ app' \in {"asked", "leaving"} /\ Sends(<<"exit">>)
    BY <1>7 DEF KioskClosed, Answer
  <2>2. outbox' \in Seq(Messages)
    BY <1>1, <1>2, <1>3, <2>1, SendsType
  <2>3. QED
    BY <1>1, <2>1, <2>2, UpdaterKeeps DEF Apps
<1>8. CASE FailStopClient
  <2>1. /\ app = "waiting" /\ app' = "failing" /\ Sends(<<"start_module">>)
        /\ UNCHANGED <<link, inbox, serviceSide>>
    BY <1>8 DEF FailStopClient
  <2>2. outbox' \in Seq(Messages)
    BY <1>1, <1>2, <1>3, <2>1, SendsType
  <2>3. QED
    BY <1>1, <2>1, <2>2, UpdaterKeeps DEF Apps
<1>9. CASE Disconnected
  <2>1. /\ link = "cut" /\ UNCHANGED <<inbox, outbox, serviceSide>>
        /\ \/ app = "download" /\ link' = "up" /\ UNCHANGED app
           \/ app = "finish" /\ link' = "none" /\ UNCHANGED app
           \/ link' = "none" /\ app' = "deploy"
    BY <1>9 DEF Disconnected
  <2>2. app # "none" \/ ("restart" \in issued /\ (Updater \notin AutoStart => asks # 0))
    BY <2>1 DEF TerminalInv, Undisturbed, Unasked
  <2>3. CASE app # "none"
    BY <1>1, <2>1, <2>3, UpdaterKeeps DEF Apps
  <2>4. CASE "restart" \in issued /\ (Updater \notin AutoStart => asks # 0)
    <3>1. "restart" \in issued' /\ asks' = asks /\ mod' = mod /\ service' = service
      BY <2>1, <2>4 DEF serviceSide
    <3>2. TerminalTypeOK'
      BY <1>1, <2>1 DEF TerminalInv, TerminalTypeOK, ServiceTypeOK, serviceSide, timers, Apps
    <3>3. QED
      BY <2>4, <3>1, <3>2 DEF TerminalInv, Sound, Undisturbed, Unasked, EndsQuietly
  <2>5. QED
    BY <2>2, <2>3, <2>4
<1>10. QED
  BY <1>4, <1>5, <1>6, <1>7, <1>8, <1>9

\* The updater runs itself again, and so leaves the service's sight.
LEMMA DetachSound ==
    ASSUME TerminalInv, Detach
    PROVE  Sound
<1>1. ServiceTypeOK /\ mod \in States /\ Updater \in Modules /\ mod[Updater] \in Module
  BY UpdateAssumption DEF TerminalInv, TerminalTypeOK, ServiceTypeOK, States
<1>2. /\ service /\ mod[Updater].run = "up" /\ app \in {"none", "left"}
      /\ mod' = [mod EXCEPT ![Updater] = Ended(mod[Updater])]
      /\ app' = "download" /\ link' = "up"
      /\ UNCHANGED <<service, checking, action, strays, timers, inbox, outbox, issued, asks>>
  BY <1>1 DEF Detach, States
<1>3. Ended(mod[Updater]) \in Module
  BY <1>1, RecordTypes
<1>4. mod' \in States
  BY <1>1, <1>2, <1>3 DEF States
<1>5. TerminalTypeOK'
  BY <1>1, <1>2, <1>4 DEF TerminalInv, TerminalTypeOK, ServiceTypeOK, States, timers, Apps
<1>6. Undisturbed'
  BY <1>2 DEF TerminalInv, Undisturbed, timers
<1>7. Updater \notin AutoStart => asks # 0
  BY <1>2 DEF TerminalInv, Unasked, UpdaterRests, Resting
<1>8. QED
  BY <1>2, <1>5, <1>6, <1>7 DEF TerminalInv, Sound, Unasked, EndsQuietly

\* The files are replaced, and the service is launched after the last of them.
LEMMA DeploySound ==
    ASSUME TerminalInv, DeployFiles
    PROVE  Sound
<1>1. /\ app = "deploy" /\ UNCHANGED <<link, inbox, outbox, issued, asks>>
      /\ \/ app' = "finish" /\ Launched
         \/ UNCHANGED <<app, service, checking, action, mod, strays, timers>>
  BY DEF DeployFiles
<1>2. CASE UNCHANGED <<app, service, checking, action, mod, strays, timers>>
  BY <1>1, <1>2, UpdaterKeeps DEF serviceSide, TerminalInv, TerminalTypeOK, ServiceTypeOK, Messages
<1>3. CASE app' = "finish" /\ Launched
  <2>1. /\ service' = TRUE /\ UNCHANGED <<strays, timers>>
        /\ UNCHANGED <<checking, action, mod>> \/ (checking' = TRUE /\ action' = "none" /\ mod' = Loaded)
        /\ ~service => action' = "none"
    BY <1>3 DEF Launched
  <2>2. Updater \notin AutoStart => asks # 0
    BY <1>1 DEF TerminalInv, Unasked
  <2>3. TerminalTypeOK'
    BY <1>1, <1>3, <2>1, LoadedIs
       DEF TerminalInv, TerminalTypeOK, ServiceTypeOK, States, timers, Apps
  <2>4. Undisturbed'
    BY <1>1, <1>3, <2>1 DEF TerminalInv, Undisturbed, timers
  <2>5. QED
    BY <1>1, <2>1, <2>2, <2>3, <2>4 DEF TerminalInv, Sound, Unasked, EndsQuietly
<1>4. QED
  BY <1>1, <1>2, <1>3

\* The server's command.
LEMMA AskSound ==
    ASSUME TerminalInv, Ask
    PROVE  Sound
<1>1. ServiceTypeOK /\ outbox \in Seq(Messages) /\ Updater \in Modules /\ Kiosk \in Modules /\ asks \in Nat
  BY ConfigurationAssumption, UpdateAssumption DEF TerminalInv, TerminalTypeOK, ServiceTypeOK, Messages
<1>2. Start(Updater, Kiosk, outbox)
  BY DEF Ask
<1>3. ServiceTypeOK' /\ EndsQuietly(mod)
  BY <1>1, <1>2, StartStep
<1>4. /\ service /\ UNCHANGED <<service, action, strays, retries, reinits, link, app, issued>>
      /\ asks' = asks + 1 /\ asks < MaxAsks
  BY <1>2 DEF Ask, Start, timers
<1>5. asks' \in 0..MaxAsks /\ asks' # 0
  BY <1>1, <1>4, UpdateAssumption
<1>6. TerminalTypeOK'
  BY <1>3, <1>4, <1>5 DEF TerminalInv, TerminalTypeOK
<1>7. Undisturbed'
  BY <1>4 DEF TerminalInv, Undisturbed
<1>8. QED
  BY <1>3, <1>5, <1>6, <1>7 DEF TerminalInv, Sound, Unasked

\* The service takes a message of the updater.
LEMMA HandleSound ==
    ASSUME TerminalInv, Handle
    PROVE  Sound
<1>1. ServiceTypeOK /\ outbox \in Seq(Messages) /\ Updater \in Modules /\ Kiosk \in Modules /\ Kiosk # Updater
  BY ConfigurationAssumption, UpdateAssumption DEF TerminalInv, TerminalTypeOK, ServiceTypeOK, Messages
<1>2. Tail(outbox) \in Seq(Messages)
  BY <1>1 DEF Handle
<1>3. UNCHANGED <<app, issued, asks>>
  BY DEF Handle, updaterSide
<1>4. CASE Close(Kiosk, Tail(outbox))
  <2>1. Decent
    BY <1>1, <1>2, <1>4, CloseStep
  <2>2. service /\ UNCHANGED <<service, action, strays, retries, reinits, link>>
    BY <1>4 DEF Close
  <2>3. QED
    BY <1>3, <2>1, <2>2, GoesOn
<1>5. CASE Start(Kiosk, Updater, Tail(outbox))
  <2>1. Decent
    BY <1>1, <1>2, <1>5, StartStep DEF Decent
  <2>2. service /\ UNCHANGED <<service, action, strays, retries, reinits, link>>
    BY <1>5 DEF Start, timers
  <2>3. QED
    BY <1>3, <2>1, <2>2, GoesOn
<1>6. CASE Command("exit", Tail(outbox))
  <2>1. "exit" \in Final
    BY DEF Final
  <2>2. /\ Decent /\ action' \in Final
        /\ UNCHANGED reinits \/ reinits' = 0
        /\ UNCHANGED <<service, strays, link>> \/ QuitService
        /\ link = "none" => link' = "none"
    BY <1>1, <1>2, <1>6, <2>1, CommandStep
  <2>3. service /\ issued' \subseteq Others
    BY <1>3, <1>6 DEF Command, TerminalInv, TerminalTypeOK
  <2>4. QED
    BY <1>3, <2>2, <2>3, ClosesDown
<1>7. QED
  BY <1>4, <1>5, <1>6 DEF Handle

\* The timers of the service.
LEMMA ServiceSound ==
    ASSUME TerminalInv, Service
    PROVE  Sound
<1>1. ServiceTypeOK /\ mod \in States /\ outbox \in Seq(Messages)
  BY DEF TerminalInv, TerminalTypeOK, ServiceTypeOK, States, Messages
<1>2. Decent
  BY <1>1, ServiceStep
<1>3. UNCHANGED <<app, issued, asks>> /\ issued' \subseteq Others
  BY DEF Service, updaterSide, TerminalInv, TerminalTypeOK
<1>4. CASE CheckModules \/ Revive
  <2>1. service /\ UNCHANGED <<service, action, strays, retries, reinits, link>>
    BY <1>4 DEF CheckModules, Revive, timers
  <2>2. QED
    BY <1>2, <1>3, <2>1, GoesOn
<1>5. CASE Retry
  <2>1. /\ action \in Final \union {"none", "restart"} /\ retries - 1 \in Nat /\ service /\ retries > 0
        /\ CloseModules(mod, action, retries - 1, outbox)
    BY <1>1, <1>5 DEF Retry, ServiceTypeOK
  <2>2. /\ link = "none" => link' = "none"
        /\ action \in Final =>
             /\ action' = action /\ (UNCHANGED reinits \/ reinits' = 0)
             /\ UNCHANGED <<service, strays, link>> \/ QuitService
    BY <1>1, <2>1, CloseModulesStep
  <2>3. "restart" \notin issued' => action \in Final
    BY <1>3, <2>1 DEF TerminalInv, Undisturbed
  <2>4. QED
    BY <1>2, <1>3, <2>1, <2>2, <2>3, ClosesDown
<1>6. CASE Reinit
  <2>1. service /\ (link = "none" => link' = "none")
    BY <1>6 DEF Reinit, Reinitialize, Disconnects
  <2>2. "restart" \in issued'
    BY <1>1, <1>3, <1>6 DEF Reinit, TerminalInv, Undisturbed
  <2>3. QED
    BY <1>2, <1>3, <2>1, <2>2, ClosesDown
<1>7. QED
  BY <1>4, <1>5, <1>6 DEF Service

\* The commands of others.
LEMMA OtherCommandSound ==
    ASSUME TerminalInv, OtherCommand
    PROVE  Sound
<1>1. ServiceTypeOK /\ outbox \in Seq(Messages)
  BY DEF TerminalInv, TerminalTypeOK, ServiceTypeOK, Messages
<1>2. PICK act \in Others \ issued : issued' = issued \union {act} /\ Command(act, outbox)
  BY DEF OtherCommand
<1>3. act \in Final \union {"restart"} /\ UNCHANGED <<app, asks>>
  BY UpdateAssumption DEF OtherCommand
<1>4. /\ Decent /\ (link = "none" => link' = "none")
      /\ act \in Final =>
           /\ action' = act /\ (UNCHANGED reinits \/ reinits' = 0)
           /\ UNCHANGED <<service, strays, link>> \/ QuitService
  BY <1>1, <1>2, <1>3, CommandStep
<1>5. /\ service /\ issued \subseteq issued' /\ issued' \subseteq Others
      /\ "restart" \notin issued' => act \in Final
  BY <1>2, <1>3 DEF Command, TerminalInv, TerminalTypeOK
<1>6. QED
  BY <1>3, <1>4, <1>5, ClosesDown

\* The processes, the kiosk that fails among them.
LEMMA ProcessesSound ==
    ASSUME TerminalInv, Live \/ KioskFails
    PROVE  Sound
<1>1. ServiceTypeOK
  BY DEF TerminalInv, TerminalTypeOK
<1>2. PICK m \in Modules : Ping(m) \/ ModuleCloses(m) \/ Silence(m) \/ StrayCloses(m) \/ Hang(m) \/ Crash(m)
  BY ConfigurationAssumption DEF Live, Processes, KioskFails
<1>3. /\ Decent
      /\ UNCHANGED <<service, action, retries, reinits, link>> /\ strays' \subseteq strays
      /\ ~service /\ (\A k \in Modules : mod[k].run = "off") => UNCHANGED mod
  BY <1>1, <1>2, ProcessStep
<1>4. UNCHANGED <<app, issued, asks>>
  BY DEF Live, KioskFails, updaterSide
<1>5. Undisturbed'
  <2>1. mod = Loaded /\ ~service => UNCHANGED mod
    BY <1>3, LoadedIs
  <2>2. QED
    BY <1>3, <1>4, <2>1 DEF TerminalInv, Undisturbed
<1>6. QED
  BY <1>3, <1>4, <1>5 DEF TerminalInv, TerminalTypeOK, Decent, Sound, Unasked, StaysAtRest

\* The machine starts anew.
LEMMA PowerUpSound ==
    ASSUME TerminalInv, PowerUp
    PROVE  Sound
<1>1. /\ service' = TRUE /\ checking' = TRUE /\ action' = "none"
      /\ mod' = Loaded /\ strays' = {}
      /\ retries' = 0 /\ reinits' = 0 /\ revivals' = 0
      /\ outbox' = <<>> /\ inbox' = {} /\ link' = "none" /\ app' = "none"
      /\ UNCHANGED <<issued, asks>>
  BY DEF PowerUp
<1>2. ServiceTypeOK'
  BY <1>1, LoadedIs DEF ServiceTypeOK, States
<1>3. TerminalTypeOK'
  BY <1>1, <1>2 DEF TerminalInv, TerminalTypeOK, Apps
<1>4. Undisturbed'
  BY <1>1 DEF Undisturbed
<1>5. QED
  BY <1>1, <1>3, <1>4, LoadedIs DEF TerminalInv, Sound, Unasked, EndsQuietly

\* Every step keeps the invariant, and the service quits only when nothing answers.
LEMMA TerminalStep == TerminalInv /\ [Next]_vars => Sound
<1> SUFFICES ASSUME TerminalInv, [Next]_vars PROVE Sound
  OBVIOUS
<1>1. CASE UNCHANGED vars
  <2>1. UNCHANGED <<service, checking, action, mod, strays, timers, link, inbox, outbox, app, issued, asks>>
    BY <1>1 DEF vars, serviceVars
  <2>2. QED
    BY <2>1, UpdaterKeeps DEF serviceSide, TerminalInv, TerminalTypeOK, ServiceTypeOK, Messages
<1>2. CASE UpdaterRuns \/ TooLong \/ FailStopClient
  BY <1>2, UpdaterSound, DetachSound, DeploySound DEF UpdaterRuns
<1>3. CASE Rebooted \/ PowerLoss
  BY <1>3, PowerUpSound DEF Rebooted, PowerLoss
<1>4. QED
  BY <1>1, <1>2, <1>3, AskSound, HandleSound, ServiceSound, OtherCommandSound, ProcessesSound DEF Next

\* The invariant holds throughout.
LEMMA TerminalAlways == Spec => []TerminalInv
<1>1. TerminalInv /\ [Next]_vars => TerminalInv'
  BY TerminalStep DEF Sound
<1>2. QED
  BY <1>1, TerminalInit, PTL DEF Spec

\* The variables of the watch service, of the updater and of the engine stay
\* within their types.
THEOREM TerminalTypes == Spec => []UpdateTypeOK
<1>1. TerminalInv /\ EngineInv => UpdateTypeOK
  BY DEF TerminalInv, TerminalTypeOK, EngineInv, UpdateTypeOK
<1>2. QED
  BY <1>1, TerminalAlways, EngineInvariantInTerminal, PTL

\* The files are replaced while no kiosk uses them, unless others have the service
\* restarted in the course of the update: however the modules are ordered and
\* whoever hangs, fails or has the machine rebooted.  The updater is not one of
\* the modules that start by themselves, as in watchdog.ini.
THEOREM FilesAreReplacedAlone ==
    ASSUME Updater \notin AutoStart
    PROVE  Spec => []DeployAloneUnlessRestarted
<1>1. TerminalInv => DeployAloneUnlessRestarted
  <2> SUFFICES ASSUME TerminalInv, ~RestartedMeanwhile, app = "deploy"
               PROVE  ~KioskRuns
    BY DEF DeployAloneUnlessRestarted, DeployAlone
  <2>1. asks # 0 /\ asks \in Nat
    BY UpdateAssumption DEF TerminalInv, TerminalTypeOK, Unasked
  <2>2. "restart" \notin issued
    BY <2>1 DEF RestartedMeanwhile
  <2>3. strays = {} /\ mod = Loaded
    BY <2>2 DEF TerminalInv, Undisturbed
  <2>4. QED
    BY <2>3, LoadedIs, ConfigurationAssumption DEF KioskRuns, Running
<1>2. QED
  BY <1>1, TerminalAlways, PTL

\* The service that quits leaves no module to be killed with it: closing by
\* priority, in as many rounds as it takes, ends only modules that were told to
\* close or did not answer.
THEOREM ServiceQuitsLast == Spec => QuitsAfterClosing
<1>1. TerminalInv /\ [Next]_vars =>
        [service /\ ~service' => \A m \in Modules : mod[m].run = "off" \/ mod[m].quiet]_vars
  BY TerminalStep DEF Sound, EndsQuietly
<1>2. QED
  BY <1>1, TerminalAlways, PTL DEF Spec, QuitsAfterClosing

=============================================================================

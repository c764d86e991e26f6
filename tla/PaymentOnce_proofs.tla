------------------------- MODULE PaymentOnce_proofs -------------------------
(***************************************************************************)
(* A payment of a scenario that waits for its steps takes money once, and  *)
(* the database knows the session that took it: IInv of PaymentProcessing  *)
(* is inductive, one lemma for each group of actions.  From it: what is    *)
(* recorded complete has been paid, a session that took money can always   *)
(* be asked for its status, and payment processing implements PayOnce.     *)
(***************************************************************************)
EXTENDS PaymentProcessing_proofs

-----------------------------------------------------------------------------
(* Consequences of the invariant used by every lemma.                      *)

\* An object is live while it is active or an actor uses it.
LEMMA LiveIs ==
    \A o : Live(o) <=> (o = "shared" /\ active) \/ use["worker"] = o \/ use["thread"] = o
BY DEF Live, Actors

\* The worker only ever holds the scenario's object, the payment thread a copy
\* only when there is no worker, and only one of them is in Payment::process.
LEMMA Exclusive ==
    ASSUME IInv
    PROVE  /\ use["worker"] \in {NoObject, "shared"}
           /\ pc["worker"] # "idle" => active
           /\ use["thread"] = "thread" => ~active /\ use["worker"] = NoObject
           /\ ~active => pc["worker"] = "idle" /\ pc["ui"] = "idle" /\ use["worker"] = NoObject
           /\ pc["worker"] \in Processing \union {"queued", "queuedCheck", "fakeCheck"}
                => pc["thread"] \notin Processing
BY DEF IInv, Holding, Waiting, Turns, Actors, HoldsObject, Processing, NoObject

\* Money already taken shows in the object of whoever holds one.
LEMMA OwnAgrees ==
    ASSUME IInv, NEW a \in Actors, pc[a] \in HoldsObject, NEW s \in Sessions, Taken(s)
    PROVE  Own(a).step = "Pay" /\ Own(a).session = s
<1>1. use[a] \in Objects /\ Live(use[a])
  BY LiveIs, OwnType DEF IInv, TInv, Actors
<1>2. QED
  BY <1>1 DEF IInv, Agreed, Own

Rest == Waiting /\ Turns /\ Untouched /\ Agreed /\ Attempt

\* The invariant at the first start.
LEMMA OnceInit == Init => Rest
BY DEF Init, Rest, Waiting, Turns, Untouched, Agreed, Attempt, Taken, Charged, NothingTaken,
       Actors, Procs, Objects, Processing, NewPayment, Live, NoObject

\* An action of the scenario on the payment.
LEMMA OnceChangeAndSave ==
    ASSUME IInv, UiWaits, MayTouch, NEW p \in Payment, ChangeAndSave(p),
           p.step = mem["shared"].step, p.session = mem["shared"].session,
           p.status = "Init" => p = mem["shared"]
    PROVE  Rest'
<1>1. /\ active /\ pc["worker"] = "idle" /\ mem["shared"].priority = "Online"
      /\ pc["thread"] \notin Processing
  BY DEF MayTouch, MayLeave, IInv, Turns
<1>2. /\ pc' = [pc EXCEPT !["ui"] = "finish"] /\ mem' = [mem EXCEPT !["shared"] = p]
      /\ UNCHANGED <<server, row, use, active, answer>>
  BY DEF ChangeAndSave, Goto, UiUnchanged
<1>3. pc'["worker"] = "idle" /\ pc'["thread"] = pc["thread"] /\ mem'["shared"] = p
  BY <1>1, <1>2 DEF IInv, TypeOK, Procs, Actors, Objects
<1>4. Waiting' /\ Turns' /\ Attempt'
  BY <1>1, <1>2, <1>3 DEF IInv, Waiting, Turns, Attempt, Actors, Processing
<1>5. NothingTaken' = NothingTaken /\ \A s \in Sessions : Taken(s)' = Taken(s)
  BY <1>2 DEF NothingTaken, Taken
<1>6. Untouched'
  BY <1>1, <1>2, <1>3, <1>5 DEF IInv, Untouched, Processing
<1>7. Agreed'
  <2>1. \A o \in Objects : Live(o)' = Live(o)
    BY <1>2 DEF Live
  <2>2. \A o \in Objects : mem'[o].step = mem[o].step /\ mem'[o].session = mem[o].session
    BY <1>2 DEF IInv, TypeOK
  <2>3. QED
    BY <1>2, <1>5, <2>1, <2>2 DEF IInv, Agreed
<1>8. QED
  BY <1>4, <1>6, <1>7 DEF Rest

\* The scenario keeps it.
LEMMA OnceUi ==
    ASSUME IInv, UiWaits, Ui
    PROVE  Rest'
<1> DEFINE m == mem["shared"]
<1>0. m \in Payment
  BY DEF IInv, TypeOK, Objects
<1>1. CASE UiUpdate
  BY <1>0, <1>1, OnceChangeAndSave DEF UiUpdate
<1>2. CASE UiProcessOffline
  <2> DEFINE p == [m EXCEPT !.priority = "Offline", !.status = "ReadyForCheck"]
  <2>1. p \in Payment /\ p.step = m.step /\ p.session = m.session /\ p.status # "Init"
    BY <1>0 DEF Payment, Statuses, Queued
  <2> HIDE DEF p
  <2>2. MayTouch /\ ChangeAndSave(p)
    BY <1>2 DEF UiProcessOffline, p
  <2>3. QED
    BY <2>1, <2>2, OnceChangeAndSave
<1>3. ASSUME NEW v \in {"Canceled", "BadPayment"}, MayTouch, ChangeAndSave([m EXCEPT !.status = v])
      PROVE  Rest'
  <2> DEFINE p == [m EXCEPT !.status = v]
  <2>1. p \in Payment /\ p.step = m.step /\ p.session = m.session /\ p.status # "Init"
    BY <1>0 DEF Payment, Statuses, Queued
  <2> HIDE DEF p
  <2>2. MayTouch /\ ChangeAndSave(p)
    BY <1>3 DEF p
  <2>3. QED
    BY <2>1, <2>2, OnceChangeAndSave
<1>4. CASE UiCancel
  BY <1>3, <1>4 DEF UiCancel
<1>5. CASE UiStop
  BY <1>3, <1>5 DEF UiStop
<1>6. ASSUME NEW l \in {"queued", "queuedCheck"}, MayTouch, Goto("worker", l),
             UNCHANGED <<mem, active>>, UiUnchanged, l = "queuedCheck" => m.status = "Init"
      PROVE  Rest'
  <2>1. pc' = [pc EXCEPT !["worker"] = l] /\ UNCHANGED <<server, row, mem, active, use, answer>>
    BY <1>6 DEF Goto, UiUnchanged
  <2>2. /\ pc["ui"] = "idle" /\ active /\ m.priority = "Online"
        /\ pc'["worker"] = l /\ pc'["ui"] = "idle" /\ pc'["thread"] = pc["thread"]
    BY <1>6, <2>1 DEF MayTouch, MayLeave, IInv, TypeOK, Procs, Actors
  <2>3. Waiting' /\ Turns'
    BY <2>1, <2>2 DEF IInv, Waiting, Turns
  <2>4. Untouched'
    BY <1>6, <2>1, <2>2 DEF IInv, Untouched, NothingTaken, Taken, Processing
  <2>5. Agreed'
    BY <2>1 DEF IInv, Agreed, Live, Taken
  <2>6. Attempt'
    BY <2>1, <2>2 DEF IInv, Attempt, Own, NothingTaken, Taken, Actors
  <2>7. QED
    BY <2>3, <2>4, <2>5, <2>6 DEF Rest
<1>7. CASE UiProcessOnline
  BY <1>6, <1>7 DEF UiProcessOnline
<1>8. CASE UiDataCheck
  BY <1>6, <1>8 DEF UiDataCheck
<1>9. CASE UiDeactivate
  <2>1. pc' = [pc EXCEPT !["ui"] = "closing"] /\ UNCHANGED <<server, row, mem, active, use, answer>>
    BY <1>9 DEF UiDeactivate, Goto, UiUnchanged
  <2>2. active /\ pc["worker"] = "idle" /\ \A a \in Actors : pc'[a] = pc[a]
    BY <1>9, <2>1 DEF UiDeactivate, MayLeave, IInv, TypeOK, Procs, Actors
  <2>3. QED
    BY <2>1, <2>2 DEF Rest, IInv, Waiting, Turns, Untouched, Agreed, Attempt, Own, NothingTaken,
                      Taken, Live, Actors
<1>10. CASE UiAbandon
  <2>1. pc["worker"] = "idle" /\ pc["ui"] = "idle" /\ ~active' /\ UNCHANGED <<server, row, pc, use, answer>>
    BY <1>10 DEF UiAbandon, MayLeave, DropActive, UiUnchanged
  <2>2. Waiting' /\ Turns' /\ Untouched'
    BY <2>1 DEF IInv, Waiting, Turns, Untouched, Processing
  <2>3. \A o \in Objects : Live(o)' => Live(o) /\ mem'[o] = mem[o]
    BY <1>10, <2>1, LiveIs DEF UiAbandon, DropActive, Live, Objects, Actors, IInv, TypeOK
  <2>4. Agreed'
    BY <2>1, <2>3 DEF IInv, Agreed, Taken
  <2>5. \A a \in Actors : pc[a] \in HoldsObject => Own(a)' = Own(a)
    BY <2>1, <2>3, OwnType DEF IInv, TInv, Own, Live
  <2>6. Attempt'
    BY <2>1, <2>5 DEF IInv, Attempt, NothingTaken, Taken, HoldsObject, Processing
  <2>7. QED
    BY <2>2, <2>4, <2>6 DEF Rest
<1>11. QED
  BY <1>1, <1>2, <1>4, <1>5, <1>7, <1>8, <1>9, <1>10 DEF Ui

-----------------------------------------------------------------------------
(* Saves *)

\* Processes that both hold an object hold the same one.
LEMMA SameObject ==
    ASSUME IInv
    PROVE  /\ \A p \in Procs : (IF p = "ui" THEN pc[p] # "idle" ELSE pc[p] \in HoldsObject)
                 => Object(p) \in Objects /\ Live(Object(p))
           /\ \A p \in Procs, b \in Actors :
                 /\ IF p = "ui" THEN pc[p] # "idle" ELSE pc[p] \in HoldsObject
                 /\ pc[b] \in HoldsObject
                 => Object(p) = use[b]
<1>1. \A a \in Actors : pc[a] \in HoldsObject => use[a] \in {"shared", a}
  BY DEF IInv, Holding
<1>2. pc["ui"] # "idle" => active
  BY DEF IInv, Waiting
<1>3. use["worker"] \in {NoObject, "shared"}
  BY Exclusive
<1>4. use["thread"] = "thread" => ~active /\ use["worker"] = NoObject
  BY Exclusive
<1>5. \A a \in Actors : pc[a] \in HoldsObject => use[a] # NoObject
  BY DEF IInv, Holding
<1>6. QED
  BY <1>1, <1>2, <1>3, <1>4, <1>5, LiveIs DEF Object, Procs, Actors, Objects

\* A save leaves in the row what PAY and money already taken need.
LEMMA SaveAgrees ==
    ASSUME IInv, NEW p \in Procs, MayWriteRow(p), UNCHANGED server,
           IF p = "ui" THEN pc[p] # "idle" ELSE pc[p] \in HoldsObject
    PROVE  /\ \A s \in Sessions : Taken(s) => row'.step = "Pay" /\ row'.session = s
           /\ \A b \in Actors : pc[b] = "pay" =>
                 row'.step = "Pay" /\ row'.session = Own(b).session
<1>0. /\ Object(p) \in Objects /\ Live(Object(p)) /\ mem[Object(p)] \in Payment
      /\ \A b \in Actors : pc[b] \in HoldsObject => Object(p) = use[b]
  BY SameObject DEF IInv, TypeOK
<1>1. CASE WriteRow(p)
  <2> DEFINE q == mem[Object(p)]
  <2>1. row'.step = (IF q.stepSet THEN q.step ELSE row.step) /\ row'.session = q.session
    BY <1>0, <1>1 DEF WriteRow, Saved, Payment
  <2>2. \A s \in Sessions : Taken(s) => q.step = "Pay" /\ q.session = s /\ row.step = "Pay"
    BY <1>0 DEF IInv, Agreed
  <2>3. \A b \in Actors : pc[b] = "pay" =>
           q.step = "Pay" /\ q.session = Own(b).session /\ row.step = "Pay"
    BY <1>0 DEF IInv, Attempt, Own, HoldsObject, Processing
  <2>4. QED
    BY <2>1, <2>2, <2>3
<1>2. CASE FailWrite
  BY <1>2 DEF FailWrite, IInv, Agreed, Attempt
<1>3. QED
  BY <1>1, <1>2 DEF MayWriteRow

\* A step of a process that changes no object, and ends outside of an attempt.
LEMMA OnceSaved ==
    ASSUME IInv, UiWaits, NEW p \in Procs, MayWriteRow(p), NEW l \in {"finish", "idle"},
           IF p = "ui" THEN pc[p] # "idle" /\ l = "idle" ELSE pc[p] \in HoldsObject,
           Written(p, l), UNCHANGED answer,
           \A o \in Objects : Live(o)' => Live(o) /\ mem'[o] = mem[o],
           \A a \in Actors : a # p /\ pc[a] \in HoldsObject => Own(a)' = Own(a),
           active' => active /\ mem'["shared"] = mem["shared"],
           ~active' /\ active => p = "ui"
    PROVE  Rest'
<1>1. pc' = [pc EXCEPT ![p] = l] /\ UNCHANGED server
  BY DEF Written, Goto
<1>2. pc'[p] = l /\ \A q \in Procs : q # p => pc'[q] = pc[q]
  BY <1>1 DEF IInv, TypeOK
<1>3. NothingTaken' = NothingTaken /\ \A s \in Sessions : Taken(s)' = Taken(s)
  BY <1>1 DEF NothingTaken, Taken
<1>4. l \notin Processing \union {"queued", "queuedCheck", "fakeCheck"}
  BY DEF Processing
<1>5. {"ui", "worker", "thread"} = Procs /\ Actors = {"worker", "thread"}
  BY DEF Procs, Actors
<1>6. Waiting'
  BY <1>2, <1>5 DEF IInv, Waiting, HoldsObject, Processing
<1>7. Turns'
  <2>1. pc'["worker"] \in Processing \union {"queued", "queuedCheck", "fakeCheck"} =>
          pc["worker"] = pc'["worker"] /\ p # "worker" /\ p # "ui"
    BY <1>2, <1>4, <1>5 DEF IInv, Waiting, Processing
  <2>2. p # "ui" => active' = active \/ ~active'
    OBVIOUS
  <2>3. pc["worker"] # "idle" => active
    BY DEF IInv, Waiting
  <2>4. QED
    BY <1>2, <1>4, <1>5, <2>1, <2>3 DEF IInv, Turns, Processing
<1>8. Untouched'
  BY <1>2, <1>3, <1>4, <1>5 DEF IInv, Untouched
<1>9. Agreed'
  BY <1>1, <1>3, SaveAgrees DEF IInv, Agreed
<1>10. Attempt'
  <2>1. ASSUME NEW a \in Actors, a # p
        PROVE  /\ pc'[a] = pc[a]
               /\ pc[a] \in HoldsObject => Own(a)' = Own(a)
               /\ pc[a] = "pay" => row'.step = "Pay" /\ row'.session = Own(a).session
    BY <1>1, <1>2, <1>5, <2>1, SaveAgrees
  <2>2. QED
    BY <1>2, <1>3, <2>1 DEF IInv, Attempt, HoldsObject, Processing
<1>11. QED
  BY <1>6, <1>7, <1>8, <1>9, <1>10 DEF Rest

\* Letting go of an object loses none that is still held.
LEMMA ReleaseKeeps ==
    ASSUME IInv, NEW a \in Actors, pc[a] \in HoldsObject, Release(a), UNCHANGED active
    PROVE  /\ \A o \in Objects : Live(o)' => Live(o) /\ mem'[o] = mem[o]
           /\ \A b \in Actors : b # a /\ pc[b] \in HoldsObject => Own(b)' = Own(b)
           /\ active => mem'["shared"] = mem["shared"]
<1>1. use' = [use EXCEPT ![a] = NoObject]
  BY DEF Release
<1>2. \A b \in Actors : use[b] \in {NoObject, "shared", b} /\ (use[b] = b => ~active)
  BY DEF IInv, Holding
<1>3. use'[a] = NoObject /\ \A b \in Actors : b # a => use'[b] = use[b]
  BY <1>1 DEF IInv, TypeOK
<1>4. Actors = {"worker", "thread"} /\ Others(a) = Actors \ {a} /\ NoObject \notin Objects
  BY DEF Actors, Others, Objects, NoObject
<1>5. \A o \in Objects : Live(o)' => Live(o)
  BY <1>3, <1>4 DEF Live
<1>6. \A o \in Objects : Live(o)' => mem'[o] = mem[o]
  <2>1. ASSUME NEW o \in Objects, Live(o)', mem' = [mem EXCEPT ![use[a]] = Dummy],
               \/ use[a] = a
               \/ use[a] = "shared" /\ ~active /\ \A b \in Others(a) : use[b] # "shared"
        PROVE  o # use[a]
    <3>1. (o = "shared" /\ active) \/ \E b \in Actors : b # a /\ use[b] = o
      BY <1>3, <1>4, <2>1 DEF Live
    <3>2. "shared" \notin Actors
      BY DEF Actors
    <3>3. QED
      BY <1>2, <1>4, <2>1, <3>1, <3>2
  <2>2. QED
    BY <2>1 DEF Release, IInv, TypeOK
<1>7. active => Live("shared")' /\ "shared" \in Objects
  BY DEF Live, Objects
<1>8. \A b \in Actors : b # a /\ pc[b] \in HoldsObject =>
         use'[b] = use[b] /\ use[b] \in Objects /\ Live(use[b])'
  BY <1>3, OwnType DEF Live, IInv, TInv
<1>9. QED
  BY <1>5, <1>6, <1>7, <1>8 DEF Own

\* A save keeps it.
LEMMA OnceSaves ==
    ASSUME IInv, UiWaits, Saves
    PROVE  Rest'
<1>0. Procs = {"ui", "worker", "thread"} /\ Actors = {"worker", "thread"}
  BY DEF Procs, Actors
<1>1. ASSUME NEW p \in Procs, Sign(p) PROVE Rest'
  <2>1. /\ UNCHANGED <<server, row, mem, active, use, answer>>
        /\ \A q \in Procs : pc'[q] = IF q = p THEN Signing[pc[p]] ELSE pc[q]
    BY <1>1 DEF Sign, Goto, IInv, TypeOK
  <2>2. /\ pc[p] \in {"sign", "signDone", "finish", "closing"}
        /\ Signing[pc[p]] \in {"write", "writeDone", "ending", "dropping"}
        /\ pc[p] = "sign" <=> Signing[pc[p]] = "write"
    BY <1>1 DEF Sign, Signing
  <2>3. Waiting'
    BY <1>0, <2>1, <2>2 DEF IInv, Waiting
  <2>4. Turns'
    BY <1>0, <2>1, <2>2 DEF IInv, Turns, Processing
  <2>5. NothingTaken' = NothingTaken /\ \A s \in Sessions : Taken(s)' = Taken(s)
    BY <2>1 DEF NothingTaken, Taken
  <2>6. Untouched'
    BY <1>0, <2>1, <2>2, <2>5 DEF IInv, Untouched, Processing
  <2>7. Agreed'
    BY <2>1, <2>5 DEF IInv, Agreed, Live
  <2>8. Attempt'
    BY <1>0, <2>1, <2>2, <2>5 DEF IInv, Attempt, Own
  <2>9. QED
    BY <2>3, <2>4, <2>6, <2>7, <2>8 DEF Rest
<1>2. ASSUME NEW a \in Actors, WriteBeforePay(a) PROVE Rest'
  <2>1. /\ pc[a] = "write" /\ a \in Procs /\ pc[a] \in HoldsObject /\ a # "ui"
        /\ UNCHANGED <<server, mem, active, use, answer>>
    BY <1>0, <1>2 DEF WriteBeforePay, Written, HoldsObject, Processing
  <2>2. CASE WriteRow(a) /\ Written(a, "pay")
    <3>1. \A q \in Procs : pc'[q] = IF q = a THEN "pay" ELSE pc[q]
      BY <2>2 DEF Written, Goto, IInv, TypeOK
    <3>2. NothingTaken /\ Own(a).step = "Pay" /\ Own(a).stepSet
      BY <2>1 DEF IInv, Attempt
    <3>3. NothingTaken' /\ \A s \in Sessions : ~Taken(s)'
      BY <2>1, <3>2 DEF NothingTaken, Taken
    <3>4. Own(a)' = Own(a) /\ Own(a) \in Payment /\ Object(a) = use[a]
      BY <2>1, OwnType DEF Own, IInv, TInv, Object
    <3>5. row'.step = "Pay" /\ row'.session = Own(a)'.session
      BY <2>2, <3>2, <3>4 DEF WriteRow, Saved, Own, Payment
    <3>6. \A b \in Actors : b # a => pc[b] \notin Processing
      BY <1>0, <2>1, Exclusive DEF Processing
    <3>7. Waiting' /\ Turns' /\ Untouched'
      BY <1>0, <2>1, <3>1, <3>3 DEF IInv, Waiting, Turns, Untouched, Processing
    <3>8. Agreed'
      BY <3>3 DEF Agreed
    <3>9. Attempt'
      BY <1>0, <3>1, <3>2, <3>3, <3>4, <3>5, <3>6 DEF Attempt, Processing
    <3>10. QED
      BY <3>7, <3>8, <3>9 DEF Rest
  <2>3. CASE FailWrite /\ Written(a, "finish")
    <3>1. MayWriteRow(a)
      BY <2>3 DEF MayWriteRow
    <3>2. (\A o \in Objects : Live(o)' => Live(o) /\ mem'[o] = mem[o])
           /\ (\A b \in Actors : Own(b)' = Own(b))
      BY <2>1 DEF Live, Own
    <3>3. QED
      BY <2>1, <2>3, <3>1, <3>2, OnceSaved
  <2>4. QED
    BY <1>2, <2>2, <2>3 DEF WriteBeforePay
<1>3. ASSUME NEW a \in Actors, WriteFound(a) PROVE Rest'
  <2>1. /\ a \in Procs /\ pc[a] \in HoldsObject /\ a # "ui" /\ MayWriteRow(a)
        /\ Written(a, "finish") /\ UNCHANGED <<mem, active, use, answer>>
    BY <1>0, <1>3 DEF WriteFound, HoldsObject
  <2>2. (\A o \in Objects : Live(o)' => Live(o) /\ mem'[o] = mem[o])
         /\ (\A b \in Actors : Own(b)' = Own(b))
    BY <2>1 DEF Live, Own
  <2>3. QED
    BY <2>1, <2>2, OnceSaved
<1>4. ASSUME NEW a \in Actors, Finish(a) PROVE Rest'
  <2>1. /\ a \in Procs /\ pc[a] \in HoldsObject /\ a # "ui" /\ MayWriteRow(a)
        /\ Written(a, "idle") /\ UNCHANGED <<active, answer>> /\ Release(a)
    BY <1>0, <1>4 DEF Finish, HoldsObject
  <2>2. QED
    BY <2>1, ReleaseKeeps, OnceSaved
<1>5. CASE UiFinish
  <2>1. /\ "ui" \in Procs /\ pc["ui"] # "idle" /\ MayWriteRow("ui")
        /\ Written("ui", "idle") /\ UNCHANGED <<mem, active, use, answer>>
    BY <1>0, <1>5 DEF UiFinish
  <2>2. (\A o \in Objects : Live(o)' => Live(o) /\ mem'[o] = mem[o])
         /\ (\A b \in Actors : Own(b)' = Own(b))
    BY <2>1 DEF Live, Own
  <2>3. QED
    BY <2>1, <2>2, OnceSaved
<1>6. CASE UiDrop
  <2>1. /\ "ui" \in Procs /\ pc["ui"] # "idle" /\ MayWriteRow("ui")
        /\ Written("ui", "idle") /\ UNCHANGED <<use, answer>> /\ ~active'
    BY <1>0, <1>6 DEF UiDrop, DropActive
  <2>2. \A o \in Objects : Live(o)' => Live(o) /\ mem'[o] = mem[o]
    BY <1>6, <2>1 DEF UiDrop, DropActive, Live, IInv, TypeOK
  <2>3. \A b \in Actors : pc[b] \in HoldsObject => Own(b)' = Own(b)
    <3>1. ASSUME NEW b \in Actors, pc[b] \in HoldsObject PROVE Own(b)' = Own(b)
      <4>1. use[b] \in Objects /\ Live(use[b])' /\ use'[b] = use[b]
        BY <2>1, <3>1, OwnType DEF IInv, TInv, Live
      <4>2. QED
        BY <2>2, <4>1 DEF Own
    <3>2. QED
      BY <3>1
  <2>4. QED
    BY <2>1, <2>2, <2>3, OnceSaved
<1>7. QED
  BY <1>1, <1>2, <1>3, <1>4, <1>5, <1>6 DEF Saves

-----------------------------------------------------------------------------
(* Payment::process *)

\* A process that sets its object, in whatever way, and leaves (or is not in) an
\* attempt: it may advance the step, never the session.
LEMMA OnceSet ==
    ASSUME IInv, UiWaits, NEW a \in Actors, pc[a] \in HoldsObject,
           NEW p \in Payment, NEW l \in HoldsObject \ (Processing \union {"fakeCheck"}),
           SetOwn(a, p), Goto(a, l), UNCHANGED <<server, row, active, use>>,
           \A b \in Actors : b # a => answer'[b] = answer[b],
           p.step \in {Own(a).step, "Pay"}, p.session = Own(a).session,
           Own(a).stepSet => p.stepSet,
           p.status # "Init" \/ p.status = Own(a).status,
           pc[a] \in Processing \/ p.priority = Own(a).priority,
           pc[a] # "fakeCheck"
    PROVE  Rest'
<1>1. /\ use[a] \in Objects /\ Live(use[a]) /\ Own(a) \in Payment
      /\ \A b \in Actors : pc[b] \in HoldsObject => use[b] = use[a]
      /\ pc["ui"] # "idle" => use[a] = "shared"
  BY SameObject, OwnType DEF IInv, TInv, Object, Procs, Actors
<1>2. /\ mem' = [mem EXCEPT ![use[a]] = p]
      /\ mem'[use[a]] = p /\ \A o \in Objects : o # use[a] => mem'[o] = mem[o]
  BY <1>1 DEF SetOwn, IInv, TypeOK
<1>3. pc'[a] = l /\ \A q \in Procs : q # a => pc'[q] = pc[q]
  BY DEF Goto, IInv, TypeOK, Procs, Actors
<1>4. NothingTaken' = NothingTaken /\ \A s \in Sessions : Taken(s)' = Taken(s)
  BY DEF NothingTaken, Taken
<1>5. Actors = {"worker", "thread"} /\ Procs = {"ui", "worker", "thread"} /\ "shared" \in Objects
  BY DEF Actors, Procs, Objects
<1>6. l \notin Processing \union {"queued", "queuedCheck", "fakeCheck", "idle"}
  BY DEF HoldsObject, Processing
<1>7. pc[a] \in Processing => \A b \in Actors : b # a =>
         pc[b] \notin Processing /\ (b = "worker" => pc[b] \notin {"queued", "queuedCheck", "fakeCheck"})
  BY <1>5, Exclusive DEF Processing
<1>8. Waiting'
  BY <1>3, <1>5, <1>6 DEF IInv, Waiting, HoldsObject, Processing
<1>9. Turns'
  <2>1. mem'["shared"].priority = mem["shared"].priority \/ pc[a] \in Processing
    BY <1>1, <1>2, <1>5 DEF Own
  <2>2. CASE pc[a] \in Processing
    BY <1>3, <1>5, <1>6, <1>7, <2>2 DEF IInv, Turns, HoldsObject
  <2>3. CASE mem'["shared"].priority = mem["shared"].priority
    BY <1>3, <1>5, <1>6, <2>3 DEF IInv, Turns
  <2>4. QED
    BY <2>1, <2>2, <2>3
<1>10. Untouched'
  <2>1. ASSUME active, mem'["shared"].status = "Init"
        PROVE  /\ mem'["shared"].priority = "Online" /\ NothingTaken
               /\ pc["worker"] \notin Processing
    <3>1. mem["shared"].status = "Init"
      BY <1>1, <1>2, <1>5, <2>1 DEF Own
    <3>2. mem["shared"].priority = "Online" /\ NothingTaken /\ pc["worker"] \notin Processing
      BY <2>1, <3>1 DEF IInv, Untouched
    <3>3. pc[a] \notin Processing
      BY <1>5, <2>1, <3>2 DEF IInv, Turns
    <3>4. QED
      BY <1>1, <1>2, <1>5, <3>2, <3>3 DEF Own
  <2>2. QED
    BY <1>3, <1>4, <1>5, <1>6, <2>1 DEF IInv, Untouched
<1>11. Agreed'
  <2>1. \A o \in Objects : Live(o)' = Live(o)
    BY DEF Live
  <2>2. \A s \in Sessions : Taken(s) => p.step = "Pay" /\ p.session = s
    BY OwnAgrees
  <2>3. QED
    BY <1>2, <1>4, <2>1, <2>2 DEF IInv, Agreed
<1>12. Attempt'
  <2>1. ASSUME NEW b \in Actors, b # a
        PROVE  /\ pc'[b] = pc[b] /\ answer'[b] = answer[b]
               /\ pc[b] \in {"sign", "write", "pay"} => Own(b)'.step = "Pay" /\ Own(b)'.stepSet
               /\ pc[b] = "pay" => Own(b)'.session = Own(b).session
    <3>1. pc'[b] = pc[b] /\ answer'[b] = answer[b]
      BY <1>3, <1>5, <2>1
    <3>2. pc[b] \in {"sign", "write", "pay"} => Own(b)' = p /\ Own(b) = Own(a)
      BY <1>1, <1>2, <2>1 DEF Own, HoldsObject, Processing
    <3>3. pc[b] \in {"sign", "write", "pay"} => Own(b).step = "Pay" /\ Own(b).stepSet
      BY <2>1 DEF IInv, Attempt
    <3>4. QED
      BY <3>1, <3>2, <3>3
  <2>2. l \notin {"check", "sign", "write", "pay", "status"}
    BY <1>6 DEF Processing
  <2>3. QED
    BY <1>3, <1>4, <2>1, <2>2 DEF IInv, Attempt
<1>13. QED
  BY <1>8, <1>9, <1>10, <1>11, <1>12 DEF Rest

\* A process that handles an answer inside an attempt: nobody else is in one, and
\* either nothing was taken or step and session stay.
LEMMA OnceGoOn ==
    ASSUME IInv, UiWaits, NEW a \in Actors, pc[a] \in Processing,
           NEW p \in Payment, NEW l \in Processing, l # "write", l # "pay",
           SetOwn(a, p), Goto(a, l), UNCHANGED <<row, active, use>>,
           \A s \in Sessions : Taken(s)' => Taken(s),
           NothingTaken \/ (p.step = Own(a).step /\ p.session = Own(a).session),
           l \in {"check", "sign"} => NothingTaken,
           l = "sign" => p.step = "Pay" /\ p.stepSet,
           l = "status" /\ answer'[a] \in SaysNotPaid => NothingTaken,
           p.status = Own(a).status, p.priority = Own(a).priority
    PROVE  Rest'
<1>1. /\ use[a] \in Objects /\ Live(use[a]) /\ Own(a) \in Payment
      /\ \A b \in Actors : pc[b] \in HoldsObject => use[b] = use[a]
  BY SameObject, OwnType DEF IInv, TInv, Object, Procs, Actors, HoldsObject
<1>2. /\ mem' = [mem EXCEPT ![use[a]] = p]
      /\ mem'[use[a]] = p /\ \A o \in Objects : o # use[a] => mem'[o] = mem[o]
  BY <1>1 DEF SetOwn, IInv, TypeOK
<1>3. pc'[a] = l /\ \A q \in Procs : q # a => pc'[q] = pc[q]
  BY DEF Goto, IInv, TypeOK, Procs, Actors
<1>4. NothingTaken => NothingTaken'
  BY DEF NothingTaken
<1>5. Actors = {"worker", "thread"} /\ Procs = {"ui", "worker", "thread"} /\ "shared" \in Objects
  BY DEF Actors, Procs, Objects
<1>6. \A b \in Actors : b # a =>
         pc[b] \notin Processing /\ (b = "worker" => pc[b] \notin {"queued", "queuedCheck", "fakeCheck"})
  BY <1>5, Exclusive DEF Processing
<1>7. mem'["shared"].priority = mem["shared"].priority /\ mem'["shared"].status = mem["shared"].status
  BY <1>1, <1>2, <1>5 DEF Own
<1>8. Waiting'
  BY <1>3, <1>5 DEF IInv, Waiting, Processing
<1>9. Turns'
  BY <1>3, <1>5, <1>6, <1>7 DEF IInv, Turns, Processing
<1>10. Untouched'
  BY <1>3, <1>4, <1>5, <1>6, <1>7 DEF IInv, Untouched, Processing
<1>11. Agreed'
  <2>1. \A o \in Objects : Live(o)' = Live(o)
    BY DEF Live
  <2>2. CASE NothingTaken
    BY <1>4, <2>2 DEF Agreed, NothingTaken
  <2>3. CASE p.step = Own(a).step /\ p.session = Own(a).session
    <3>1. \A s \in Sessions : Taken(s) => p.step = "Pay" /\ p.session = s
      BY <2>3, OwnAgrees DEF HoldsObject
    <3>2. QED
      BY <1>2, <2>1, <3>1 DEF IInv, Agreed
  <2>4. QED
    BY <2>2, <2>3
<1>12. Attempt'
  <2>1. \A b \in Actors : b # a => pc'[b] \notin {"check", "sign", "write", "pay", "status"}
    BY <1>3, <1>5, <1>6 DEF Processing
  <2>2. pc'[a] = "sign" => Own(a)'.step = "Pay" /\ Own(a)'.stepSet
    BY <1>1, <1>2, <1>3 DEF Own
  <2>3. QED
    BY <1>3, <1>4, <2>1, <2>2 DEF Attempt
<1>13. QED
  BY <1>8, <1>9, <1>10, <1>11, <1>12 DEF Rest

\* What the failure of a request leaves alone.
LEMMA FailedKeeps ==
    ASSUME NEW a \in Actors, Own(a) \in Payment
    PROVE  /\ Failed(a) \in Payment
           /\ Failed(a).step = Own(a).step /\ Failed(a).session = Own(a).session
           /\ Failed(a).stepSet = Own(a).stepSet
           /\ Failed(a).status # "Init"
<1> DEFINE p == SetProcessError(Own(a), answer[a] = "net")
<1>1. p \in Payment
  BY SetProcessErrorType
<1>2. /\ p.step = Own(a).step /\ p.session = Own(a).session /\ p.stepSet = Own(a).stepSet
      /\ p.status \in {"BadPayment", "ProcessError"}
  BY DEF SetProcessError, Payment
<1> HIDE DEF p
<1>3. Failed(a) = IF answer[a] = "critical"
                  THEN [p EXCEPT !.status = "BadPayment", !.priority = "Low"] ELSE p
  BY DEF Failed, p
<1>4. QED
  BY <1>1, <1>2, <1>3, FailedType DEF Payment

\* PAY takes money on the session the row has.
LEMMA OncePay ==
    ASSUME IInv, UiWaits, NEW a \in Actors, SendPay(a)
    PROVE  Rest'
<1>1. /\ pc[a] = "pay" /\ UNCHANGED <<row, mem, active, use>>
      /\ \A s \in Sessions : s # Own(a).session => server'[s] = server[s]
  BY DEF SendPay, ProcessUnchanged
<1>2. /\ NothingTaken /\ Own(a).step = "Pay"
      /\ row.step = "Pay" /\ row.session = Own(a).session
  BY <1>1 DEF IInv, Attempt
<1>3. pc'[a] = "payAnswer" /\ \A q \in Procs : q # a => pc'[q] = pc[q]
  BY DEF SendPay, Goto, IInv, TypeOK, Procs, Actors
<1>4. Actors = {"worker", "thread"} /\ Procs = {"ui", "worker", "thread"}
  BY DEF Actors, Procs
<1>5. \A b \in Actors : b # a =>
         pc[b] \notin Processing /\ (b = "worker" => pc[b] \notin {"queued", "queuedCheck", "fakeCheck"})
  BY <1>1, <1>4, Exclusive DEF Processing
<1>6. \A s \in Sessions : Taken(s)' => s = Own(a).session
  BY <1>1, <1>2 DEF NothingTaken, Taken
<1>7. Waiting' /\ Turns'
  BY <1>1, <1>3, <1>4, <1>5 DEF IInv, Waiting, Turns, Processing
<1>8. ~(active /\ mem["shared"].status = "Init")
  BY <1>1, <1>4 DEF IInv, Untouched, Turns, Processing
<1>9. Untouched'
  BY <1>1, <1>3, <1>4, <1>5, <1>8 DEF Untouched
<1>10. Agreed'
  <2>1. \A o \in Objects : Live(o) => o = use[a]
    <3>1. \A b \in Actors : use[b] = use[a] \/ use[b] = NoObject
      BY <1>1, SameObject, OwnType DEF IInv, Holding, TInv, Object, Procs, Actors, HoldsObject, Processing
    <3>2. active => use[a] = "shared"
      BY <1>1 DEF IInv, Holding, HoldsObject, Processing
    <3>3. NoObject \notin Objects
      BY DEF NoObject, Objects, Actors
    <3>4. QED
      BY <3>1, <3>2, <3>3 DEF Live
  <2>2. \A o \in Objects : Live(o)' = Live(o)
    BY <1>1 DEF Live
  <2>3. QED
    BY <1>1, <1>2, <1>6, <2>1, <2>2 DEF Agreed, Own
<1>11. Attempt'
  BY <1>3, <1>4, <1>5 DEF Attempt, Processing
<1>12. QED
  BY <1>7, <1>9, <1>10, <1>11 DEF Rest

\* A CHECK begins an attempt on a session that is its own; only a payment that
\* took no money is at the first step.
LEMMA OnceCheck ==
    ASSUME IInv, UiWaits, NEW a \in Actors, SendCheck(a)
    PROVE  Rest'
<1>1. pc[a] = "process" /\ pc[a] \in Processing /\ pc[a] \in HoldsObject /\ Own(a).step = "Init"
  BY DEF SendCheck, Processing, HoldsObject
<1>2. Own(a) \in Payment
  BY <1>1, OwnType DEF IInv, TInv
<1>3. NothingTaken
  BY <1>1, OwnAgrees DEF NothingTaken
<1>0. PICK s \in Sessions : \E r \in Check(Renewed(s)) :
         /\ SetOwn(a, [Own(a) EXCEPT !.session = s])
         /\ server' = [server EXCEPT ![s] = r[1]]
  BY DEF SendCheck
<1>4. PICK r \in Check(Renewed(s)) :
         /\ SetOwn(a, [Own(a) EXCEPT !.session = s])
         /\ server' = [server EXCEPT ![s] = r[1]]
  BY <1>0
<1>5. Renewed(s) \in SessionStates /\ Renewed(s) \notin Charged
  BY <1>3 DEF Renewed, IInv, TypeOK, NothingTaken, Taken, SessionStates, Charged
<1>6. r[1] \notin Charged
  BY <1>5, CheckTakesNothing
<1>7. \A t \in Sessions : ~Taken(t)'
  BY <1>3, <1>4, <1>6 DEF Taken, NothingTaken, IInv, TypeOK
<1> DEFINE p == [Own(a) EXCEPT !.session = s]
<1>8. p \in Payment /\ p.status = Own(a).status /\ p.priority = Own(a).priority
  BY <1>2 DEF Payment
<1>9. SetOwn(a, p) /\ Goto(a, "check") /\ UNCHANGED <<row, active, use>>
  BY <1>4 DEF SendCheck, ProcessUnchanged
<1> HIDE DEF p
<1>10. QED
  BY <1>1, <1>3, <1>7, <1>8, <1>9, OnceGoOn DEF Processing

\* A STATUS request changes nothing, and is answered truthfully.
LEMMA OnceStatus ==
    ASSUME IInv, UiWaits, NEW a \in Actors, SendStatus(a)
    PROVE  Rest'
<1>1. pc[a] = "process" /\ pc[a] \in Processing /\ pc[a] \in HoldsObject
  BY DEF SendStatus, Processing, HoldsObject
<1>2. Own(a) \in Payment /\ use[a] \in Objects
  BY <1>1, OwnType DEF IInv, TInv
<1>3. SetOwn(a, Own(a)) /\ Goto(a, "status") /\ UNCHANGED <<server, row, active, use>>
  BY <1>2 DEF SendStatus, ProcessUnchanged, SetOwn, Own, IInv, TypeOK
<1>4. PICK r \in Status(StateOf(Own(a).session)) : answer' = [answer EXCEPT ![a] = r]
  BY DEF SendStatus, AskStatus
<1>5. answer'[a] = r
  BY <1>4 DEF IInv, TypeOK
<1>6. ASSUME NEW s \in Sessions, Taken(s) PROVE r \notin SaysNotPaid
  <2>1. Own(a).session = s
    BY <1>1, <1>6, OwnAgrees
  <2>2. StateOf(Own(a).session) \in Charged
    BY <1>6, <2>1 DEF StateOf, Taken
  <2>3. QED
    BY <1>4, <2>2, StatusTruthful
<1>7. answer'[a] \in SaysNotPaid => NothingTaken
  BY <1>5, <1>6 DEF NothingTaken
<1>8. QED
  BY <1>1, <1>2, <1>3, <1>7, OnceGoOn DEF Processing, Taken

\* An attempt keeps it, whatever the payment system answers.
LEMMA OnceProcess ==
    ASSUME IInv, UiWaits, NEW a \in Actors, Process(a)
    PROVE  Rest'
<1> DEFINE m == Own(a)
<1>1. ASSUME pc[a] \in HoldsObject
      PROVE  /\ m \in Payment
             /\ Failed(a) \in Payment /\ Failed(a).step = m.step /\ Failed(a).session = m.session
             /\ Failed(a).stepSet = m.stepSet /\ Failed(a).status # "Init"
             /\ use[a] \in Objects
  BY <1>1, OwnType, FailedKeeps DEF IInv, TInv
<1>2. ASSUME NEW p \in Payment, NEW l \in HoldsObject \ (Processing \union {"fakeCheck"}),
             pc[a] \in Processing \union {"recheck"}, Handle(a, p, l),
             p.step \in {m.step, "Pay"}, p.session = m.session, m.stepSet => p.stepSet,
             p.status # "Init" \/ p.status = m.status,
             pc[a] \in Processing \/ p.priority = m.priority
      PROVE  Rest'
  <2>1. pc[a] \in HoldsObject /\ pc[a] # "fakeCheck"
    BY <1>2 DEF HoldsObject, Processing
  <2>2. /\ SetOwn(a, p) /\ Goto(a, l) /\ UNCHANGED <<server, row, active, use>>
        /\ \A b \in Actors : b # a => answer'[b] = answer[b]
    BY <1>2 DEF Handle, ProcessUnchanged, IInv, TypeOK
  <2>3. QED
    BY <1>2, <2>1, <2>2, OnceSet
<1>3. ASSUME pc[a] \in Processing, Handle(a, Failed(a), "finish") PROVE Rest'
  <2>1. pc[a] \in HoldsObject /\ "finish" \in HoldsObject \ (Processing \union {"fakeCheck"})
    BY <1>3 DEF HoldsObject, Processing
  <2>2. QED
    BY <1>1, <1>2, <1>3, <2>1
<1>4. ASSUME pc[a] \in Processing, Handle(a, [m EXCEPT !.status = "Completed"], "finish") PROVE Rest'
  <2>1. pc[a] \in HoldsObject /\ "finish" \in HoldsObject \ (Processing \union {"fakeCheck"})
    BY <1>4 DEF HoldsObject, Processing
  <2> DEFINE p == [m EXCEPT !.status = "Completed"]
  <2>2. /\ p \in Payment /\ p.step = m.step /\ p.session = m.session /\ p.stepSet = m.stepSet
        /\ p.status # "Init"
    BY <1>1, <2>1 DEF Payment, Statuses
  <2> HIDE DEF p
  <2>3. Handle(a, p, "finish")
    BY <1>4 DEF p
  <2>4. QED
    BY <1>2, <1>4, <2>1, <2>2, <2>3
<1>5. ASSUME pc[a] \in Processing \union {"recheck"}, Handle(a, m, "finish") PROVE Rest'
  <2>1. pc[a] \in HoldsObject /\ "finish" \in HoldsObject \ (Processing \union {"fakeCheck"})
    BY <1>5 DEF HoldsObject, Processing
  <2>2. QED
    BY <1>1, <1>2, <1>5, <2>1
<1>6. CASE Skip(a)
  <2>1. /\ pc[a] = "process" /\ pc[a] \in HoldsObject /\ pc[a] \in Processing
        /\ "finish" \in HoldsObject \ (Processing \union {"fakeCheck"})
    BY <1>6 DEF Skip, HoldsObject, Processing
  <2>2. /\ SetOwn(a, m) /\ Goto(a, "finish") /\ UNCHANGED <<server, row, active, use>>
        /\ \A b \in Actors : b # a => answer'[b] = answer[b]
    BY <1>1, <1>6, <2>1 DEF Skip, ProcessUnchanged, SetOwn, Own, IInv, TypeOK
  <2>3. QED
    BY <1>1, <2>1, <2>2, OnceSet
<1>7. CASE CheckAccepted(a)
  <2>1. pc[a] = "check" /\ pc[a] \in HoldsObject /\ pc[a] \in Processing /\ "sign" \in Processing
    BY <1>7 DEF CheckAccepted, HoldsObject, Processing
  <2>2. NothingTaken
    BY <2>1 DEF IInv, Attempt
  <2> DEFINE p == SetStep(m, "Pay")
  <2>3. /\ p \in Payment /\ p.step = "Pay" /\ p.stepSet
        /\ p.status = m.status /\ p.priority = m.priority
    BY <1>1, <2>1 DEF SetStep, Payment
  <2> HIDE DEF p
  <2>4. SetOwn(a, p) /\ Goto(a, "sign") /\ UNCHANGED <<server, row, active, use>>
    BY <1>7 DEF CheckAccepted, Handle, ProcessUnchanged, p
  <2>5. QED
    BY <2>1, <2>2, <2>3, <2>4, OnceGoOn DEF Taken
<1>8. CASE CheckRefused(a)
  BY <1>3, <1>8 DEF CheckRefused, Processing
<1>9. CASE CheckExists(a)
  <2>1. /\ pc[a] \in HoldsObject /\ pc[a] \in Processing /\ pc[a] # "fakeCheck"
        /\ "recheck" \in HoldsObject \ (Processing \union {"fakeCheck"})
    BY <1>9 DEF CheckExists, HoldsObject, Processing
  <2>2. /\ SetOwn(a, Failed(a)) /\ Goto(a, "recheck") /\ UNCHANGED <<server, row, active, use>>
        /\ \A b \in Actors : b # a => answer'[b] = answer[b]
    BY <1>9 DEF CheckExists, AskStatus, ProcessUnchanged, IInv, TypeOK
  <2>3. QED
    BY <1>1, <2>1, <2>2, OnceSet
<1>10. CASE FoundComplete(a)
  <2>1. /\ pc[a] = "recheck" /\ pc[a] \in HoldsObject
        /\ "signDone" \in HoldsObject \ (Processing \union {"fakeCheck"})
    BY <1>10 DEF FoundComplete, HoldsObject, Processing
  <2> DEFINE p == [SetStep(m, "Pay") EXCEPT !.status = "Completed"]
  <2>2. /\ p \in Payment /\ p.step = "Pay" /\ p.session = m.session /\ p.stepSet
        /\ p.priority = m.priority /\ p.status # "Init"
    BY <1>1, <2>1 DEF SetStep, Payment, Statuses
  <2> HIDE DEF p
  <2>3. Handle(a, p, "signDone")
    BY <1>10 DEF FoundComplete, p
  <2>4. QED
    BY <1>2, <2>1, <2>2, <2>3
<1>11. CASE FoundOpen(a)
  BY <1>5, <1>11 DEF FoundOpen
<1>12. CASE PayAnswered(a)
  <2>1. pc[a] \in Processing
    BY <1>12 DEF PayAnswered, Processing
  <2>2. CASE answer[a] = "ok"
    BY <1>4, <1>12, <2>1, <2>2 DEF PayAnswered
  <2>3. CASE answer[a] # "ok"
    BY <1>3, <1>12, <2>1, <2>3 DEF PayAnswered
  <2>4. QED
    BY <2>2, <2>3
<1>13. CASE StatusNotPaid(a)
  <2>1. /\ pc[a] = "status" /\ pc[a] \in HoldsObject /\ pc[a] \in Processing
        /\ "process" \in Processing
    BY <1>13 DEF StatusNotPaid, HoldsObject, Processing
  <2>2. NothingTaken
    BY <1>13, <2>1 DEF StatusNotPaid, IInv, Attempt
  <2> DEFINE p == SetStep(m, "Init")
  <2>3. p \in Payment /\ p.status = m.status /\ p.priority = m.priority
    BY <1>1, <2>1 DEF SetStep, Payment
  <2> HIDE DEF p
  <2>4. SetOwn(a, p) /\ Goto(a, "process") /\ UNCHANGED <<server, row, active, use>>
    BY <1>13 DEF StatusNotPaid, Handle, ProcessUnchanged, p
  <2>5. QED
    BY <2>1, <2>2, <2>3, <2>4, OnceGoOn DEF Taken
<1>14. CASE StatusPaid(a)
  BY <1>4, <1>14 DEF StatusPaid, Processing
<1>15. CASE StatusOpen(a)
  BY <1>3, <1>15 DEF StatusOpen, Processing
<1>16. CASE StatusUnknown(a)
  BY <1>5, <1>16 DEF StatusUnknown, Processing
<1>17. QED
  BY <1>6, <1>7, <1>8, <1>9, <1>10, <1>11, <1>12, <1>13, <1>14, <1>15, <1>16,
     OnceCheck, OnceStatus, OncePay DEF Process
-----------------------------------------------------------------------------
(* getPayment, and the worker                                              *)

\* Loading a payment, whatever its signature, keeps the step and session of the row.
LEMMA LoadKeeps ==
    ASSUME IInv, NEW a \in Actors, NEW p \in Payment, GetPayment(a, p)
    PROVE  /\ LoadedPayment \in Payment
           /\ LoadedPayment.step = (IF active THEN mem["shared"] ELSE row).step
           /\ LoadedPayment.session = (IF active THEN mem["shared"] ELSE row).session
           /\ active => LoadedPayment = mem["shared"]
           /\ row'.step = row.step /\ row'.session = row.session
           /\ LoadedObject(a) \in Objects
           /\ use'[a] = LoadedObject(a) /\ \A b \in Actors : b # a => use'[b] = use[b]
           /\ mem'[LoadedObject(a)] = p
           /\ \A o \in Objects : o # LoadedObject(a) => mem'[o] = mem[o]
<1>1. row \in Payment /\ mem["shared"] \in Payment /\ LoadedObject(a) \in Objects
  BY DEF IInv, TypeOK, Objects, LoadedObject
<1>2. LoadedPayment \in Payment
  BY LoadedType DEF IInv, TInv
<1>3. /\ LoadedPayment.step = (IF active THEN mem["shared"] ELSE row).step
      /\ LoadedPayment.session = (IF active THEN mem["shared"] ELSE row).session
      /\ active => LoadedPayment = mem["shared"]
  BY <1>1 DEF LoadedPayment, Payment
<1>4. UNCHANGED row \/ (~active /\ row' = LoadedPayment)
  BY DEF GetPayment, SaveCheated, FailWrite
<1>5. use' = [use EXCEPT ![a] = LoadedObject(a)] /\ mem' = [mem EXCEPT ![LoadedObject(a)] = p]
  BY DEF GetPayment
<1>6. QED
  BY <1>1, <1>2, <1>3, <1>4, <1>5 DEF IInv, TypeOK

\* An actor takes the payment, as an object of its own or as the shared one.
LEMMA OnceLoad ==
    ASSUME IInv, UiWaits, NEW a \in Actors, NEW p \in Payment,
           NEW l \in {"claim", "finish", "removal", "process", "fakeCheck"},
           GetPayment(a, p), Goto(a, l), UNCHANGED <<server, active>>,
           \A b \in Actors : b # a => answer'[b] = answer[b],
           IF a = "worker"
           THEN \/ pc[a] = "queued" /\ l = "process" /\ p.status # "Init"
                   /\ p.session = LoadedPayment.session
                \/ pc[a] = "queuedCheck" /\ l = "fakeCheck"
           ELSE l \in {"claim", "finish", "removal"} /\ p.session = LoadedPayment.session,
           p.step = LoadedPayment.step, p.stepSet = LoadedPayment.stepSet,
           p.priority = LoadedPayment.priority,
           p.status = "Init" => LoadedPayment.status = "Init"
    PROVE  Rest'
<1>0. Actors = {"worker", "thread"} /\ Procs = {"ui", "worker", "thread"} /\ "shared" \in Objects
  BY DEF Actors, Procs, Objects
<1>1. pc'[a] = l /\ \A q \in Procs : q # a => pc'[q] = pc[q]
  BY DEF Goto, IInv, TypeOK, Procs, Actors
<1>2. NothingTaken' = NothingTaken /\ \A s \in Sessions : Taken(s)' = Taken(s)
  BY DEF NothingTaken, Taken
<1>3. a = "worker" => /\ active /\ pc["ui"] = "idle" /\ mem["shared"].priority = "Online"
                      /\ pc["thread"] \notin Processing
  BY Exclusive DEF IInv, Waiting, Turns
<1>4. p.session = LoadedPayment.session \/ (pc[a] = "queuedCheck" /\ a = "worker" /\ NothingTaken)
  BY DEF IInv, Untouched
<1>5. IF active THEN LoadedObject(a) = "shared" /\ mem'["shared"] = p ELSE LoadedObject(a) = a
  BY LoadKeeps DEF LoadedObject
<1>6. Waiting'
  BY <1>0, <1>1, <1>3 DEF IInv, Waiting
<1>7. Turns'
  <2>1. active => mem'["shared"].priority = mem["shared"].priority
    BY <1>5, LoadKeeps
  <2>2. pc["worker"] # "idle" => active
    BY DEF IInv, Waiting
  <2>3. CASE a = "worker"
    BY <1>0, <1>1, <1>3, <2>1, <2>3 DEF IInv, Turns
  <2>4. CASE a = "thread"
    <3>1. l \notin Processing /\ l # "fakeCheck"
      BY <2>4 DEF Processing
    <3>2. pc'["worker"] \in Processing \union {"queued", "queuedCheck", "fakeCheck"} =>
             pc["worker"] = pc'["worker"] /\ active
      BY <1>0, <1>1, <2>2, <2>4 DEF Processing
    <3>3. QED
      BY <1>1, <2>1, <2>4, <3>1, <3>2 DEF IInv, Turns
  <2>5. QED
    BY <1>0, <2>3, <2>4
<1>8. Untouched'
  <2>1. active /\ mem'["shared"].status = "Init" =>
          /\ mem'["shared"].priority = "Online" /\ NothingTaken
          /\ pc["worker"] \notin Processing /\ l # "process"
    BY <1>5, LoadKeeps DEF IInv, Untouched
  <2>2. l \in Processing => l = "process"
    BY DEF Processing
  <2>3. QED
    BY <1>0, <1>1, <1>2, <2>1, <2>2 DEF IInv, Untouched
<1>9. Agreed'
  <2>1. ASSUME NEW s \in Sessions, Taken(s)
        PROVE  /\ row'.step = "Pay" /\ row'.session = s /\ p.step = "Pay" /\ p.session = s
    <3>1. row.step = "Pay" /\ row.session = s
      BY <2>1 DEF IInv, Agreed
    <3>2. active => mem["shared"].step = "Pay" /\ mem["shared"].session = s
      BY <1>0, <2>1 DEF IInv, Agreed, Live
    <3>3. p.session = LoadedPayment.session
      BY <1>4, <2>1 DEF NothingTaken
    <3>4. QED
      BY <3>1, <3>2, <3>3, LoadKeeps
  <2>2. \A o \in Objects : Live(o)' => Live(o) \/ o = LoadedObject(a)
    BY LoadKeeps DEF Live
  <2>3. QED
    BY <1>2, <2>1, <2>2, LoadKeeps DEF IInv, Agreed
<1>10. Attempt'
  <2>1. ASSUME NEW b \in Actors, b # a
        PROVE  /\ pc'[b] = pc[b] /\ answer'[b] = answer[b]
               /\ pc[b] \in {"sign", "write", "pay"} =>
                     /\ Own(b)'.step = Own(b).step /\ Own(b)'.stepSet = Own(b).stepSet
                     /\ Own(b)'.session = Own(b).session
    <3>1. pc'[b] = pc[b] /\ answer'[b] = answer[b]
      BY <1>0, <1>1, <2>1
    <3>2. ASSUME pc[b] \in {"sign", "write", "pay"}
          PROVE  a = "thread" /\ b = "worker" /\ active /\ use[b] = "shared" /\ use'[b] = "shared"
      <4>1. a = "thread" /\ b = "worker"
        BY <1>0, <1>3, <2>1, <3>2 DEF Processing
      <4>2. QED
        BY <2>1, <3>2, <4>1, Exclusive, LoadKeeps DEF IInv, Holding, HoldsObject, Processing
    <3>3. QED
      BY <1>4, <1>5, <3>1, <3>2, LoadKeeps DEF Own
  <2>2. l \notin {"check", "sign", "write", "pay", "status"}
    OBVIOUS
  <2>3. QED
    BY <1>1, <1>2, <2>1, <2>2, LoadKeeps DEF IInv, Attempt
<1>11. QED
  BY <1>6, <1>7, <1>8, <1>9, <1>10 DEF Rest

\* The worker thread keeps it.
LEMMA OnceWorker ==
    ASSUME IInv, UiWaits, Worker
    PROVE  Rest'
<1>0. LoadedPayment \in Payment /\ "worker" \in Actors
  BY LoadedType DEF IInv, TInv, Actors
<1>1. CASE WorkerPays
  <2> DEFINE p == [LoadedPayment EXCEPT !.status = "ProcessError"]
  <2>1. /\ p \in Payment /\ p.step = LoadedPayment.step /\ p.session = LoadedPayment.session
        /\ p.stepSet = LoadedPayment.stepSet /\ p.priority = LoadedPayment.priority
        /\ p.status # "Init"
    BY <1>0 DEF Payment, Statuses, Queued
  <2> HIDE DEF p
  <2>2. /\ pc["worker"] = "queued" /\ GetPayment("worker", p) /\ Goto("worker", "process")
        /\ UNCHANGED <<server, active, answer>>
    BY <1>1 DEF WorkerPays, p
  <2>3. QED
    BY <1>0, <2>1, <2>2, OnceLoad
<1>2. CASE WorkerChecks
  <2>1. PICK s \in Sessions : GetPayment("worker", [LoadedPayment EXCEPT !.session = s])
    BY <1>2 DEF WorkerChecks
  <2> DEFINE p == [LoadedPayment EXCEPT !.session = s]
  <2>2. /\ p \in Payment /\ p.step = LoadedPayment.step
        /\ p.stepSet = LoadedPayment.stepSet /\ p.priority = LoadedPayment.priority
        /\ p.status = LoadedPayment.status
    BY <1>0 DEF Payment
  <2>3. GetPayment("worker", p)
    BY <2>1
  <2> HIDE DEF p
  <2>4. /\ pc["worker"] = "queuedCheck" /\ Goto("worker", "fakeCheck")
        /\ UNCHANGED <<server, active, answer>>
    BY <1>2 DEF WorkerChecks
  <2>5. QED
    BY <1>0, <2>2, <2>3, <2>4, OnceLoad
<1>3. CASE WorkerChecked
  <2>1. /\ pc["worker"] = "fakeCheck" /\ SetOwn("worker", [Own("worker") EXCEPT !.session = held])
        /\ Goto("worker", "finish") /\ UNCHANGED <<server, row, active, use, answer>>
    BY <1>3 DEF WorkerChecked
  <2>2. /\ active /\ pc["ui"] = "idle" /\ pc["thread"] \notin Processing /\ NothingTaken
        /\ use["worker"] = "shared" /\ Own("worker") \in Payment
    BY <1>0, <2>1, Exclusive, OwnType
       DEF IInv, Waiting, Untouched, Holding, HoldsObject, Processing, TInv
  <2>3. /\ mem'["shared"].status = mem["shared"].status
        /\ mem'["shared"].priority = mem["shared"].priority
    BY <2>1, <2>2 DEF SetOwn, Own, IInv, TypeOK, Payment, Objects
  <2>4. pc'["worker"] = "finish" /\ pc'["thread"] = pc["thread"] /\ pc'["ui"] = "idle"
    BY <2>1, <2>2 DEF Goto, IInv, TypeOK, Procs, Actors
  <2>5. NothingTaken' /\ \A s \in Sessions : ~Taken(s)'
    BY <2>1, <2>2 DEF NothingTaken, Taken
  <2>6. Waiting' /\ Turns' /\ Untouched'
    BY <2>1, <2>2, <2>3, <2>4, <2>5 DEF IInv, Waiting, Turns, Untouched, Processing
  <2>7. Agreed' /\ Attempt'
    BY <2>2, <2>4, <2>5 DEF Agreed, Attempt, Processing, Actors
  <2>8. QED
    BY <2>6, <2>7 DEF Rest
<1>4. QED
  BY <1>1, <1>2, <1>3 DEF Worker
-----------------------------------------------------------------------------
(* The payment thread                                                      *)

\* The payment thread gives its object up.
LEMMA OnceLeave ==
    ASSUME IInv, UiWaits, pc["thread"] \in {"claim", "removal"}, Leave
    PROVE  Rest'
<1>1. pc["thread"] \in HoldsObject /\ "thread" \in Actors
  BY DEF HoldsObject, Actors
<1>2. Release("thread") /\ UNCHANGED <<server, row, active>>
      /\ (\A b \in Actors : b # "thread" => answer'[b] = answer[b])
  BY DEF Leave, IInv, TypeOK
<1>3. /\ \A o \in Objects : Live(o)' => Live(o) /\ mem'[o] = mem[o]
      /\ \A b \in Actors : b # "thread" /\ pc[b] \in HoldsObject => Own(b)' = Own(b)
      /\ active => mem'["shared"] = mem["shared"]
  BY <1>1, <1>2, ReleaseKeeps
<1>4. pc'["thread"] = "idle" /\ pc'["ui"] = pc["ui"] /\ pc'["worker"] = pc["worker"]
  BY DEF Leave, Goto, IInv, TypeOK, Procs, Actors
<1>5. NothingTaken' = NothingTaken /\ \A s \in Sessions : Taken(s)' = Taken(s)
  BY <1>2 DEF NothingTaken, Taken
<1>6. pc["worker"] # "idle" => active
  BY DEF IInv, Waiting
<1>7. Waiting' /\ Turns' /\ Untouched'
  <2>1. pc'["worker"] \in Processing \union {"queued", "queuedCheck", "fakeCheck"} => active
    BY <1>4, <1>6 DEF Processing
  <2>2. QED
    BY <1>2, <1>3, <1>4, <1>5, <2>1 DEF IInv, Waiting, Turns, Untouched, Processing
<1>8. Agreed'
  BY <1>2, <1>3, <1>5 DEF IInv, Agreed
<1>9. Attempt'
  <2>1. pc["worker"] \in {"sign", "write", "pay"} => Own("worker")' = Own("worker")
    BY <1>3 DEF Actors, HoldsObject, Processing
  <2>2. QED
    BY <1>2, <1>4, <1>5, <2>1 DEF IInv, Attempt, Actors
<1>10. QED
  BY <1>7, <1>8, <1>9 DEF Rest

\* An offline payment becomes the thread's before it is processed: if it is the
\* active one, the scenario has handed it over.
LEMMA OnceClaim ==
    ASSUME IInv, UiWaits, ClaimOffline
    PROVE  Rest'
<1> DEFINE m == Own("thread")
           p == [m EXCEPT !.priority = "Offline"]
<1>1. /\ pc["thread"] = "claim" /\ pc["thread"] \in HoldsObject /\ "thread" \in Actors
      /\ ~OnlineActive
  BY DEF ClaimOffline, HoldsObject, Actors
<1>2. m \in Payment /\ use["thread"] \in Objects
  BY <1>1, OwnType DEF IInv, TInv
<1>3. /\ p.step = m.step /\ p.session = m.session /\ p.status = m.status
      /\ p.priority = "Offline"
  BY <1>2 DEF Payment
<1> HIDE DEF p
<1>4. /\ mem' = [mem EXCEPT ![use["thread"]] = p] /\ UNCHANGED <<server, row, active, use>>
      /\ \A b \in Actors : b # "thread" => answer'[b] = answer[b]
  BY DEF ClaimOffline, Handle, SetOwn, ProcessUnchanged, p, IInv, TypeOK
<1>5. pc'["thread"] = "process" /\ pc'["ui"] = pc["ui"] /\ pc'["worker"] = pc["worker"]
  BY DEF ClaimOffline, Handle, Goto, IInv, TypeOK, Procs, Actors
<1>6. active => /\ use["thread"] = "shared" /\ mem["shared"].priority # "Online"
                /\ mem["shared"] = m /\ mem'["shared"] = p
  BY <1>1, <1>2, <1>4 DEF IInv, Holding, OnlineActive, Own, TypeOK
<1>7. pc["worker"] \notin Processing \union {"queued", "queuedCheck", "fakeCheck"}
  BY <1>6 DEF IInv, Turns, Waiting, Processing
<1>8. Waiting' /\ Turns'
  BY <1>3, <1>4, <1>5, <1>6, <1>7 DEF IInv, Waiting, Turns
<1>9. Untouched'
  BY <1>3, <1>4, <1>5, <1>6, <1>7 DEF IInv, Untouched
<1>10. Agreed'
  <2>1. \A s \in Sessions : Taken(s)' = Taken(s)
    BY <1>4 DEF Taken
  <2>2. \A o \in Objects : /\ Live(o)' = Live(o)
                            /\ mem'[o].step = mem[o].step /\ mem'[o].session = mem[o].session
    BY <1>3, <1>4 DEF Live, Own, IInv, TypeOK
  <2>3. QED
    BY <1>4, <2>1, <2>2 DEF IInv, Agreed
<1>11. Attempt'
  BY <1>5, <1>7 DEF Attempt, Actors, Processing
<1>12. QED
  BY <1>8, <1>9, <1>10, <1>11 DEF Rest

\* The payment thread keeps it.
LEMMA OnceThread ==
    ASSUME IInv, UiWaits, Thread
    PROVE  Rest'
<1>0. /\ LoadedPayment \in Payment /\ "thread" \in Actors
      /\ pc["thread"] \in HoldsObject => Own("thread") \in Payment
  BY LoadedType, OwnType DEF IInv, TInv, Actors
<1>1. ASSUME NEW l \in {"pick", "force", "remove", "update"}, pc["thread"] = "idle",
             Goto("thread", l), UNCHANGED <<server, row, mem, active, use, answer>>
      PROVE  Rest'
  <2>1. pc'["thread"] = l /\ pc'["ui"] = pc["ui"] /\ pc'["worker"] = pc["worker"]
    BY <1>1 DEF Goto, IInv, TypeOK, Procs, Actors
  <2>2. QED
    BY <1>1, <2>1 DEF Rest, IInv, Waiting, Turns, Untouched, Agreed, Attempt, Own, NothingTaken,
                      Taken, Live, Actors, Processing
<1>2. CASE Pick
  BY <1>1, <1>2 DEF Pick
<1>3. ASSUME NEW c \in Commands, Command(c) PROVE Rest'
  BY <1>1, <1>3, OptionAssumption DEF Command
<1>4. ASSUME NEW p \in Payment, NEW l \in {"claim", "finish", "removal"},
             GetPayment("thread", p), Goto("thread", l), UNCHANGED <<server, active>>,
             answer'["worker"] = answer["worker"],
             p.step = LoadedPayment.step, p.session = LoadedPayment.session,
             p.stepSet = LoadedPayment.stepSet, p.priority = LoadedPayment.priority,
             p.status = "Init" => LoadedPayment.status = "Init"
      PROVE  Rest'
  <2>1. \A b \in Actors : b # "thread" => answer'[b] = answer[b]
    BY <1>4 DEF Actors
  <2>2. QED
    BY <1>0, <1>4, <2>1, OnceLoad
<1>5. CASE LoadQueued
  BY <1>0, <1>4, <1>5 DEF LoadQueued, ThreadLoads
<1>6. CASE LoadUpdated
  BY <1>0, <1>4, <1>6 DEF LoadUpdated, ThreadLoads
<1>7. CASE LoadForced
  <2> DEFINE p == [LoadedPayment EXCEPT !.status = "ProcessError", !.tries = 1]
  <2>1. /\ p \in Payment /\ p.step = LoadedPayment.step /\ p.session = LoadedPayment.session
        /\ p.stepSet = LoadedPayment.stepSet /\ p.priority = LoadedPayment.priority
        /\ p.status # "Init"
    <3>1. 1 \in 0 .. TriesLimit + 1 /\ "ProcessError" \in Statuses
      BY LimitAssumption DEF Statuses, Queued
    <3>2. QED
      BY <1>0, <3>1 DEF Payment
  <2>2. ThreadLoads("force", p, "claim")
    BY <1>7 DEF LoadForced
  <2> HIDE DEF p
  <2>3. QED
    BY <1>4, <2>1, <2>2 DEF ThreadLoads
<1>8. CASE RemoveUnpaid
  <2> DEFINE p == [LoadedPayment EXCEPT !.status = "Deleted"]
  <2>1. /\ p \in Payment /\ p.step = LoadedPayment.step /\ p.session = LoadedPayment.session
        /\ p.stepSet = LoadedPayment.stepSet /\ p.priority = LoadedPayment.priority
        /\ p.status # "Init"
    BY <1>0 DEF Payment, Statuses
  <2>2. ThreadLoads("remove", p, "finish")
    BY <1>8 DEF RemoveUnpaid
  <2> HIDE DEF p
  <2>3. QED
    BY <1>4, <2>1, <2>2 DEF ThreadLoads
<1>9. CASE RemoveAsks
  <2>1. /\ GetPayment("thread", LoadedPayment) /\ Goto("thread", "removal")
        /\ UNCHANGED <<server, active>> /\ answer'["worker"] = answer["worker"]
    BY <1>9 DEF RemoveAsks, IInv, TypeOK, Actors
  <2>2. QED
    BY <1>0, <1>4, <2>1
<1>10. ASSUME NEW v \in {"Deleted", "BadPayment"}, NEW p \in Payment,
              pc["thread"] \in {"removal", "claim"}, Handle("thread", p, "finish"),
              p \in {Own("thread"), [Own("thread") EXCEPT !.status = v]}
       PROVE  Rest'
  <2>1. /\ pc["thread"] \in HoldsObject /\ pc["thread"] # "fakeCheck"
        /\ "finish" \in HoldsObject \ (Processing \union {"fakeCheck"})
    BY <1>10 DEF HoldsObject, Processing
  <2>2. /\ p.step = Own("thread").step /\ p.session = Own("thread").session
        /\ p.stepSet = Own("thread").stepSet /\ p.priority = Own("thread").priority
        /\ p.status # "Init" \/ p.status = Own("thread").status
    BY <1>0, <1>10, <2>1 DEF Payment
  <2>3. /\ SetOwn("thread", p) /\ Goto("thread", "finish") /\ UNCHANGED <<server, row, active, use>>
        /\ \A b \in Actors : b # "thread" => answer'[b] = answer[b]
    BY <1>10 DEF Handle, ProcessUnchanged, IInv, TypeOK
  <2>4. QED
    BY <1>0, <2>1, <2>2, <2>3, OnceSet
<1>11. CASE RemoveAgreed
  <2>1. pc["thread"] \in HoldsObject
    BY <1>11 DEF RemoveAgreed, HoldsObject
  <2>2. [Own("thread") EXCEPT !.status = "Deleted"] \in Payment
    BY <1>0, <2>1 DEF Payment, Statuses
  <2>3. QED
    BY <1>10, <1>11, <2>2 DEF RemoveAgreed
<1>12. CASE ClaimOnline
  <2>1. pc["thread"] \in HoldsObject
    BY <1>12 DEF ClaimOnline, HoldsObject
  <2>2. [Own("thread") EXCEPT !.status = "BadPayment"] \in Payment
    BY <1>0, <2>1 DEF Payment, Statuses
  <2>3. PICK tooOld \in BOOLEAN :
          Handle("thread", IF tooOld \/ Own("thread").status = "ProcessError"
                           THEN [Own("thread") EXCEPT !.status = "BadPayment"] ELSE Own("thread"),
                 "finish")
    BY <1>12 DEF ClaimOnline
  <2>4. pc["thread"] = "claim"
    BY <1>12 DEF ClaimOnline
  <2>5. CASE tooOld \/ Own("thread").status = "ProcessError"
    BY <1>10, <2>2, <2>3, <2>4, <2>5
  <2>6. CASE ~(tooOld \/ Own("thread").status = "ProcessError")
    BY <1>0, <1>10, <2>1, <2>3, <2>4, <2>6
  <2>7. QED
    BY <2>5, <2>6
<1>13. CASE RemoveRefused
  BY <1>13, OnceLeave DEF RemoveRefused
<1>14. CASE ClaimDenied
  BY <1>14, OnceLeave DEF ClaimDenied
<1>15. QED
  BY <1>2, <1>3, <1>5, <1>6, <1>7, <1>8, <1>9, <1>11, <1>12, <1>13, <1>14, OnceClaim DEF Thread

-----------------------------------------------------------------------------
(* The environment, and the theorems                                       *)

\* The payment system settles a pending session.
LEMMA OnceSettles ==
    ASSUME IInv, ServerSettles
    PROVE  Rest'
<1>1. UNCHANGED <<row, mem, active, pc, use, answer>>
  BY DEF ServerSettles
<1>2. \A s \in Sessions : Taken(s)' => Taken(s)
  BY DEF ServerSettles, Settle, Taken, Charged, IInv, TypeOK
<1>3. NothingTaken => NothingTaken'
  BY <1>2 DEF NothingTaken
<1>4. QED
  BY <1>1, <1>2, <1>3 DEF Rest, IInv, Waiting, Turns, Untouched, Agreed, Attempt, Own, Live

\* A stop of the program leaves the row and the sessions.
LEMMA OnceCrash ==
    ASSUME IInv, Crash
    PROVE  Rest'
<1>1. /\ ~active' /\ UNCHANGED <<server, row>>
      /\ \A p \in Procs : pc'[p] = "idle"
      /\ \A a \in Actors : use'[a] = NoObject
  BY DEF Crash
<1>2. \A o \in Objects : ~Live(o)'
  BY <1>1 DEF Live, Objects, NoObject, Actors
<1>3. \A s \in Sessions : Taken(s)' = Taken(s)
  BY <1>1 DEF Taken
<1>4. QED
  BY <1>1, <1>2, <1>3 DEF Rest, IInv, Waiting, Turns, Untouched, Agreed, Attempt, Procs, Actors, Processing

\* Every step keeps it.
LEMMA OnceNext ==
    ASSUME IInv, UiWaits, [Next]_vars
    PROVE  IInv'
<1>1. TInv'
  BY TypeNext DEF IInv, TInv
<1>2. ASSUME Next PROVE Rest'
  BY <1>2, OnceUi, OnceWorker, OnceThread, OnceSaves, OnceProcess, OnceSettles, OnceCrash DEF Next
<1>3. ASSUME UNCHANGED vars PROVE Rest'
  BY <1>3 DEF vars, Rest, IInv, Waiting, Turns, Untouched, Agreed, Attempt, Own, NothingTaken, Taken, Live
<1>4. Rest'
  BY <1>2, <1>3
<1>5. QED
  BY <1>1, <1>4 DEF IInv, TInv, Rest

\* With a scenario that waits, the invariant holds of every state.
THEOREM Invariant ==
    ASSUME UiWaits
    PROVE  Spec => []IInv
<1>1. Init => IInv
  BY TypeInit, OnceInit DEF IInv, TInv, Rest
<1>2. IInv /\ [Next]_vars => IInv'
  BY OnceNext
<1>3. QED
  BY <1>1, <1>2, PTL DEF Spec

\* The client pays once: whatever the interleaving of scenario, worker and payment
\* thread, the answers and losses of the network, restarts and failed writes, for
\* any number of sessions and tries, and both kinds of provider.
THEOREM PaidOnce ==
    ASSUME UiWaits
    PROVE  Spec => []AtMostOnePaid
<1>1. IInv => AtMostOnePaid
  BY DEF IInv, Agreed, AtMostOnePaid
<1>2. QED
  BY <1>1, Invariant, PTL

\* And the database knows the session that took the money.
THEOREM PaidIsRecorded ==
    ASSUME UiWaits
    PROVE  Spec => []Recorded
<1>1. IInv => Recorded
  BY DEF IInv, Agreed, Recorded
<1>2. QED
  BY <1>1, Invariant, PTL

-----------------------------------------------------------------------------
(* "Completed" is true: while the scenario waits, the recheck of a session  *)
(* the server knows already never finds one that PAY has reached.           *)

\* The payment has a session of its own, in the row and wherever it is in memory.
Known ==
    row.session # NoSession /\ \A o \in Objects : Live(o) => mem[o].session # NoSession

\* The scenario has not handed the payment over yet.
Filling == active /\ mem["shared"].status = "Init"

\* Sessions PAY has reached are known, the number check is made before any PAY,
\* and CHECK finds a known session only if PAY has reached none.
Ordered ==
    /\ Sent => Known
    /\ pc["worker"] \in {"queuedCheck", "fakeCheck"} => ~Sent
    /\ Filling => ~Sent
    /\ \A a \in Actors :
          /\ pc[a] = "check" /\ answer[a] = "exists" => ~Sent
          /\ pc[a] = "recheck" => answer[a] \notin {"sent", "beyond"}

\* Whoever holds an object holds the only one there is.
LEMMA LiveLike ==
    ASSUME IInv, NEW a \in Actors, pc[a] \in HoldsObject
    PROVE  Live(use[a]) /\ \A o \in Objects : Live(o) => o = use[a]
<1>1. use["worker"] \in {NoObject, "shared"} /\ (use["thread"] = "thread" => ~active /\ use["worker"] = NoObject)
  BY Exclusive
<1>2. use[a] # NoObject /\ Actors = {"worker", "thread"} /\ NoObject \notin Objects
  BY DEF IInv, Holding, Actors, Objects, NoObject
<1>3. use["thread"] \in {NoObject, "shared", "thread"}
  BY <1>2 DEF IInv, Holding
<1>4. Live(use[a])
  BY LiveIs, <1>2
<1>5. ASSUME NEW o \in Objects, Live(o) PROVE o = use[a]
  BY <1>1, <1>2, <1>3, <1>5, LiveIs
<1>6. QED
  BY <1>4, <1>5

\* What a step must not do: lose the session, or open the payment again.
Keeps == (Known => Known') /\ (Filling' => Filling)

\* An action that loses live objects at most, and saves what a live object says.
LEMMA KeepsLive ==
    ASSUME \A o \in Objects : Live(o)' => Live(o) /\ mem'[o] = mem[o],
           active' => active, Known => row'.session # NoSession
    PROVE  Keeps
BY DEF Keeps, Known, Filling, Live, Objects

\* A save loses no session that is known.
LEMMA KeepsSaved ==
    ASSUME IInv, NEW p \in Procs, MayWriteRow(p),
           IF p = "ui" THEN pc[p] # "idle" ELSE pc[p] \in HoldsObject
    PROVE  Known => row'.session # NoSession
<1>1. Object(p) \in Objects /\ Live(Object(p)) /\ mem[Object(p)] \in Payment
  BY SameObject DEF IInv, TypeOK
<1>2. Saved(mem[Object(p)]).session = mem[Object(p)].session
  BY <1>1 DEF Saved, Payment
<1>3. QED
  BY <1>1, <1>2 DEF MayWriteRow, WriteRow, FailWrite, Known

\* A process that changes its object.
LEMMA KeepsSet ==
    ASSUME IInv, NEW a \in Actors, pc[a] \in HoldsObject, NEW p, SetOwn(a, p),
           UNCHANGED <<row, active, use>>,
           Known => p.session # NoSession,
           p.status = "Init" => Own(a).status = "Init"
    PROVE  Keeps
<1>1. /\ use[a] \in Objects /\ Live(use[a]) /\ mem' = [mem EXCEPT ![use[a]] = p]
      /\ \A o \in Objects : mem'[o] = IF o = use[a] THEN p ELSE mem[o]
  BY LiveLike, OwnType DEF SetOwn, IInv, TInv, TypeOK
<1>2. Known => Known'
  BY <1>1 DEF Known, Live
<1>3. Filling' => Filling
  BY <1>1 DEF Filling, Own, Objects
<1>4. QED
  BY <1>2, <1>3 DEF Keeps

\* A process that is given an object.
LEMMA KeepsGet ==
    ASSUME IInv, NEW a \in Actors, NEW p, GetPayment(a, p), UNCHANGED active,
           Known => p.session # NoSession,
           p.status = "Init" => LoadedPayment.status = "Init"
    PROVE  Keeps
<1>1. /\ use' = [use EXCEPT ![a] = LoadedObject(a)] /\ mem' = [mem EXCEPT ![LoadedObject(a)] = p]
      /\ LoadedObject(a) \in Objects
  BY DEF GetPayment, LoadedObject, Objects
<1>2. LoadedObject(a) = IF active THEN "shared" ELSE a
  BY DEF LoadedObject
<1>3. \A o \in Objects : mem'[o] = IF o = LoadedObject(a) THEN p ELSE mem[o]
  BY <1>1 DEF IInv, TypeOK
<1>4. \A b \in Actors : use'[b] = IF b = a THEN LoadedObject(a) ELSE use[b]
  BY <1>1 DEF IInv, TypeOK
<1>5. \A o \in Objects : Live(o)' => Live(o) \/ o = LoadedObject(a)
  BY <1>4 DEF Live
<1>6. Known => row'.session # NoSession
  <2>1. row \in Payment /\ (~active /\ ~Genuine => LoadedPayment.session = row.session)
    BY DEF IInv, TypeOK, LoadedPayment, Payment
  <2>2. QED
    BY <2>1 DEF GetPayment, SaveCheated, FailWrite, Known
<1>7. Known => Known'
  BY <1>3, <1>5, <1>6 DEF Known
<1>8. Filling' => Filling
  BY <1>2, <1>3 DEF Filling, LoadedPayment, Objects
<1>9. QED
  BY <1>7, <1>8 DEF Keeps

\* The loaded payment's session is the object's or the row's.
LEMMA LoadedKnown ==
    ASSUME IInv
    PROVE  Known => LoadedPayment.session # NoSession
BY DEF IInv, TypeOK, Payment, LoadedPayment, Known, Live, Objects

\* The scenario loses none.
LEMMA KeepsUi ==
    ASSUME IInv, UiWaits, Ui
    PROVE  Keeps
<1> DEFINE m == mem["shared"]
<1>0. m \in Payment /\ "shared" \in Objects
  BY DEF IInv, TypeOK, Objects
<1>1. ASSUME NEW p, ChangeAndSave(p), MayTouch, p.session = m.session,
             p.status = "Init" => m.status = "Init"
      PROVE  Keeps
  <2>1. /\ active /\ UNCHANGED <<row, use, active>>
        /\ \A o \in Objects : mem'[o] = IF o = "shared" THEN p ELSE mem[o]
    BY <1>1 DEF ChangeAndSave, UiUnchanged, MayTouch, MayLeave, IInv, TypeOK
  <2>2. Known => Known'
    BY <1>0, <1>1, <2>1 DEF Known, Live
  <2>3. Filling' => Filling
    BY <1>0, <1>1, <2>1 DEF Filling
  <2>4. QED
    BY <2>2, <2>3 DEF Keeps
<1>2. CASE UiUpdate
  BY <1>1, <1>2 DEF UiUpdate
<1>3. CASE UiProcessOffline
  <2> DEFINE p == [m EXCEPT !.priority = "Offline", !.status = "ReadyForCheck"]
  <2>1. p.session = m.session /\ p.status = "ReadyForCheck"
    BY <1>0 DEF Payment
  <2>2. ChangeAndSave(p) /\ MayTouch
    BY <1>3 DEF UiProcessOffline
  <2> HIDE DEF p
  <2>3. QED
    BY <1>1, <2>1, <2>2
<1>4. \A v : [m EXCEPT !.status = v].status = v /\ [m EXCEPT !.status = v].session = m.session
  BY <1>0 DEF Payment
<1>5. CASE UiCancel
  BY <1>1, <1>4, <1>5 DEF UiCancel
<1>6. CASE UiStop
  BY <1>1, <1>4, <1>6 DEF UiStop
<1>7. CASE UiProcessOnline \/ UiDataCheck \/ UiDeactivate
  <2>1. UNCHANGED <<row, mem, active, use>>
    BY <1>7 DEF UiProcessOnline, UiDataCheck, UiDeactivate, UiUnchanged
  <2>2. QED
    BY <2>1, KeepsLive DEF Live, Known
<1>8. CASE UiAbandon
  <2>1. \A o \in Objects : Live(o)' => Live(o) /\ mem'[o] = mem[o]
    BY <1>8, LiveIs DEF UiAbandon, DropActive, UiUnchanged, Live, Objects, Actors, IInv, TypeOK
  <2>2. UNCHANGED row /\ ~active'
    BY <1>8 DEF UiAbandon, DropActive, UiUnchanged
  <2>3. QED
    BY <2>1, <2>2, KeepsLive DEF Known
<1>9. QED
  BY <1>2, <1>3, <1>5, <1>6, <1>7, <1>8 DEF Ui

\* The saves lose none.
LEMMA KeepsSaves ==
    ASSUME IInv, Saves
    PROVE  Keeps
<1>0. Procs = {"ui", "worker", "thread"} /\ Actors = {"worker", "thread"}
  BY DEF Procs, Actors
<1>1. ASSUME NEW p \in Procs, Sign(p) PROVE Keeps
  <2>1. UNCHANGED <<row, mem, active, use>>
    BY <1>1 DEF Sign
  <2>2. QED
    BY <2>1, KeepsLive DEF Live, Known
<1>2. ASSUME NEW a \in Actors, WriteBeforePay(a) \/ WriteFound(a) PROVE Keeps
  <2>1. a \in Procs /\ a # "ui" /\ pc[a] \in HoldsObject /\ MayWriteRow(a) /\ UNCHANGED <<mem, active, use>>
    BY <1>0, <1>2 DEF WriteBeforePay, WriteFound, MayWriteRow, HoldsObject, Processing
  <2>2. Known => row'.session # NoSession
    BY <2>1, KeepsSaved
  <2>3. QED
    BY <2>1, <2>2, KeepsLive DEF Live
<1>3. ASSUME NEW a \in Actors, Finish(a) PROVE Keeps
  <2>1. /\ a \in Procs /\ a # "ui" /\ pc[a] \in HoldsObject /\ MayWriteRow(a)
        /\ Release(a) /\ UNCHANGED active
    BY <1>0, <1>3 DEF Finish, HoldsObject
  <2>2. Known => row'.session # NoSession
    BY <2>1, KeepsSaved
  <2>3. QED
    BY <2>1, <2>2, ReleaseKeeps, KeepsLive
<1>4. CASE UiFinish
  <2>1. "ui" \in Procs /\ pc["ui"] # "idle" /\ MayWriteRow("ui") /\ UNCHANGED <<mem, active, use>>
    BY <1>0, <1>4 DEF UiFinish
  <2>2. Known => row'.session # NoSession
    BY <2>1, KeepsSaved
  <2>3. QED
    BY <2>1, <2>2, KeepsLive DEF Live
<1>5. CASE UiDrop
  <2>1. "ui" \in Procs /\ pc["ui"] # "idle" /\ MayWriteRow("ui")
    BY <1>0, <1>5 DEF UiDrop
  <2>2. Known => row'.session # NoSession
    BY <2>1, KeepsSaved
  <2>3. ~active' /\ \A o \in Objects : Live(o)' => Live(o) /\ mem'[o] = mem[o]
    BY <1>5 DEF UiDrop, DropActive, Live, IInv, TypeOK
  <2>4. QED
    BY <2>2, <2>3, KeepsLive
<1>6. QED
  BY <1>1, <1>2, <1>3, <1>4, <1>5 DEF Saves

\* An attempt starts a session anew only where it may.
LEMMA KeepsProcess ==
    ASSUME IInv, NEW a \in Actors, Process(a)
    PROVE  Keeps
<1>0. /\ {"process", "check", "recheck", "pay", "payAnswer", "status"} \subseteq HoldsObject
      /\ pc[a] \in HoldsObject =>
            /\ Own(a) \in Payment /\ (Known => Own(a).session # NoSession)
            /\ Failed(a).session = Own(a).session /\ Failed(a).status # "Init"
  <2>1. pc[a] \in HoldsObject => use[a] \in Objects /\ Live(use[a]) /\ Own(a) \in Payment
    BY LiveLike, OwnType DEF IInv, TInv
  <2>2. QED
    BY <2>1, FailedKeeps DEF HoldsObject, Processing, Known, Own
<1>1. ASSUME NEW p, SetOwn(a, p), UNCHANGED <<row, active, use>>, pc[a] \in HoldsObject,
             p.session = Own(a).session,
             p.status \in {Own(a).status, Failed(a).status, "Completed"}
      PROVE  Keeps
  BY <1>0, <1>1, KeepsSet
<1>2. ASSUME NEW p, NEW l, Handle(a, p, l), pc[a] \in HoldsObject, p.session = Own(a).session,
             p.status \in {Own(a).status, Failed(a).status, "Completed"}
      PROVE  Keeps
  BY <1>1, <1>2 DEF Handle, ProcessUnchanged
<1>3. pc[a] \in HoldsObject =>
         \A v \in {"Init", "Pay"} :
            /\ SetStep(Own(a), v).status = Own(a).status
            /\ SetStep(Own(a), v).session = Own(a).session
            /\ [SetStep(Own(a), v) EXCEPT !.status = "Completed"].status = "Completed"
            /\ [SetStep(Own(a), v) EXCEPT !.status = "Completed"].session = Own(a).session
            /\ [Own(a) EXCEPT !.status = "Completed"].status = "Completed"
            /\ [Own(a) EXCEPT !.status = "Completed"].session = Own(a).session
  BY <1>0 DEF SetStep, Payment
<1>4. CASE SendCheck(a)
  <2>1. PICK s \in Sessions : SetOwn(a, [Own(a) EXCEPT !.session = s])
    BY <1>4 DEF SendCheck
  <2>2. pc[a] \in HoldsObject /\ UNCHANGED <<row, active, use>>
    BY <1>0, <1>4 DEF SendCheck, ProcessUnchanged
  <2>3. [Own(a) EXCEPT !.session = s].status = Own(a).status /\ [Own(a) EXCEPT !.session = s].session = s
    BY <1>0, <2>2 DEF Payment
  <2>4. s # NoSession
    BY SessionAssumption
  <2>5. QED
    BY <2>1, <2>2, <2>3, <2>4, KeepsSet
<1>5. CASE SendStatus(a) \/ Skip(a) \/ SendPay(a)
  <2>1. UNCHANGED <<row, mem, active, use>>
    BY <1>5 DEF SendStatus, Skip, SendPay, ProcessUnchanged
  <2>2. QED
    BY <2>1, KeepsLive DEF Live, Known
<1>6. CASE CheckAccepted(a)
  BY <1>0, <1>2, <1>3, <1>6 DEF CheckAccepted
<1>7. CASE CheckRefused(a)
  BY <1>0, <1>2, <1>7 DEF CheckRefused
<1>8. CASE CheckExists(a)
  BY <1>0, <1>1, <1>8 DEF CheckExists, ProcessUnchanged
<1>9. CASE FoundComplete(a)
  BY <1>0, <1>2, <1>3, <1>9 DEF FoundComplete
<1>10. CASE FoundOpen(a)
  BY <1>0, <1>2, <1>10 DEF FoundOpen
<1>11. CASE PayAnswered(a)
  BY <1>0, <1>2, <1>3, <1>11 DEF PayAnswered
<1>12. CASE StatusNotPaid(a)
  BY <1>0, <1>2, <1>3, <1>12 DEF StatusNotPaid
<1>13. CASE StatusPaid(a)
  BY <1>0, <1>2, <1>3, <1>13 DEF StatusPaid
<1>14. CASE StatusOpen(a)
  BY <1>0, <1>2, <1>14 DEF StatusOpen
<1>15. CASE StatusUnknown(a)
  BY <1>0, <1>2, <1>15 DEF StatusUnknown
<1>16. QED
  BY <1>4, <1>5, <1>6, <1>7, <1>8, <1>9, <1>10, <1>11, <1>12, <1>13, <1>14, <1>15 DEF Process

\* The worker keeps the session too, but for the end of a number check, which
\* gives the payment back the one it had.
LEMMA KeepsWorker ==
    ASSUME IInv, Worker
    PROVE  (WorkerChecked \/ (Known => Known')) /\ (Filling' => Filling)
<1>0. "worker" \in Actors /\ LoadedPayment \in Payment
  BY LoadedType DEF Actors, IInv, TInv
<1>1. CASE WorkerPays
  <2>1. /\ [LoadedPayment EXCEPT !.status = "ProcessError"].status = "ProcessError"
        /\ [LoadedPayment EXCEPT !.status = "ProcessError"].session = LoadedPayment.session
    BY <1>0 DEF Payment
  <2>2. GetPayment("worker", [LoadedPayment EXCEPT !.status = "ProcessError"]) /\ UNCHANGED active
    BY <1>1 DEF WorkerPays
  <2>3. Keeps
    BY <1>0, <2>1, <2>2, LoadedKnown, KeepsGet
  <2>4. QED
    BY <2>3 DEF Keeps
<1>2. CASE WorkerChecks
  <2>1. PICK s \in Sessions : GetPayment("worker", [LoadedPayment EXCEPT !.session = s])
    BY <1>2 DEF WorkerChecks
  <2>2. /\ [LoadedPayment EXCEPT !.session = s].status = LoadedPayment.status
        /\ [LoadedPayment EXCEPT !.session = s].session = s /\ s # NoSession /\ UNCHANGED active
    BY <1>0, <1>2, SessionAssumption DEF Payment, WorkerChecks
  <2>3. Keeps
    BY <1>0, <2>1, <2>2, KeepsGet
  <2>4. QED
    BY <2>3 DEF Keeps
<1>3. CASE WorkerChecked
  <2>1. pc["worker"] \in HoldsObject
    BY <1>3 DEF WorkerChecked, HoldsObject
  <2>2. use["worker"] \in Objects /\ Own("worker") \in Payment
    BY <1>0, <2>1, OwnType DEF IInv, TInv
  <2>3. /\ mem' = [mem EXCEPT ![use["worker"]] = [Own("worker") EXCEPT !.session = held]]
        /\ [Own("worker") EXCEPT !.session = held].status = Own("worker").status /\ UNCHANGED active
    BY <1>3, <2>2 DEF WorkerChecked, SetOwn, Payment
  <2>4. Filling' => Filling
    BY <2>2, <2>3 DEF Filling, Own, IInv, TypeOK, Objects
  <2>5. QED
    BY <1>3, <2>4
<1>4. QED
  BY <1>1, <1>2, <1>3 DEF Worker

\* The payment thread loses none.
LEMMA KeepsThread ==
    ASSUME IInv, Thread
    PROVE  Keeps
<1>0. "thread" \in Actors /\ LoadedPayment \in Payment
  BY LoadedType DEF Actors, IInv, TInv
<1>1. CASE Pick \/ \E c \in Commands : Command(c)
  <2>1. UNCHANGED <<row, mem, active, use>>
    BY <1>1 DEF Pick, Command
  <2>2. QED
    BY <2>1, KeepsLive DEF Live, Known
<1>2. ASSUME NEW p, GetPayment("thread", p), UNCHANGED active, p.session = LoadedPayment.session,
             p.status = "Init" => LoadedPayment.status = "Init"
      PROVE  Keeps
  BY <1>0, <1>2, LoadedKnown, KeepsGet
<1>3. CASE LoadQueued \/ LoadUpdated \/ RemoveAsks
  BY <1>2, <1>3 DEF LoadQueued, LoadUpdated, RemoveAsks, ThreadLoads
<1>4. CASE LoadForced
  <2> DEFINE p == [LoadedPayment EXCEPT !.status = "ProcessError", !.tries = 1]
  <2>1. p.status = "ProcessError" /\ p.session = LoadedPayment.session
    BY <1>0 DEF Payment
  <2>2. GetPayment("thread", p) /\ UNCHANGED active
    BY <1>4 DEF LoadForced, ThreadLoads
  <2> HIDE DEF p
  <2>3. QED
    BY <1>2, <2>1, <2>2
<1>5. CASE RemoveUnpaid
  <2> DEFINE p == [LoadedPayment EXCEPT !.status = "Deleted"]
  <2>1. p.status = "Deleted" /\ p.session = LoadedPayment.session
    BY <1>0 DEF Payment
  <2>2. GetPayment("thread", p) /\ UNCHANGED active
    BY <1>5 DEF RemoveUnpaid, ThreadLoads
  <2> HIDE DEF p
  <2>3. QED
    BY <1>2, <2>1, <2>2
<1>6. pc["thread"] \in {"removal", "claim"} =>
         /\ pc["thread"] \in HoldsObject
         /\ Own("thread") \in Payment /\ (Known => Own("thread").session # NoSession)
  <2>1. {"removal", "claim"} \subseteq HoldsObject
    BY DEF HoldsObject
  <2>2. pc["thread"] \in HoldsObject =>
           use["thread"] \in Objects /\ Live(use["thread"]) /\ Own("thread") \in Payment
    BY <1>0, LiveLike, OwnType DEF IInv, TInv
  <2>3. QED
    BY <2>1, <2>2 DEF Known, Own
<1>7. ASSUME pc["thread"] \in {"removal", "claim"}, NEW p, NEW l, Handle("thread", p, l),
             p.session = Own("thread").session,
             p.status \in {Own("thread").status, "Deleted", "BadPayment"}
      PROVE  Keeps
  BY <1>0, <1>6, <1>7, KeepsSet DEF Handle, ProcessUnchanged
<1>8. pc["thread"] \in {"removal", "claim"} =>
         /\ \A v : /\ [Own("thread") EXCEPT !.status = v].status = v
                   /\ [Own("thread") EXCEPT !.status = v].session = Own("thread").session
         /\ \A v : /\ [Own("thread") EXCEPT !.priority = v].status = Own("thread").status
                   /\ [Own("thread") EXCEPT !.priority = v].session = Own("thread").session
  BY <1>6 DEF Payment
<1>9. CASE RemoveAgreed
  BY <1>7, <1>8, <1>9 DEF RemoveAgreed
<1>10. CASE RemoveRefused \/ ClaimDenied
  <2>1. pc["thread"] \in {"removal", "claim"} /\ Release("thread") /\ UNCHANGED <<row, active>>
    BY <1>10 DEF RemoveRefused, ClaimDenied, Leave
  <2>2. \A o \in Objects : Live(o)' => Live(o) /\ mem'[o] = mem[o]
    BY <1>0, <1>6, <2>1, ReleaseKeeps
  <2>3. QED
    BY <2>1, <2>2, KeepsLive DEF Known
<1>11. CASE ClaimOffline
  BY <1>7, <1>8, <1>11 DEF ClaimOffline
<1>12. CASE ClaimOnline
  BY <1>7, <1>8, <1>12 DEF ClaimOnline
<1>13. QED
  BY <1>1, <1>3, <1>4, <1>5, <1>9, <1>10, <1>11, <1>12 DEF Thread

\* The session, once known, stays known, and a payment handed over stays so.
LEMMA KeepsNext ==
    ASSUME IInv, UiWaits, [Next]_vars
    PROVE  (WorkerChecked \/ (Known => Known')) /\ (Filling' => Filling)
<1>1. CASE Crash
  <2>1. ~active' /\ (\A a \in Actors : use'[a] = NoObject) /\ UNCHANGED row
    BY <1>1 DEF Crash
  <2>2. \A o \in Objects : ~Live(o)'
    BY <2>1 DEF Live, Objects, NoObject, Actors
  <2>3. QED
    BY <2>1, <2>2 DEF Known, Filling
<1>2. CASE ServerSettles \/ UNCHANGED vars
  BY <1>2 DEF ServerSettles, vars, Known, Filling, Live
<1>3. QED
  BY <1>1, <1>2, KeepsUi, KeepsSaves, KeepsProcess, KeepsWorker, KeepsThread DEF Next, Keeps

\* Where process a is: unmoved with its answer, out of sight, or just come to one
\* of the places Ordered speaks of.
Stays(a) == pc'[a] = pc[a] /\ answer'[a] = answer[a]
Elsewhere(a) == pc'[a] \notin {"queuedCheck", "fakeCheck", "check", "recheck"}
Arrives(a) ==
    \/ a = "worker" /\ (UiDataCheck \/ WorkerChecks) /\ pc'[a] \in {"queuedCheck", "fakeCheck"}
    \/ SendCheck(a) \/ CheckExists(a)

\* Going on to a step that is none of these leaves every actor where it is.
LEMMA PlaceGoto ==
    ASSUME IInv, NEW p \in Procs, NEW l, Goto(p, l),
           p \in Actors => l \notin {"queuedCheck", "fakeCheck", "check", "recheck"},
           \A a \in Actors : a # p => answer'[a] = answer[a]
    PROVE  \A a \in Actors : Stays(a) \/ Elsewhere(a)
BY DEF Goto, IInv, TypeOK, Procs, Stays, Elsewhere

\* An attempt takes its actor to one of these steps only as Arrives says.
LEMMA PlaceProcess ==
    ASSUME IInv, NEW b \in Actors, Process(b)
    PROVE  \A a \in Actors : Stays(a) \/ Elsewhere(a) \/ Arrives(a)
<1>0. b \in Procs
  BY DEF Procs
<1>1. CASE SendStatus(b) \/ Skip(b) \/ SendPay(b)
  <2>1. /\ \E l \in {"status", "finish", "payAnswer"} : Goto(b, l)
        /\ \A a \in Actors : a # b => answer'[a] = answer[a]
    BY <1>1 DEF SendStatus, AskStatus, Skip, SendPay, IInv, TypeOK
  <2>2. QED
    BY <1>0, <2>1, PlaceGoto
<1>2. CASE \/ CheckAccepted(b) \/ CheckRefused(b) \/ FoundComplete(b) \/ FoundOpen(b)
           \/ PayAnswered(b) \/ StatusNotPaid(b) \/ StatusPaid(b) \/ StatusOpen(b) \/ StatusUnknown(b)
  <2>1. \E l \in {"sign", "finish", "signDone", "process"} :
           Goto(b, l) /\ answer' = [answer EXCEPT ![b] = "none"]
    BY <1>2 DEF CheckAccepted, CheckRefused, FoundComplete, FoundOpen, PayAnswered, StatusNotPaid,
                StatusPaid, StatusOpen, StatusUnknown, Handle
  <2>2. \A a \in Actors : a # b => answer'[a] = answer[a]
    BY <2>1 DEF IInv, TypeOK
  <2>3. QED
    BY <1>0, <2>1, <2>2, PlaceGoto
<1>3. CASE SendCheck(b) \/ CheckExists(b)
  <2>1. \E l : Goto(b, l)
    BY <1>3 DEF SendCheck, CheckExists
  <2>2. \A a \in Actors : a # b => answer'[a] = answer[a]
    BY <1>3 DEF SendCheck, CheckExists, AskStatus, IInv, TypeOK
  <2>3. \A a \in Actors : a # b => pc'[a] = pc[a]
    BY <2>1 DEF Goto, IInv, TypeOK, Procs
  <2>4. QED
    BY <1>3, <2>2, <2>3 DEF Stays, Arrives
<1>4. QED
  BY <1>1, <1>2, <1>3 DEF Process

\* So does every step.
LEMMA PlaceNext ==
    ASSUME IInv, [Next]_vars
    PROVE  \A a \in Actors : Stays(a) \/ Elsewhere(a) \/ Arrives(a)
<1>0. {"ui", "worker", "thread"} = Procs /\ Actors = {"worker", "thread"}
  BY DEF Procs, Actors
<1>1. CASE Ui
  <2>1. UNCHANGED answer
    BY <1>1 DEF Ui, UiUpdate, UiProcessOnline, UiProcessOffline, UiDataCheck, UiCancel, UiStop,
                UiDeactivate, UiAbandon, ChangeAndSave, UiUnchanged
  <2>2. CASE UiDataCheck
    <3>1. pc' = [pc EXCEPT !["worker"] = "queuedCheck"]
      BY <2>2 DEF UiDataCheck, Goto
    <3>2. pc'["worker"] = "queuedCheck" /\ pc'["thread"] = pc["thread"]
      BY <1>0, <3>1 DEF IInv, TypeOK
    <3>3. QED
      BY <1>0, <2>1, <2>2, <3>2 DEF Stays, Arrives
  <2>3. CASE UiUpdate \/ UiProcessOffline \/ UiCancel \/ UiStop \/ UiDeactivate \/ UiProcessOnline
    <3>1. \E p \in {"ui", "worker"}, l \in {"finish", "closing", "queued"} : Goto(p, l)
      BY <2>3 DEF UiUpdate, UiProcessOnline, UiProcessOffline, UiCancel, UiStop, UiDeactivate, ChangeAndSave
    <3>2. QED
      BY <1>0, <2>1, <3>1, PlaceGoto
  <2>4. CASE UiAbandon
    BY <2>1, <2>4 DEF UiAbandon, Stays
  <2>5. QED
    BY <1>1, <2>2, <2>3, <2>4 DEF Ui
<1>2. CASE Saves
  <2>1. UNCHANGED answer /\ \E p \in Procs, l \in {"write", "writeDone", "ending", "dropping", "pay",
                                                   "finish", "idle"} : Goto(p, l)
    BY <1>0, <1>2 DEF Saves, Sign, Signing, WriteBeforePay, WriteFound, Finish, UiFinish, UiDrop, Written
  <2>2. QED
    BY <2>1, PlaceGoto
<1>3. CASE Worker
  <2>1. CASE WorkerChecks
    <3>1. pc' = [pc EXCEPT !["worker"] = "fakeCheck"] /\ UNCHANGED answer
      BY <2>1 DEF WorkerChecks, Goto
    <3>2. pc'["worker"] = "fakeCheck" /\ pc'["thread"] = pc["thread"]
      BY <1>0, <3>1 DEF IInv, TypeOK
    <3>3. QED
      BY <1>0, <2>1, <3>1, <3>2 DEF Stays, Arrives
  <2>2. CASE WorkerPays \/ WorkerChecked
    <3>1. UNCHANGED answer /\ \E l \in {"process", "finish"} : Goto("worker", l)
      BY <2>2 DEF WorkerPays, WorkerChecked
    <3>2. QED
      BY <1>0, <3>1, PlaceGoto
  <2>3. QED
    BY <1>3, <2>1, <2>2 DEF Worker
<1>4. CASE Thread
  <2> DEFINE L == {"pick", "claim", "finish", "removal", "idle", "process"} \union Commands
  <2>1. \A l \in L : l \notin {"queuedCheck", "fakeCheck", "check", "recheck"}
    BY OptionAssumption
  <2>2. \E l \in L : Goto("thread", l)
    BY <1>4 DEF Thread, Pick, Command, LoadQueued, LoadForced, LoadUpdated, ThreadLoads, RemoveUnpaid,
                RemoveAsks, RemoveAgreed, RemoveRefused, Leave, Handle, ClaimDenied, ClaimOffline,
                ClaimOnline
  <2>3. UNCHANGED answer \/ \E r : answer' = [answer EXCEPT !["thread"] = r]
    BY <1>4 DEF Thread, Pick, Command, LoadQueued, LoadForced, LoadUpdated, ThreadLoads, RemoveUnpaid,
                RemoveAsks, RemoveAgreed, RemoveRefused, Leave, Handle, ClaimDenied, ClaimOffline,
                ClaimOnline
  <2>4. \A a \in Actors : a # "thread" => answer'[a] = answer[a]
    BY <2>3 DEF IInv, TypeOK
  <2> HIDE DEF L
  <2>5. QED
    BY <1>0, <2>1, <2>2, <2>4, PlaceGoto
<1>5. CASE Crash
  BY <1>0, <1>5 DEF Crash, Elsewhere
<1>6. CASE ServerSettles \/ UNCHANGED vars
  BY <1>6 DEF ServerSettles, vars, Stays
<1>7. QED
  BY <1>1, <1>2, <1>3, <1>4, <1>5, <1>6, PlaceProcess DEF Next

\* CHECK finds a session the server knows only for a payment that was never sent:
\* its first session, after a restart that forgot it.
LEMMA ExistsUnsent ==
    ASSUME IInv, Ordered, NEW a \in Actors, SendCheck(a), answer'[a] = "exists"
    PROVE  ~Sent
<1>1. PICK s \in Sessions : NextSession(Own(a), s) /\ \E r \in Check(Renewed(s)) :
          answer' = [answer EXCEPT ![a] = r[2]]
  BY DEF SendCheck
<1>2. PICK r \in Check(Renewed(s)) : answer' = [answer EXCEPT ![a] = r[2]]
  BY <1>1
<1>3. r[2] = "exists"
  BY <1>2 DEF IInv, TypeOK
<1>4. Renewed(s) # "none"
  BY <1>2, <1>3 DEF Check
<1>5. s = InitialSession
  BY <1>4 DEF Renewed
<1>6. Own(a).session = NoSession
  BY <1>1, <1>5 DEF NextSession, Fresh
<1>7. use[a] \in Objects /\ Live(use[a])
  BY LiveLike, OwnType DEF IInv, TInv, SendCheck, HoldsObject, Processing
<1>8. QED
  BY <1>6, <1>7 DEF Ordered, Known, Own

\* Only PAY sends money: the first one finds the payment with its session.
LEMMA OrderedPay ==
    ASSUME IInv, UiWaits, Ordered, NEW a \in Actors, SendPay(a)
    PROVE  Ordered'
<1>1. /\ pc[a] = "pay" /\ pc[a] \in HoldsObject /\ pc[a] \in Processing
      /\ UNCHANGED <<row, mem, active, use>>
      /\ pc' = [pc EXCEPT ![a] = "payAnswer"]
  BY DEF SendPay, ProcessUnchanged, Goto, HoldsObject, Processing
<1>2. /\ pc'[a] = "payAnswer"
      /\ \A b \in Actors : b # a => pc'[b] = pc[b] /\ answer'[b] = answer[b]
  BY <1>1 DEF SendPay, IInv, TypeOK, Procs
<1>3. /\ \A b \in Actors : b # a => pc[b] \notin Processing
      /\ pc["worker"] \notin {"queuedCheck", "fakeCheck"}
  BY <1>1, Exclusive DEF Actors, Processing
<1>4. ~Filling
  BY <1>1 DEF Filling, IInv, Untouched, Turns, Actors
<1>5. row.step = "Pay" /\ row.session = Own(a).session
  BY <1>1 DEF IInv, Attempt
<1>6. \A o \in Objects : Live(o) => mem[o].session = Own(a).session
  BY <1>1, LiveLike DEF Own
<1>7. Sent' => Sent \/ Own(a).session \in Sessions
  <2>1. ASSUME NEW t \in Sessions, server'[t] \in Charged \union {"failed"}
        PROVE  server[t] \in Charged \union {"failed"} \/ t = Own(a).session
    BY <2>1, SendPayKeeps DEF IInv, TInv
  <2>2. QED
    BY <2>1 DEF Sent
<1>8. (Sent => Known)'
  <2>1. Own(a).session \in Sessions => Known
    BY <1>5, <1>6, SessionAssumption DEF Known
  <2>2. Known => Known'
    BY <1>1 DEF Known, Live
  <2>3. QED
    BY <1>7, <2>1, <2>2 DEF Ordered
<1>9. (pc["worker"] \in {"queuedCheck", "fakeCheck"} => ~Sent)'
  BY <1>2, <1>3 DEF Actors
<1>10. (Filling => ~Sent)'
  BY <1>1, <1>4 DEF Filling
<1>11. \A b \in Actors : (/\ pc[b] = "check" /\ answer[b] = "exists" => ~Sent
                          /\ pc[b] = "recheck" => answer[b] \notin {"sent", "beyond"})'
  BY <1>2, <1>3 DEF Ordered, Processing
<1>12. QED
  BY <1>8, <1>9, <1>10, <1>11 DEF Ordered

\* Every step keeps the order of the requests.
LEMMA OrderedNext ==
    ASSUME IInv, UiWaits, Ordered, [Next]_vars
    PROVE  Ordered'
<1>0. TInv
  BY DEF IInv, TInv
<1>1. CASE \E a \in Actors : SendPay(a)
  BY <1>1, OrderedPay
<1>2. CASE ~ \E a \in Actors : SendPay(a)
  <2>1. Sent' => Sent
    <3>1. ASSUME NEW t \in Sessions, server'[t] \in Charged \union {"failed"}
          PROVE  server[t] \in Charged \union {"failed"}
      BY <1>0, <1>2, <3>1, ServerSteps, SendCheckKeeps, SettleKeeps DEF Charged
    <3>2. QED
      BY <3>1 DEF Sent
  <2>2. (Sent => Known)'
    <3>1. WorkerChecked => ~Sent
      BY DEF WorkerChecked, Ordered
    <3>2. QED
      BY <2>1, <3>1, KeepsNext DEF Ordered
  <2>3. (Filling => ~Sent)'
    BY <2>1, KeepsNext DEF Ordered
  <2>4. UiDataCheck \/ WorkerChecks => ~Sent
    BY DEF UiDataCheck, MayTouch, MayLeave, WorkerChecks, Ordered, Filling
  <2>5. ASSUME NEW a \in Actors
        PROVE  /\ a = "worker" /\ pc'[a] \in {"queuedCheck", "fakeCheck"} => ~Sent'
               /\ pc'[a] = "check" /\ answer'[a] = "exists" => ~Sent'
               /\ pc'[a] = "recheck" => answer'[a] \notin {"sent", "beyond"}
    <3>1. CASE Stays(a)
      BY <2>1, <3>1 DEF Stays, Ordered
    <3>2. CASE Elsewhere(a)
      BY <3>2 DEF Elsewhere
    <3>3. CASE a = "worker" /\ (UiDataCheck \/ WorkerChecks) /\ pc'[a] \in {"queuedCheck", "fakeCheck"}
      BY <2>1, <2>4, <3>3
    <3>4. CASE SendCheck(a)
      <4>1. pc'[a] = "check"
        BY <3>4 DEF SendCheck, Goto, IInv, TypeOK, Procs
      <4>2. QED
        BY <2>1, <3>4, <4>1, ExistsUnsent
    <3>5. CASE CheckExists(a)
      <4>1. pc'[a] = "recheck" /\ pc[a] = "check" /\ answer[a] = "exists"
        BY <3>5 DEF CheckExists, Goto, IInv, TypeOK, Procs
      <4>2. PICK r \in Status(StateOf(Own(a).session)) : answer' = [answer EXCEPT ![a] = r]
        BY <3>5 DEF CheckExists, AskStatus
      <4>3. answer'[a] = r
        BY <4>2 DEF IInv, TypeOK
      <4>4. ~Sent
        BY <4>1 DEF Ordered
      <4>5. r \in {"sent", "beyond"} => Sent
        BY <1>0, <4>2, StatusTrue
      <4>6. QED
        BY <4>1, <4>3, <4>4, <4>5
    <3>6. QED
      BY <3>1, <3>2, <3>3, <3>4, <3>5, PlaceNext DEF Arrives
  <2>6. (pc["worker"] \in {"queuedCheck", "fakeCheck"} => ~Sent)'
    BY <2>5 DEF Actors
  <2>7. \A a \in Actors : (/\ pc[a] = "check" /\ answer[a] = "exists" => ~Sent
                           /\ pc[a] = "recheck" => answer[a] \notin {"sent", "beyond"})'
    BY <2>5
  <2>8. QED
    BY <2>2, <2>3, <2>6, <2>7 DEF Ordered
<1>3. QED
  BY <1>1, <1>2

\* At the first start nothing has been requested.
LEMMA OrderedInit == Init => Ordered
BY DEF Init, Ordered, Sent, Charged, Actors, Procs

\* What row and objects say of the verdict is true.
Verdict == IInv /\ Truthful /\ Ordered /\ (SomeCompleted => Paid)

\* The invariant of the verdict at the first start.
LEMMA VerdictInit == Init => Verdict
<1> SUFFICES ASSUME Init PROVE Verdict
  OBVIOUS
<1>1. IInv
  BY TypeInit, OnceInit DEF IInv, TInv, Rest
<1>2. ~SomeCompleted
  BY DEF Init, SomeCompleted, Dummy, NewPayment
<1>3. QED
  BY <1>1, <1>2, TruthfulInit, OrderedInit DEF Verdict

\* Every step keeps it.
LEMMA VerdictNext ==
    ASSUME UiWaits, Verdict, [Next]_vars
    PROVE  Verdict'
<1>1. TInv /\ IInv' /\ Truthful' /\ Ordered' /\ (Paid => Paid')
  BY OnceNext, TruthfulNext, OrderedNext, SentStays DEF Verdict, IInv, TInv
<1>2. \A a \in Actors : SaysComplete(a) => Paid
  BY DEF Verdict, Truthful, Ordered, SaysComplete
<1>3. SomeCompleted' => Paid
  BY <1>1, <1>2, VerdictComes DEF Verdict
<1>4. QED
  BY <1>1, <1>3 DEF Verdict

\* It holds throughout.
LEMMA VerdictHolds ==
    ASSUME UiWaits
    PROVE  Spec => []Verdict
<1>1. Verdict /\ [Next]_vars => Verdict'
  BY VerdictNext
<1>2. QED
  BY <1>1, VerdictInit, PTL DEF Spec

\* A payment recorded complete is one the operator was paid for, whatever answers
\* and writes are lost and whoever commands what.
THEOREM CompleteMeansPaid ==
    ASSUME UiWaits
    PROVE  Spec => []CompletedIsPaid
<1>1. Verdict => CompletedIsPaid
  BY DEF Verdict, SomeCompleted, Paid, CompletedIsPaid
<1>2. QED
  BY <1>1, VerdictHolds, PTL

-----------------------------------------------------------------------------
(* The refinement of PayOnce, step by step.                                 *)

\* The attempts that have, or may still get, the money.
TakenSessions == {s \in Sessions : Taken(s)}

\* The verdict the row holds.
VerdictOfRow == IF row.status = "Completed" THEN "completed"
             ELSE IF row.status \in Queued THEN "open" ELSE "closed"

\* A step that moves no money decides at most, and never wrongly.
LEMMA DecideStep ==
    ASSUME UiWaits, Verdict, [Next]_vars, TakenSessions' = TakenSessions, Paid' = Paid
    PROVE  /\ VerdictOfRow' \in {"open", "closed", "completed"}
           /\ VerdictOfRow' = "completed" => Paid
<1>1. SomeCompleted' => Paid'
  BY VerdictNext DEF Verdict
<1>2. QED
  BY <1>1 DEF VerdictOfRow, SomeCompleted

\* CHECK moves no money.
LEMMA CheckStep ==
    ASSUME TInv, NEW a \in Actors, SendCheck(a)
    PROVE  TakenSessions' = TakenSessions /\ Paid' = Paid
<1>1. \A t \in Sessions : Taken(t)' = Taken(t) /\ (server'[t] = "paid" <=> server[t] = "paid")
  BY SendCheckKeeps DEF Taken, Charged
<1>2. QED
  BY <1>1 DEF TakenSessions, Paid

\* PAY is the step in which an attempt takes the money, when none has it.
LEMMA PayStep ==
    ASSUME IInv, NEW a \in Actors, SendPay(a)
    PROVE  \/ TakenSessions' = TakenSessions /\ Paid' = Paid
           \/ /\ TakenSessions = {}
              /\ \E t \in Sessions : TakenSessions' = {t}
              /\ UNCHANGED row
<1>0. TInv /\ NothingTaken /\ UNCHANGED row
  BY DEF IInv, TInv, Attempt, SendPay, ProcessUnchanged
<1>1. TakenSessions = {} /\ ~Paid
  BY <1>0 DEF TakenSessions, NothingTaken, Paid, Taken, Charged
<1>2. \A t \in Sessions : Taken(t)' => t = Own(a).session
  BY <1>0, SendPayKeeps DEF NothingTaken, Taken
<1>3. CASE \E t \in Sessions : Taken(t)'
  BY <1>0, <1>1, <1>2, <1>3 DEF TakenSessions
<1>4. CASE ~ \E t \in Sessions : Taken(t)'
  BY <1>1, <1>4 DEF TakenSessions, Paid, Taken, Charged
<1>5. QED
  BY <1>3, <1>4

\* The operator takes the money for good, or refuses it.
LEMMA SettleStep ==
    ASSUME IInv, ServerSettles
    PROVE  /\ UNCHANGED row
           /\ \/ TakenSessions' = TakenSessions /\ TakenSessions # {} /\ Paid'
              \/ TakenSessions' = {} /\ ~Paid /\ ~Paid'
<1>1. PICK s \in Sessions : \E r \in Settle(server[s]) : server' = [server EXCEPT ![s] = r]
  BY DEF ServerSettles
<1>2. server[s] = "pending" /\ server'[s] \in {"paid", "failed"}
  BY <1>1 DEF Settle, IInv, TypeOK
<1>3. \A t \in Sessions : t # s => server'[t] = server[t]
  BY <1>1 DEF IInv, TypeOK
<1>4. Taken(s) /\ \A t \in Sessions : Taken(t) => t = s
  BY <1>2 DEF IInv, Agreed, Taken, Charged
<1>5. TakenSessions = {s} /\ ~Paid
  BY <1>2, <1>4 DEF TakenSessions, Paid, Taken, Charged
<1>6. CASE server'[s] = "paid"
  <2>1. \A t \in Sessions : Taken(t)' = Taken(t)
    BY <1>3, <1>4, <1>6 DEF Taken, Charged
  <2>2. QED
    BY <1>5, <1>6, <2>1 DEF TakenSessions, Paid, ServerSettles
<1>7. CASE server'[s] = "failed"
  <2>1. \A t \in Sessions : ~Taken(t)'
    BY <1>3, <1>4, <1>7 DEF Taken, Charged
  <2>2. TakenSessions' = {} /\ ~Paid'
    BY <2>1 DEF TakenSessions, Paid, Taken, Charged
  <2>3. QED
    BY <1>5, <2>2 DEF ServerSettles
<1>8. QED
  BY <1>2, <1>6, <1>7

\* Every step is one of PayOnce, or one that it does not see.
LEMMA PromiseStep ==
    ASSUME UiWaits, Verdict, [Next]_vars
    PROVE  [Promise!Next]_<<TakenSessions, Paid, VerdictOfRow>>
<1>0. IInv /\ TInv
  BY DEF Verdict, IInv, TInv
<1>1. TakenSessions = {s \in Sessions : Taken(s)} /\ TakenSessions' = {s \in Sessions : Taken(s)}'
  BY DEF TakenSessions
<1>2. CASE TakenSessions' = TakenSessions /\ Paid' = Paid
  <2>1. PICK v \in {"open", "closed", "completed"} : v = VerdictOfRow' /\ (v = "completed" => Paid)
    BY <1>2, DecideStep
  <2>2. Promise!Decide(v)
    BY <1>2, <2>1 DEF Promise!Decide, TakenSessions, Paid, VerdictOfRow
  <2>3. QED
    BY <2>1, <2>2 DEF Promise!Next
<1>3. ASSUME TakenSessions = {}, NEW t \in Sessions, TakenSessions' = {t}, UNCHANGED row
      PROVE  Promise!Next
  <2>1. Promise!Take(t)
    BY <1>3 DEF Promise!Take, TakenSessions, VerdictOfRow
  <2>2. QED
    BY <2>1 DEF Promise!Next
<1>4. CASE ServerSettles
  <2>1. CASE TakenSessions' = TakenSessions /\ TakenSessions # {} /\ Paid'
    <3>1. Promise!Settle
      BY <1>0, <1>4, <2>1, SettleStep DEF Promise!Settle, TakenSessions, Paid, VerdictOfRow
    <3>2. QED
      BY <3>1 DEF Promise!Next
  <2>2. CASE TakenSessions' = {} /\ ~Paid /\ ~Paid'
    <3>1. Promise!Refuse
      BY <1>0, <1>4, <2>2, SettleStep DEF Promise!Refuse, TakenSessions, Paid, VerdictOfRow
    <3>2. QED
      BY <3>1 DEF Promise!Next
  <2>3. QED
    BY <1>0, <1>4, <2>1, <2>2, SettleStep
<1>5. ASSUME NEW a \in Actors, SendPay(a)
      PROVE  [Promise!Next]_<<TakenSessions, Paid, VerdictOfRow>>
  BY <1>0, <1>2, <1>3, <1>5, PayStep
<1>6. ASSUME NEW a \in Actors, SendCheck(a)
      PROVE  [Promise!Next]_<<TakenSessions, Paid, VerdictOfRow>>
  BY <1>0, <1>2, <1>6, CheckStep
<1>7. CASE UNCHANGED server
  BY <1>2, <1>7 DEF TakenSessions, Taken, Paid
<1>8. QED
  BY <1>4, <1>5, <1>6, <1>7, ServerSteps

\* Payment processing keeps what PayOnce promises: one attempt after the other, of
\* which at most one has the money, and no verdict "completed" before it is paid.
THEOREM ProcessingImplementsPayOnce ==
    ASSUME UiWaits
    PROVE  Spec => ImplementsPayOnce
<1>1. Init => Promise!Init
  <2> SUFFICES ASSUME Init PROVE Promise!Init
    OBVIOUS
  <2>1. \A s \in Sessions : ~Taken(s) /\ server[s] # "paid"
    BY DEF Init, Taken, Charged
  <2>2. row.status = "Deleted"
    BY DEF Init, Dummy
  <2>3. QED
    BY <2>1, <2>2 DEF Promise!Init, Queued
<1>2. Verdict /\ [Next]_vars =>
        [Promise!Next]_<<{s \in Sessions : Taken(s)}, \E s \in Sessions : server[s] = "paid",
                         IF row.status = "Completed" THEN "completed"
                         ELSE IF row.status \in Queued THEN "open" ELSE "closed">>
  BY PromiseStep DEF TakenSessions, Paid, VerdictOfRow
<1>3. QED
  BY <1>1, <1>2, VerdictHolds, PTL DEF Spec, ImplementsPayOnce, Promise!Spec

-----------------------------------------------------------------------------
(* The row at the moment money is taken: as long as nobody may remove the   *)
(* payment, it is queued.                                                   *)

\* Where a process is on its way to PAY.
ToPay == {"check", "sign", "write", "pay"}

\* A payment on its way to PAY is one that is to be processed, in memory and in
\* the row PAY waits for.
OnTheWay ==
    /\ pc["thread"] \notin {"remove", "removal"}
    /\ \A a \in Actors :
          /\ pc[a] \in ToPay => Own(a).status \in Queued
          /\ pc[a] = "pay" => row.status \in Queued

\* A process that is on its way to PAY is the only one.
LEMMA OnlyOneOnTheWay ==
    ASSUME IInv, NEW a \in Actors, pc[a] \in ToPay
    PROVE  /\ pc[a] \in Processing /\ pc[a] \in HoldsObject
           /\ \A b \in Actors : b # a => pc[b] \notin Processing
           /\ a = "thread" => pc["worker"] \notin {"queued", "queuedCheck", "fakeCheck"}
           /\ a = "worker" /\ active => mem["shared"].priority = "Online"
<1>1. pc[a] \in Processing /\ pc[a] \in HoldsObject
  BY DEF ToPay, Processing, HoldsObject
<1>2. \A b \in Actors : b # a => pc[b] \notin Processing
  BY <1>1, Exclusive DEF Actors
<1>3. a = "thread" => pc["worker"] \notin {"queued", "queuedCheck", "fakeCheck"}
  BY <1>1, Exclusive
<1>4. a = "worker" /\ active => mem["shared"].priority = "Online"
  BY <1>1 DEF IInv, Turns, ToPay, Processing
<1>5. QED
  BY <1>1, <1>2, <1>3, <1>4

\* Nothing happens to a process on its way to PAY.
Unmoved(a) ==
    /\ pc'[a] = pc[a]
    /\ Own(a)'.status \in Queued
    /\ row'.status = row.status \/ row'.status \in Queued

\* The scenario moves no payment that is on the way to PAY.
LEMMA UiOnTheWay ==
    ASSUME IInv, UiWaits, OnTheWay, Ui, NEW a \in Actors, pc'[a] \in ToPay
    PROVE  Unmoved(a)
<1>0. {"ui", "worker", "thread"} = Procs /\ Actors = {"worker", "thread"}
  BY DEF Procs, Actors
<1>1. /\ UNCHANGED <<row, use>>
      /\ MayLeave
      /\ UiDeactivate \/ UiAbandon \/ MayTouch
  BY DEF Ui, UiUpdate, UiProcessOnline, UiProcessOffline, UiDataCheck, UiCancel, UiStop,
         UiDeactivate, UiAbandon, ChangeAndSave, UiUnchanged, MayTouch
<1>2. UNCHANGED pc \/ \E p \in {"ui", "worker"}, l \in {"finish", "closing", "queued", "queuedCheck"} : Goto(p, l)
  BY DEF Ui, UiUpdate, UiProcessOnline, UiProcessOffline, UiDataCheck, UiCancel, UiStop,
         UiDeactivate, UiAbandon, ChangeAndSave, UiUnchanged
<1>3. pc'[a] = pc[a]
  BY <1>0, <1>2 DEF Goto, IInv, TypeOK, ToPay
<1>4. a = "thread" /\ active /\ pc["worker"] = "idle"
  BY <1>0, <1>1, <1>3 DEF MayLeave, ToPay
<1>5. ~MayTouch
  BY <1>3, <1>4 DEF MayTouch, IInv, Turns, ToPay, Processing
<1>6. pc[a] \in HoldsObject /\ use[a] \in Objects /\ Live(use[a]) /\ Own(a).status \in Queued
  BY <1>3, OnlyOneOnTheWay, LiveLike, OwnType DEF IInv, TInv, OnTheWay
<1>7. Own(a)' = Own(a)
  <2>1. CASE UiDeactivate
    BY <1>1, <2>1 DEF UiDeactivate, Own
  <2>2. CASE UiAbandon
    BY <1>1, <1>6, <2>2 DEF UiAbandon, DropActive, Own, IInv, TypeOK
  <2>3. QED
    BY <1>1, <1>5, <2>1, <2>2
<1>8. QED
  BY <1>1, <1>3, <1>6, <1>7 DEF Unmoved

\* A save of the object PAY is made with leaves the row queued.
LEMMA SaveOnTheWay ==
    ASSUME IInv, OnTheWay, NEW p \in Procs, MayWriteRow(p), NEW a \in Actors, pc[a] \in ToPay,
           IF p = "ui" THEN pc[p] # "idle" ELSE pc[p] \in HoldsObject
    PROVE  row'.status = row.status \/ row'.status \in Queued
<1>1. Object(p) \in Objects /\ Object(p) = use[a]
  BY SameObject, OnlyOneOnTheWay
<1>2. mem[Object(p)] \in Payment /\ mem[Object(p)].status \in Queued
  BY <1>1 DEF IInv, TypeOK, OnTheWay, Own
<1>3. Saved(mem[Object(p)]).status = mem[Object(p)].status
  BY <1>2 DEF Saved, Payment
<1>4. QED
  BY <1>2, <1>3 DEF MayWriteRow, WriteRow, FailWrite

\* A process on its way to PAY, or come there by a step of its own.
LEMMA SavesOnTheWay ==
    ASSUME IInv, OnTheWay, Saves, NEW a \in Actors, pc'[a] \in ToPay
    PROVE  \/ Unmoved(a)
           \/ (Own(a)'.status \in Queued /\ (pc'[a] = "pay" => row'.status \in Queued))
<1>0. Procs = {"ui", "worker", "thread"} /\ Actors = {"worker", "thread"}
  BY DEF Procs, Actors
<1>1. ASSUME NEW p \in Procs, NEW l, Goto(p, l), p # a
      PROVE  pc'[a] = pc[a] /\ pc[a] \in ToPay /\ Own(a).status \in Queued /\ pc[a] \in HoldsObject
  <2>1. pc'[a] = pc[a]
    BY <1>0, <1>1 DEF Goto, IInv, TypeOK
  <2>2. QED
    BY <2>1, OnlyOneOnTheWay DEF OnTheWay
<1>2. ASSUME NEW p \in Procs, Sign(p) PROVE (Own(a)'.status \in Queued /\ pc'[a] # "pay") \/ Unmoved(a)
  <2>1. UNCHANGED <<row, mem, use>> /\ Goto(p, Signing[pc[p]])
    BY <1>2 DEF Sign
  <2>2. CASE p # a
    BY <1>1, <2>1, <2>2 DEF Unmoved, Own
  <2>3. CASE p = a
    <3>1. pc'[a] = Signing[pc[a]] /\ pc[a] \in DOMAIN Signing
      BY <1>2, <2>1, <2>3 DEF Goto, IInv, TypeOK, Sign
    <3>2. pc[a] = "sign" /\ pc'[a] = "write"
      BY <3>1 DEF Signing, ToPay
    <3>3. QED
      BY <2>1, <3>2 DEF OnTheWay, ToPay, Own
  <2>4. QED
    BY <2>2, <2>3
<1>3. ASSUME NEW b \in Actors, WriteBeforePay(b) 
      PROVE  (Own(a)'.status \in Queued /\ row'.status \in Queued) \/ Unmoved(a)
  <2>1. /\ pc[b] = "write" /\ pc[b] \in HoldsObject /\ b \in Procs /\ b # "ui" /\ UNCHANGED <<mem, use>>
        /\ MayWriteRow(b) /\ \E l \in {"pay", "finish"} : Goto(b, l)
    BY <1>0, <1>3 DEF WriteBeforePay, HoldsObject, Processing, MayWriteRow, Written
  <2>2. CASE b # a
    BY <1>1, <2>1, <2>2, SaveOnTheWay DEF Unmoved, Own
  <2>3. CASE b = a
    <3>1. pc'[a] = "pay" /\ WriteRow(a)
      BY <1>3, <2>1, <2>3 DEF WriteBeforePay, Written, Goto, IInv, TypeOK, ToPay
    <3>2. Own(a) \in Payment /\ Own(a).status \in Queued /\ Object(a) = use[a]
      BY <2>1, <2>3, OwnType DEF OnTheWay, ToPay, IInv, TInv, Object
    <3>3. row'.status = Own(a).status
      BY <3>1, <3>2 DEF WriteRow, Saved, Own, Payment
    <3>4. QED
      BY <2>1, <3>2, <3>3 DEF Own
  <2>4. QED
    BY <2>2, <2>3
<1>4. ASSUME NEW b \in Actors, WriteFound(b) PROVE Unmoved(a)
  <2>1. /\ pc[b] \in HoldsObject /\ b \in Procs /\ b # "ui" /\ UNCHANGED <<mem, use>>
        /\ MayWriteRow(b) /\ Goto(b, "finish")
    BY <1>0, <1>4 DEF WriteFound, HoldsObject, Written
  <2>2. b # a
    BY <2>1 DEF Goto, IInv, TypeOK, ToPay
  <2>3. QED
    BY <1>1, <2>1, <2>2, SaveOnTheWay DEF Unmoved, Own
<1>5. ASSUME NEW b \in Actors, Finish(b) PROVE Unmoved(a)
  <2>1. /\ pc[b] \in HoldsObject /\ b \in Procs /\ b # "ui" /\ Release(b) /\ UNCHANGED active
        /\ MayWriteRow(b) /\ Goto(b, "idle")
    BY <1>0, <1>5 DEF Finish, HoldsObject, Written
  <2>2. b # a
    BY <2>1 DEF Goto, IInv, TypeOK, ToPay
  <2>3. Own(a)' = Own(a)
    BY <1>1, <2>1, <2>2, ReleaseKeeps
  <2>4. QED
    BY <1>1, <2>1, <2>2, <2>3, SaveOnTheWay DEF Unmoved
<1>6. CASE UiFinish
  <2>1. /\ "ui" \in Procs /\ "ui" # a /\ pc["ui"] # "idle" /\ UNCHANGED <<mem, use>>
        /\ MayWriteRow("ui") /\ Goto("ui", "idle")
    BY <1>0, <1>6 DEF UiFinish, Written
  <2>2. QED
    BY <1>1, <2>1, SaveOnTheWay DEF Unmoved, Own
<1>7. CASE UiDrop
  <2>1. /\ "ui" \in Procs /\ "ui" # a /\ pc["ui"] # "idle" /\ UNCHANGED use
        /\ MayWriteRow("ui") /\ Goto("ui", "idle")
    BY <1>0, <1>7 DEF UiDrop, Written
  <2>2. Own(a)' = Own(a)
    BY <1>1, <1>7, <2>1, OwnType DEF UiDrop, DropActive, Own, IInv, TInv, TypeOK
  <2>3. QED
    BY <1>1, <2>1, <2>2, SaveOnTheWay DEF Unmoved
<1>8. QED
  BY <1>2, <1>3, <1>4, <1>5, <1>6, <1>7 DEF Saves

\* An answer read by another process is one of the recheck, which completes nothing
\* while an attempt is on its way.
LEMMA ProcessOnTheWay ==
    ASSUME Verdict, OnTheWay, NEW b \in Actors, Process(b), NEW a \in Actors, pc'[a] \in ToPay
    PROVE  Unmoved(a) \/ (Own(a)'.status \in Queued /\ pc'[a] # "pay")
<1>0. IInv /\ TInv /\ Truthful /\ Ordered
  BY DEF Verdict, IInv, TInv
<1>1. \E l : Goto(b, l) /\ UNCHANGED row /\ UNCHANGED use
  BY DEF Process, SendCheck, SendStatus, Skip, CheckAccepted, CheckRefused, CheckExists, FoundComplete,
         FoundOpen, SendPay, PayAnswered, StatusNotPaid, StatusPaid, StatusOpen, StatusUnknown, Handle,
         ProcessUnchanged
<1>2. CASE b # a
  <2>1. pc'[a] = pc[a]
    BY <1>0, <1>1, <1>2 DEF Goto, IInv, TypeOK, Procs
  <2>2. pc[b] \notin Processing
    BY <1>0, <1>2, <2>1, OnlyOneOnTheWay
  <2>3. FoundComplete(b) \/ FoundOpen(b)
    BY <2>2 DEF Process, SendCheck, SendStatus, Skip, CheckAccepted, CheckRefused, CheckExists,
                SendPay, PayAnswered, StatusNotPaid, StatusPaid, StatusOpen, StatusUnknown, Processing
  <2>4. ~Paid
    BY <1>0, <2>1 DEF IInv, Attempt, ToPay, NothingTaken, Taken, Charged, Paid
  <2>5. FoundOpen(b)
    BY <1>0, <2>3, <2>4 DEF FoundComplete, Truthful, Ordered
  <2>6. mem' = [mem EXCEPT ![use[b]] = Own(b)]
    BY <2>5 DEF FoundOpen, Handle, SetOwn
  <2>7. UNCHANGED mem
    BY <1>0, <2>6 DEF Own, IInv, TypeOK
  <2>8. QED
    BY <1>1, <2>1, <2>7 DEF Unmoved, Own, OnTheWay
<1>3. CASE b = a
  <2>1. CASE SendCheck(a)
    <3>1. PICK s \in Sessions : SetOwn(a, [Own(a) EXCEPT !.session = s])
      BY <2>1 DEF SendCheck
    <3>2. /\ pc[a] \in HoldsObject /\ Own(a).status \in Queued
          /\ Goto(a, "check")
      BY <2>1 DEF SendCheck, HoldsObject, Processing
    <3>3. use[a] \in Objects /\ Own(a) \in Payment
      BY <1>0, <3>2, OwnType
    <3>4. Own(a)' = [Own(a) EXCEPT !.session = s]
      BY <1>0, <1>1, <3>1, <3>3 DEF SetOwn, Own, IInv, TypeOK
    <3>5. pc'[a] = "check"
      BY <1>0, <3>2 DEF Goto, IInv, TypeOK, Procs
    <3>6. QED
      BY <3>2, <3>3, <3>4, <3>5 DEF Payment
  <2>2. CASE CheckAccepted(a)
    <3>1. /\ SetOwn(a, SetStep(Own(a), "Pay")) /\ Goto(a, "sign") /\ pc[a] = "check"
          /\ pc[a] \in HoldsObject
      BY <2>2 DEF CheckAccepted, Handle, HoldsObject, Processing
    <3>2. use[a] \in Objects /\ Own(a) \in Payment /\ Own(a).status \in Queued
      BY <1>0, <3>1, OwnType DEF OnTheWay, ToPay
    <3>3. Own(a)' = SetStep(Own(a), "Pay")
      BY <1>0, <1>1, <3>1, <3>2 DEF SetOwn, Own, IInv, TypeOK
    <3>4. pc'[a] = "sign"
      BY <1>0, <3>1 DEF Goto, IInv, TypeOK, Procs
    <3>5. QED
      BY <3>2, <3>3, <3>4 DEF Payment, SetStep
  <2>3. SendCheck(a) \/ CheckAccepted(a)
    <3>1. \/ SendCheck(a) \/ CheckAccepted(a)
          \/ \E l \in {"status", "finish", "recheck", "signDone", "payAnswer", "process"} : Goto(a, l)
      BY <1>3 DEF Process, SendStatus, Skip, CheckRefused, CheckExists, FoundComplete, FoundOpen,
         SendPay, PayAnswered, StatusNotPaid, StatusPaid, StatusOpen, StatusUnknown, Handle
    <3>2. QED
      BY <1>0, <3>1 DEF Goto, IInv, TypeOK, Procs, ToPay
  <2>4. QED
    BY <2>1, <2>2, <2>3
<1>4. QED
  BY <1>2, <1>3

\* The worker thread takes no payment on the way to PAY.
LEMMA WorkerOnTheWay ==
    ASSUME IInv, Worker, NEW a \in Actors, pc'[a] \in ToPay
    PROVE  FALSE
<1>1. /\ pc["worker"] \in {"queued", "queuedCheck", "fakeCheck"}
      /\ \E l \in {"process", "fakeCheck", "finish"} : Goto("worker", l)
  BY DEF Worker, WorkerPays, WorkerChecks, WorkerChecked
<1>2. a = "thread" /\ pc'[a] = pc[a]
  BY <1>1 DEF Goto, IInv, TypeOK, Procs, Actors, ToPay
<1>3. QED
  BY <1>1, <1>2, OnlyOneOnTheWay

\* The payment thread leaves the payment of a worker alone, but for the command to
\* process it, which leaves it queued.
LEMMA ThreadOnTheWay ==
    ASSUME IInv, OnTheWay, "remove" \notin Commands, Thread, NEW a \in Actors, pc'[a] \in ToPay
    PROVE  Unmoved(a)
<1> DEFINE L == {"pick", "claim", "finish", "removal", "idle", "process"} \union Commands
<1>1. \A l \in L : l \notin ToPay
  BY OptionAssumption DEF ToPay
<1>2. \E l \in L : Goto("thread", l)
  BY DEF Thread, Pick, Command, LoadQueued, LoadForced, LoadUpdated, ThreadLoads, RemoveUnpaid,
         RemoveAsks, RemoveAgreed, RemoveRefused, Leave, Handle, ClaimDenied, ClaimOffline, ClaimOnline
<1> HIDE DEF L
<1>3. /\ a = "worker" /\ pc'[a] = pc[a] /\ "thread" \in Actors
  BY <1>1, <1>2 DEF Goto, IInv, TypeOK, Procs, Actors
<1>4. /\ active /\ use["worker"] = "shared" /\ mem["shared"].priority = "Online"
      /\ mem["shared"].status \in Queued /\ mem["shared"] \in Payment
  <2>1. pc[a] \in HoldsObject /\ pc["worker"] # "idle" /\ (active => mem["shared"].priority = "Online")
    BY <1>3, OnlyOneOnTheWay DEF ToPay
  <2>2. active /\ use["worker"] = "shared"
    BY <1>3, <2>1, Exclusive DEF IInv, Holding
  <2>3. QED
    BY <1>3, <2>1, <2>2 DEF OnTheWay, Own, IInv, TypeOK, Objects
<1>5. ASSUME NEW p, GetPayment("thread", p), p.status \in Queued
      PROVE  Unmoved(a)
  <2>1. /\ use' = [use EXCEPT !["thread"] = "shared"] /\ mem' = [mem EXCEPT !["shared"] = p]
        /\ UNCHANGED row
    BY <1>4, <1>5 DEF GetPayment, LoadedObject
  <2>2. use'["worker"] = "shared" /\ mem'["shared"] = p
    BY <1>4, <2>1 DEF IInv, TypeOK, Objects
  <2>3. QED
    BY <1>3, <1>5, <2>1, <2>2 DEF Unmoved, Own
<1>6. LoadedPayment = mem["shared"]
  BY <1>4 DEF LoadedPayment
<1>7. CASE Pick \/ \E c \in Commands : Command(c)
  <2>1. UNCHANGED <<row, mem, use>>
    BY <1>7 DEF Pick, Command
  <2>2. QED
    BY <1>3, <1>4, <2>1 DEF Unmoved, Own
<1>8. CASE LoadQueued \/ LoadUpdated
  BY <1>4, <1>5, <1>6, <1>8 DEF LoadQueued, LoadUpdated, ThreadLoads
<1>9. CASE LoadForced
  <2> DEFINE p == [LoadedPayment EXCEPT !.status = "ProcessError", !.tries = 1]
  <2>1. p.status \in Queued
    BY <1>4, <1>6 DEF Payment, Queued
  <2>2. GetPayment("thread", p)
    BY <1>9 DEF LoadForced, ThreadLoads
  <2> HIDE DEF p
  <2>3. QED
    BY <1>5, <2>1, <2>2
<1>10. ~RemoveUnpaid /\ ~RemoveAsks /\ ~RemoveAgreed /\ ~RemoveRefused
  BY DEF OnTheWay, RemoveUnpaid, RemoveAsks, RemoveAgreed, RemoveRefused, ThreadLoads
<1>11. CASE ClaimDenied
  <2>1. pc["thread"] \in HoldsObject /\ Release("thread") /\ UNCHANGED <<row, active>>
    BY <1>11 DEF ClaimDenied, Leave, HoldsObject
  <2>2. pc[a] \in HoldsObject /\ Own(a).status \in Queued
    BY <1>3, OnlyOneOnTheWay DEF OnTheWay
  <2>3. Own(a)' = Own(a)
    BY <1>3, <2>1, <2>2, ReleaseKeeps DEF Actors
  <2>4. QED
    BY <1>3, <2>1, <2>2, <2>3 DEF Unmoved
<1>12. ~ClaimOffline /\ ~ClaimOnline
  <2>1. pc["thread"] = "claim" => use["thread"] = "shared"
    BY <1>3, <1>4 DEF IInv, Holding, HoldsObject
  <2>2. pc["thread"] = "claim" => OnlineActive
    BY <1>4, <2>1 DEF OnlineActive, Own
  <2>3. QED
    BY <2>2 DEF ClaimOffline, ClaimOnline
<1>13. QED
  BY <1>7, <1>8, <1>9, <1>10, <1>11, <1>12 DEF Thread

\* Without a remove command the payment thread never removes.
LEMMA NeverRemoves ==
    ASSUME TInv, "remove" \notin Commands, pc["thread"] \notin {"remove", "removal"}, [Next]_vars
    PROVE  pc'["thread"] \notin {"remove", "removal"}
<1>0. {"ui", "worker", "thread"} = Procs /\ Actors = {"worker", "thread"}
  BY DEF Procs, Actors
<1>1. ASSUME NEW p \in Procs, NEW l, Goto(p, l), l \notin {"remove", "removal"}
      PROVE  pc'["thread"] \notin {"remove", "removal"}
  BY <1>0, <1>1 DEF Goto, TInv, TypeOK
<1>2. CASE Ui
  <2>1. \/ UNCHANGED pc
        \/ \E p \in {"ui", "worker"}, l \in {"finish", "closing", "queued", "queuedCheck"} : Goto(p, l)
    BY <1>2 DEF Ui, UiUpdate, UiProcessOnline, UiProcessOffline, UiDataCheck, UiCancel, UiStop,
           UiDeactivate, UiAbandon, ChangeAndSave, UiUnchanged
  <2>2. QED
    BY <1>0, <1>1, <2>1
<1>3. CASE Worker
  <2>1. \E l \in {"process", "fakeCheck", "finish"} : Goto("worker", l)
    BY <1>3 DEF Worker, WorkerPays, WorkerChecks, WorkerChecked
  <2>2. QED
    BY <1>0, <1>1, <2>1
<1>4. CASE Thread
  <2> DEFINE L == {"pick", "claim", "finish", "idle", "process"} \union Commands
  <2>1. \A l \in L : l \notin {"remove", "removal"}
    BY OptionAssumption
  <2>2. \E l \in L : Goto("thread", l)
    BY <1>4 DEF Thread, Pick, Command, LoadQueued, LoadForced, LoadUpdated, ThreadLoads, RemoveUnpaid,
                RemoveAsks, RemoveAgreed, RemoveRefused, Leave, Handle, ClaimDenied, ClaimOffline,
                ClaimOnline
  <2> HIDE DEF L
  <2>3. QED
    BY <1>0, <1>1, <2>1, <2>2
<1>5. CASE Saves
  <2>1. \E p \in Procs, l \in {"write", "writeDone", "ending", "dropping", "pay", "finish", "idle"} : Goto(p, l)
    BY <1>0, <1>5 DEF Saves, Sign, Signing, WriteBeforePay, WriteFound, Finish, UiFinish, UiDrop, Written
  <2>2. QED
    BY <1>1, <2>1
<1>6. ASSUME NEW a \in Actors, Process(a) PROVE pc'["thread"] \notin {"remove", "removal"}
  <2>1. \E l \in {"status", "finish", "recheck", "signDone", "payAnswer", "process", "check", "sign"} : Goto(a, l)
    BY <1>6 DEF Process, SendCheck, SendStatus, Skip, CheckAccepted, CheckRefused, CheckExists,
                FoundComplete, FoundOpen, SendPay, PayAnswered, StatusNotPaid, StatusPaid, StatusOpen,
                StatusUnknown, Handle
  <2>2. QED
    BY <1>0, <1>1, <2>1
<1>7. CASE Crash \/ ServerSettles \/ UNCHANGED vars
  BY <1>0, <1>7 DEF Crash, ServerSettles, vars
<1>8. QED
  BY <1>2, <1>3, <1>4, <1>5, <1>6, <1>7 DEF Next

\* Every step keeps what holds of a payment on the way to PAY.
LEMMA OnTheWayNext ==
    ASSUME UiWaits, "remove" \notin Commands, Verdict, OnTheWay, [Next]_vars
    PROVE  OnTheWay'
<1>0. IInv /\ TInv
  BY DEF Verdict, IInv, TInv
<1>1. ASSUME NEW a \in Actors, pc'[a] \in ToPay
      PROVE  Own(a)'.status \in Queued /\ (pc'[a] = "pay" => row'.status \in Queued)
  <2>1. CASE Unmoved(a)
    BY <1>1, <2>1 DEF Unmoved, OnTheWay
  <2>2. CASE Crash
    BY <1>1, <2>2 DEF Crash, Procs, ToPay
  <2>3. CASE ServerSettles \/ UNCHANGED vars
    BY <1>1, <2>3 DEF ServerSettles, vars, OnTheWay, Own
  <2>4. QED
    BY <1>0, <1>1, <2>1, <2>2, <2>3, UiOnTheWay, SavesOnTheWay, ProcessOnTheWay, WorkerOnTheWay,
       ThreadOnTheWay DEF Next
<1>2. pc'["thread"] \notin {"remove", "removal"}
  BY <1>0, NeverRemoves DEF OnTheWay
<1>3. "pay" \in ToPay
  BY DEF ToPay
<1>4. QED
  BY <1>1, <1>2, <1>3 DEF OnTheWay

\* At the moment money is taken the row says all a restarted kiosk needs, unless
\* others may remove the payment meanwhile: still queued, at the second step, with
\* the session that takes the money.
THEOREM PaidCanBeRecovered ==
    ASSUME UiWaits, "remove" \notin Commands
    PROVE  Spec => PayIsRecoverable
<1>1. Init => OnTheWay
  BY DEF Init, OnTheWay, ToPay, Procs, Actors
<1>2. Verdict /\ OnTheWay /\ [Next]_vars => OnTheWay'
  BY OnTheWayNext
<1>3. Verdict /\ OnTheWay /\ [Next]_vars =>
        [\A s \in Sessions : ~Taken(s) /\ Taken(s)' =>
            row.status \in Queued /\ row.step = "Pay" /\ row.session = s]_vars
  <2> SUFFICES ASSUME Verdict, OnTheWay, [Next]_vars, NEW s \in Sessions, ~Taken(s), Taken(s)'
               PROVE  row.status \in Queued /\ row.step = "Pay" /\ row.session = s
    OBVIOUS
  <2>1. IInv /\ TInv
    BY DEF Verdict, IInv, TInv
  <2>2. PICK a \in Actors : SendPay(a)
    BY <2>1, ServerSteps, SendCheckKeeps, SettleKeeps DEF Taken, Charged
  <2>3. s = Own(a).session /\ pc[a] = "pay"
    BY <2>1, <2>2, SendPayKeeps DEF Taken, SendPay
  <2>4. QED
    BY <2>1, <2>3 DEF IInv, Attempt, OnTheWay
<1>4. QED
  BY <1>1, <1>2, <1>3, VerdictHolds, PTL DEF Spec, PayIsRecoverable

=============================================================================

------------------------ MODULE CompanionAgentProofs ------------------------
(***************************************************************************)
(* Proofs about CompanionAgent, for every set of jobs, keys, bodies and    *)
(* faults, and any number of attempts: the Agent uses its table as         *)
(* JobStore allows, so what is proved of the table holds of the Agent; and *)
(* what the queue worker, the worker processes and the fence keep of each  *)
(* other.                                                                  *)
(***************************************************************************)
EXTENDS CompanionAgent, JobStoreProofs

WorkerPc == {"none", "starting", "cleaning", "working", "written", "fenced",
             "sealing", "sealed", "gone"}

\* The queue worker has a claimed attempt in its hands ...
Holding == {"claimed", "dispatching", "supervising", "judging", "finalizing",
            "completing", "reconciling"}
\* ... and active_worker names its job.
Registered == Holding \ {"claimed"}

LoopTyped ==
  /\ loop \in [pc : LoopPc, id : Id \cup {Nil}, out : Terminal \cup {Nil}]
  /\ loop.pc \in Holding => loop.id \in Id
BooksTyped ==
  /\ stopping \in BOOLEAN
  /\ active \in [job : Job \cup {Nil}, cancel : BOOLEAN]
  /\ gate \in {"free", "loop", "retry"}
  /\ retrying \in Job \cup {Nil}
  /\ todo \in [Reconciler -> {Nil} \cup SUBSET Id]
  /\ cancelling \in [Job -> [pc : {"none", "claiming", "acting"}, attempt : 0 .. MaxAttempt]]
ProcessTyped ==
  /\ worker \in [Id -> [pc : WorkerPc, kind : Kind \cup {Nil}, left : Nat, doomed : SUBSET Id]]
  /\ pipe \in Seq(Terminal \cup {"progress"})
  /\ asked \in BOOLEAN
  /\ fence \in [Id -> {"none", "cancel", "commit"}]
  /\ run \in [Id -> {"none", "partial", "committed"}]
AgentTyped == LoopTyped /\ BooksTyped /\ ProcessTyped

\* The row of the active worker is there: Delete spares it.
ActiveRow == loop.pc \in Registered => active.job = loop.id[1] /\ loop.id[1] \in DOMAIN jobs

\* While its row is running, what the supervised worker has counted, what waits
\* in the pipe and what is left are no more than the units of the job; one
\* message more is the terminal of a worker that is gone.
Sum == jobs[loop.id[1]].completed + worker[loop.id].left + Len(pipe)
Counted ==
  loop.pc = "supervising" /\ Running(loop.id[1], loop.id[2]) =>
    \/ Sum =< jobs[loop.id[1]].body.units
    \/ /\ Sum =< jobs[loop.id[1]].body.units + 1
       /\ worker[loop.id].pc = "gone"
       /\ Len(pipe) > 0
       /\ pipe[Len(pipe)] \in Terminal

AgentInv == StoreInv /\ AgentTyped /\ ActiveRow /\ Counted
-----------------------------------------------------------------------------
\* An Agent that was never started satisfies the invariant.
LEMMA InitAgentInv == AgentInit => AgentInv
<1> SUFFICES ASSUME AgentInit PROVE AgentInv
  OBVIOUS
<1>1. StoreInv
  BY InitStoreInv DEF AgentInit
<1>2. AgentTyped
  <2>1. loop \in [pc : LoopPc, id : Id \cup {Nil}, out : Terminal \cup {Nil}] /\ loop.pc \notin Holding
    BY DEF AgentInit, Resting, LoopPc, Holding
  <2>2. cancelling \in [Job -> [pc : {"none", "claiming", "acting"}, attempt : 0 .. MaxAttempt]]
    BY BoundAssumption DEF AgentInit, NoCancel
  <2>3. worker \in [Id -> [pc : WorkerPc, kind : Kind \cup {Nil}, left : Nat, doomed : SUBSET Id]]
    BY DEF AgentInit, NoWorker, WorkerPc
  <2>4. todo \in [Reconciler -> {Nil} \cup SUBSET Id]
    BY DEF AgentInit
  <2>5. pipe \in Seq(Terminal \cup {"progress"})
    BY DEF AgentInit
  <2>9. stopping \in BOOLEAN /\ asked \in BOOLEAN
    BY DEF AgentInit
  <2>6. active \in [job : Job \cup {Nil}, cancel : BOOLEAN]
    BY DEF AgentInit, NoActive
  <2>7. fence \in [Id -> {"none", "cancel", "commit"}] /\ run \in [Id -> {"none", "partial", "committed"}]
    BY DEF AgentInit
  <2>8. gate \in {"free", "loop", "retry"} /\ retrying \in Job \cup {Nil}
    BY DEF AgentInit
  <2> QED BY <2>1, <2>2, <2>3, <2>4, <2>5, <2>6, <2>7, <2>8, <2>9 DEF AgentTyped, LoopTyped, BooksTyped, ProcessTyped
<1>3. ActiveRow /\ Counted
  BY DEF AgentInit, ActiveRow, Counted, Resting, Registered, Holding
<1> QED BY <1>1, <1>2, <1>3 DEF AgentInv

\* A progress message that waits is of a unit that is not counted yet.
LEMMA ProgressFits ==
  ASSUME TypeOK, AgentTyped, Counted, loop.pc = "supervising", Running(Me, MyAttempt),
         pipe # << >>, Head(pipe) = "progress"
  PROVE  jobs[Me].completed + 1 \in 1 .. jobs[Me].body.units
<1>1. Me \in DOMAIN jobs /\ jobs[Me].completed \in Nat /\ jobs[Me].body.units \in Int
  BY UnitsInteger DEF Running, TypeOK, Row
<1>2. worker[loop.id].left \in Nat
  BY DEF AgentTyped, LoopTyped, ProcessTyped, Holding
<1>3. Len(pipe) \in Nat /\ Len(pipe) > 0 /\ pipe[1] = "progress"
  BY DEF AgentTyped, ProcessTyped
<1>4. CASE Sum =< jobs[Me].body.units
  BY <1>1, <1>2, <1>3, <1>4 DEF Sum, Me
<1>5. CASE Sum =< jobs[Me].body.units + 1 /\ pipe[Len(pipe)] \in Terminal
  <2>1. Len(pipe) > 1
    BY <1>3, <1>5 DEF Terminal
  <2>2. jobs[Me].completed + worker[loop.id].left + Len(pipe) =< jobs[Me].body.units + 1
    BY <1>5 DEF Sum, Me
  <2> QED BY <1>1, <1>2, <1>3, <2>1, <2>2
<1> QED BY <1>4, <1>5 DEF Counted, Me, MyAttempt

\* Where the queue worker holds an attempt, it is one of a job.
LEMMA MineIsAnAttempt ==
  ASSUME AgentTyped, loop.pc \in Holding
  PROVE  Me \in Job /\ MyAttempt \in Attempt /\ loop.id = <<Me, MyAttempt>>
BY DEF AgentTyped, LoopTyped, Me, MyAttempt, Id

\* Whatever the Agent does to its table is an operation of the table.
LEMMA UsesStore == TypeOK /\ AgentTyped /\ Counted /\ [AgentNext]_vars => [Next]_storeVars
<1> SUFFICES ASSUME TypeOK, AgentTyped, Counted, AgentNext PROVE [Next]_storeVars
  BY DEF vars, storeVars
<1>r. ASSUME NEW j \in Job, NEW a \in Attempt, Report(j, a) PROVE Next
  BY <1>r DEF Next
<1>f. ASSUME loop.pc \in Holding, NEW r \in BOOLEAN, FailAttempt(r) PROVE [Next]_storeVars
  <2>1. Me \in Job /\ MyAttempt \in Attempt
    BY <1>f, MineIsAnAttempt
  <2>2. CASE Fail(Me, MyAttempt, r)
    BY <2>1, <2>2, <1>r DEF Report
  <2> QED BY <1>f, <2>2 DEF FailAttempt
<1>1. CASE Handlers
  <2>1. ASSUME NEW k \in Key, NEW b \in Body, NEW j \in Job, NEW t \in 0 .. MaxClock,
               SubmitJob(k, b, j, t)
        PROVE  Next
    BY <2>1 DEF SubmitJob, Next
  <2>2. ASSUME NEW j \in Job, CancelQueued(j) PROVE Next
    BY <2>2 DEF CancelQueued, CancelAndSignal, Next
  <2>3. ASSUME NEW j \in Job, CancelRunning(j) PROVE UNCHANGED storeVars
    BY <2>3 DEF CancelRunning, storeVars
  <2>4. ASSUME NEW j \in Job, Delete(j) PROVE Next
    BY <2>4 DEF Delete, Next
  <2>5. ASSUME NEW j \in Job, RetryBegin(j) PROVE UNCHANGED storeVars
    BY <2>5 DEF RetryBegin, storeVars
  <2>6. ASSUME NEW j \in Job, NEW t \in 0 .. MaxClock, RetryFixture(j, t) PROVE Next
    BY <2>6 DEF RetryFixture, Next
  <2>7. ASSUME NEW p \in BOOLEAN, Pause(p) PROVE Next
    BY <2>7 DEF Pause, Next
  <2> QED BY <1>1, <2>1, <2>2, <2>3, <2>4, <2>5, <2>6, <2>7 DEF Handlers
<1>2. CASE Threads
  <2>1. ASSUME NEW who \in Reconciler, Scan(who) PROVE UNCHANGED storeVars
    BY <2>1 DEF Scan, storeVars
  <2>2. ASSUME NEW who \in Reconciler, NEW j \in Job, NEW a \in Attempt, Settle(who, j, a)
        PROVE  [Next]_storeVars
    BY <2>2, <1>r DEF Settle, Report
  <2>3. ASSUME NEW j \in Job, CancelFence(j) PROVE UNCHANGED storeVars
    BY <2>3 DEF CancelFence, storeVars
  <2>4. ASSUME NEW j \in Job, CancelAct(j) PROVE [Next]_storeVars
    BY <2>4 DEF CancelAct, CancelAndSignal, Next, storeVars
  <2>5. ASSUME NEW t \in 0 .. MaxClock, RetryAct(t) PROVE [Next]_storeVars
    <3>1. CASE Retry(retrying, t)
      <4>1. retrying \in Job
        BY <3>1 DEF Retry, Retriable, TypeOK
      <4> QED BY <3>1, <4>1 DEF Next
    <3>2. CASE UNCHANGED storeVars
      BY <3>2
    <3> QED BY <2>5, <3>1, <3>2 DEF RetryAct
  <2> QED BY <1>2, <2>1, <2>2, <2>3, <2>4, <2>5 DEF Threads, Pass, CancelThread, RetryReturns
<1>3. CASE Loop
  <2>1. ASSUME NEW j \in Job, ClaimJob(j) PROVE Next
    BY <2>1 DEF ClaimJob, Next
  <2>2. CASE Register \/ Finalize \/ Reconciled \/ LoopExits
    BY <2>2 DEF Register, Finalize, Reconciled, LoopExits, storeVars
  <2>3. CASE Judge
    <3>1. Me \in Job /\ loop.pc \in Holding
      BY <2>3, MineIsAnAttempt DEF Judge, Holding
    <3>2. CASE Cancel(Me)
      BY <3>1, <3>2 DEF Next
    <3>3. CASE FailAttempt(TRUE) \/ FailAttempt(FALSE)
      BY <3>1, <3>3, <1>f
    <3>4. CASE UNCHANGED storeVars
      BY <3>4
    <3> QED BY <2>3, <3>2, <3>3, <3>4 DEF Judge, Keep
  <2>4. CASE Finish
    <3>1. Me \in Job /\ MyAttempt \in Attempt /\ loop.pc \in Holding
      BY <2>4, MineIsAnAttempt DEF Finish, Holding
    <3>2. CASE Complete(Me, MyAttempt)
      BY <3>1, <3>2, <1>r DEF Report
    <3>3. CASE FailAttempt(TRUE)
      BY <3>1, <3>3, <1>f
    <3> QED BY <2>4, <3>2, <3>3 DEF Finish
  <2>5. CASE RecoverRows
    BY <2>5 DEF RecoverRows, Next
  <2> QED BY <1>3, <2>1, <2>2, <2>3, <2>4, <2>5 DEF Loop
<1>4. CASE Supervisor
  <2>1. CASE Launch \/ SupervisorAsks \/ SupervisorForces \/ SupervisorMourns
    BY <2>1 DEF Launch, SupervisorAsks, SupervisorForces, SupervisorMourns, storeVars
  <2>2. CASE SupervisorReads
    <3>1. Me \in Job /\ MyAttempt \in Attempt
      BY <2>2, MineIsAnAttempt DEF SupervisorReads, Holding
    <3>2. CASE Head(pipe) = "progress" /\ CommitProgress /\ Running(Me, MyAttempt)
      <4>1. jobs[Me].completed + 1 \in 1 .. jobs[Me].body.units
        BY <2>2, <3>2, ProgressFits DEF SupervisorReads
      <4>2. Me \in DOMAIN jobs /\ jobs[Me].body \in Body
        BY <3>2 DEF Running, TypeOK, Row
      <4>3. CASE IsCraig(Me) /\ Progress(Me, MyAttempt, jobs[Me].completed + 1, jobs[Me].body.units)
        BY <3>1, <4>1, <4>2, <4>3, <1>r DEF Report, IsCraig
      <4>4. CASE Step(Me, MyAttempt)
        BY <3>1, <4>4, <1>r DEF Report
      <4> QED BY <3>2, <4>3, <4>4 DEF CommitProgress
    <3>3. CASE UNCHANGED storeVars
      BY <3>3
    <3> QED BY <2>2, <3>2, <3>3 DEF SupervisorReads, CommitProgress
  <2> QED BY <1>4, <2>1, <2>2 DEF Supervisor
<1>5. CASE Start
  BY <1>5 DEF Start, storeVars
<1>6. CASE Mishap
  <2>1. CASE SupervisorTimesOut \/ StoreBreaks \/ TroubleAgain \/ Stop \/ Crash
    BY <2>1 DEF SupervisorTimesOut, StoreBreaks, TroubleAgain, Stop, Crash, storeVars
  <2>2. ASSUME NEW w \in Id, WorkerDies(w) \/ \E m \in Terminal : WorkerErrs(w, m)
        PROVE  UNCHANGED storeVars
    BY <2>2 DEF WorkerDies, WorkerErrs, processVars, storeVars
  <2> QED BY <1>6, <2>1, <2>2 DEF Mishap
<1>7. ASSUME NEW w \in Id, Work(w) PROVE UNCHANGED storeVars
  BY <1>7 DEF Work, WorkerStarts, WorkerCleans, WorkerProgresses, WorkerObeys, WorkerWrites,
     WorkerReserves, WorkerAnnounces, WorkerSeals, WorkerReports, processVars, storeVars
<1> QED BY <1>1, <1>2, <1>3, <1>4, <1>5, <1>6, <1>7 DEF AgentNext

\* What goes on while the queue worker stands still.
LoopStands ==
  \/ Handlers \/ Threads \/ SupervisorAsks \/ Stop
  \/ \E w \in Id : Work(w) \/ WorkerDies(w) \/ \E m \in Terminal : WorkerErrs(w, m)

\* While the loop stands only a request to cancel reaches it.
LEMMA LoopStandsStill == LoopStands => UNCHANGED <<loop, asked>> \/ SupervisorAsks
<1> SUFFICES ASSUME LoopStands, ~ SupervisorAsks PROVE UNCHANGED <<loop, asked>>
  OBVIOUS
<1>1. CASE Handlers
  BY <1>1 DEF Handlers, SubmitJob, CancelQueued, CancelRunning, Delete, RetryBegin, RetryFixture,
     Pause, agentVars, workerVars
<1>2. CASE Threads
  BY <1>2 DEF Threads, Pass, Scan, Settle, CancelThread, CancelFence, CancelAct, RetryReturns, RetryAct,
     workerVars
<1>3. CASE Stop
  BY <1>3 DEF Stop, workerVars
<1>4. ASSUME NEW w \in Id, Work(w) \/ WorkerDies(w) \/ \E m \in Terminal : WorkerErrs(w, m)
      PROVE  UNCHANGED <<loop, asked>>
  BY <1>4 DEF Work, WorkerStarts, WorkerCleans, WorkerProgresses, WorkerObeys, WorkerWrites,
     WorkerReserves, WorkerAnnounces, WorkerSeals, WorkerReports, WorkerDies, WorkerErrs, processVars
<1> QED BY <1>1, <1>2, <1>3, <1>4 DEF LoopStands

\* Every step keeps the types of the event loop.
LEMMA LoopStep == TypeOK /\ AgentTyped /\ AgentNext => LoopTyped'
<1> SUFFICES ASSUME TypeOK, AgentTyped, AgentNext PROVE LoopTyped'
  OBVIOUS
<1>a. ASSUME NEW pc \in LoopPc \ Holding, loop' = Resting(pc) PROVE LoopTyped'
  BY <1>a DEF LoopTyped, Resting
<1>b. ASSUME loop.pc \in Holding, NEW pc \in LoopPc, loop' = [loop EXCEPT !.pc = pc] PROVE LoopTyped'
  BY <1>b DEF AgentTyped, LoopTyped
<1>c. ASSUME loop.pc \in Holding, NEW pc \in LoopPc, NEW out \in Terminal,
             loop' = [loop EXCEPT !.pc = pc, !.out = out]
      PROVE  LoopTyped'
  BY <1>c DEF AgentTyped, LoopTyped
<1>d. ASSUME loop.pc \in Holding, NEW out \in Terminal, Ended(out) PROVE LoopTyped'
  BY <1>c, <1>d DEF Ended, LoopPc
<1>e. CASE Release \/ Trouble \/ loop' = Resting("halting") \/ loop' = Resting("down")
  BY <1>a, <1>e DEF Release, Trouble, LoopPc, Reconciling, Holding
<1>f. ASSUME loop.pc \in Holding, NEW r \in BOOLEAN, FailAttempt(r) PROVE LoopTyped'
  BY <1>b, <1>e, <1>f DEF FailAttempt, LoopPc, Reconciling
<1>1. CASE LoopStands
  BY <1>1, LoopStandsStill DEF LoopTyped, AgentTyped, SupervisorAsks
<1>2. ASSUME NEW j \in Job, ClaimJob(j) PROVE LoopTyped'
  <2>1. j \in DOMAIN jobs /\ jobs[j].attempt \in 0 .. MaxAttempt /\ jobs[j].attempt < MaxAttempt
    BY <1>2 DEF ClaimJob, Claim, Queued, TypeOK, Row
  <2>2. jobs[j].attempt + 1 \in Attempt
    BY <2>1, BoundAssumption DEF Attempt
  <2> QED BY <1>2, <2>2 DEF ClaimJob, LoopTyped, LoopPc, Id
<1>3. CASE Register
  BY <1>3, <1>b, <1>e DEF Register, LoopPc, Holding
<1>4. CASE Launch
  BY <1>4, <1>b, <1>c DEF Launch, LoopPc, Holding, Terminal
<1>5. CASE SupervisorForces \/ SupervisorTimesOut \/ SupervisorMourns
  BY <1>5, <1>d DEF SupervisorForces, SupervisorTimesOut, SupervisorMourns, Holding, Terminal
<1>6. CASE SupervisorReads
  <2>1. loop.pc \in Holding
    BY <1>6 DEF SupervisorReads, Holding
  <2>2. CASE \E out \in Terminal : Ended(out)
    BY <2>1, <2>2, <1>d
  <2>3. CASE UNCHANGED loop
    BY <2>3 DEF LoopTyped, AgentTyped
  <2> QED BY <1>6, <2>2, <2>3 DEF SupervisorReads, CommitProgress, Terminal
<1>7. CASE Judge
  <2>1. loop.pc \in Holding
    BY <1>7 DEF Judge, Holding
  <2>2. CASE loop' = [loop EXCEPT !.pc = "finalizing"]
    BY <2>1, <2>2, <1>b DEF LoopPc
  <2> QED BY <1>7, <2>1, <2>2, <1>e, <1>f DEF Judge, Keep
<1>8. CASE Finalize
  <2>1. loop.pc \in Holding
    BY <1>8 DEF Finalize, Holding
  <2> QED BY <1>8, <2>1, <1>b, <1>c DEF Finalize, LoopPc, Terminal
<1>9. CASE Finish
  <2>1. loop.pc \in Holding
    BY <1>9 DEF Finish, Holding
  <2> QED BY <1>9, <2>1, <1>e, <1>f DEF Finish
<1>10. CASE Reconciled \/ StoreBreaks \/ RecoverRows \/ TroubleAgain \/ LoopExits \/ Crash
  BY <1>10, <1>e DEF Reconciled, StoreBreaks, RecoverRows, TroubleAgain, LoopExits, Crash
<1>11. CASE Start
  BY <1>11, <1>a DEF Start, LoopPc, Reconciling, Holding
<1> QED BY <1>1, <1>2, <1>3, <1>4, <1>5, <1>6, <1>7, <1>8, <1>9, <1>10, <1>11
       DEF AgentNext, LoopStands, Loop, Supervisor, Mishap

\* The type of active_worker with its signal, and of the passes: what they hold
\* are jobs and attempts of the table.
Registration == [job : Job \cup {Nil}, cancel : BOOLEAN]
Passes == [Reconciler -> {Nil} \cup SUBSET Id]

\* Every step keeps the types of the handlers and passes.
LEMMA BooksStep == TypeOK /\ AgentTyped /\ AgentNext => BooksTyped'
<1> SUFFICES ASSUME TypeOK, AgentTyped, AgentNext PROVE BooksTyped'
  OBVIOUS
<1>0. active \in Registration /\ todo \in Passes
  BY DEF AgentTyped, BooksTyped, Registration, Passes
<1>a. ASSUME UNCHANGED <<stopping, gate, retrying, cancelling>>, active' \in Registration, todo' \in Passes
      PROVE  BooksTyped'
  BY <1>a DEF AgentTyped, BooksTyped, Registration, Passes
<1>b. ASSUME UNCHANGED <<stopping, active, gate, retrying, todo, cancelling>> PROVE BooksTyped'
  BY <1>b DEF AgentTyped, BooksTyped
<1>c. ASSUME NEW who \in Reconciler, NEW s \in {Nil} \cup SUBSET Id, todo' = [todo EXCEPT ![who] = s]
      PROVE  todo' \in Passes
  BY <1>0, <1>c DEF Passes
<1>d. active' = NoActive => active' \in Registration
  BY DEF NoActive, Registration
<1>e. Trouble => active' \in Registration /\ todo' \in Passes
  BY <1>c, <1>d DEF Trouble, Reconciler, Unread
<1>f. Release => active' \in Registration
  BY <1>d DEF Release
<1>g. todo' = [todo EXCEPT !["loop"] = {}] \/ todo' = [todo EXCEPT !["loop"] = Unread] => todo' \in Passes
  BY <1>c DEF Reconciler, Unread
<1>h. UNCHANGED todo => todo' \in Passes
  BY <1>0
<1>i. UNCHANGED active => active' \in Registration
  BY <1>0
<1>j. ASSUME NEW j \in Job, CancelAndSignal(j) PROVE active' \in Registration
  BY <1>0, <1>j DEF CancelAndSignal, Registration
<1>k. ASSUME NEW r \in BOOLEAN, FailAttempt(r) PROVE active' \in Registration /\ todo' \in Passes
  BY <1>k, <1>f, <1>g, <1>h, <1>i DEF FailAttempt
<1>1. CASE Handlers
  <2>1. ASSUME NEW k \in Key, NEW b \in Body, NEW j \in Job, NEW t \in 0 .. MaxClock,
               SubmitJob(k, b, j, t)
        PROVE  BooksTyped'
    BY <2>1, <1>b DEF SubmitJob, agentVars, handlerVars
  <2>2. ASSUME NEW j \in Job, CancelQueued(j) PROVE BooksTyped'
    BY <2>2, <1>a, <1>h, <1>j DEF CancelQueued, handlerVars
  <2>3. ASSUME NEW j \in Job, CancelRunning(j) PROVE BooksTyped'
    <3>1. jobs[j].attempt \in 0 .. MaxAttempt
      BY <2>3 DEF CancelRunning, TypeOK, Row
    <3>2. [pc |-> "claiming", attempt |-> jobs[j].attempt]
            \in [pc : {"none", "claiming", "acting"}, attempt : 0 .. MaxAttempt]
      BY <3>1
    <3>3. cancelling' \in [Job -> [pc : {"none", "claiming", "acting"}, attempt : 0 .. MaxAttempt]]
      BY <2>3, <3>2 DEF CancelRunning, AgentTyped, BooksTyped
    <3>4. UNCHANGED <<stopping, active, gate, retrying, todo>>
      BY <2>3 DEF CancelRunning
    <3> QED BY <3>3, <3>4 DEF AgentTyped, BooksTyped
  <2>4. ASSUME NEW j \in Job, Delete(j) PROVE BooksTyped'
    BY <2>4, <1>b DEF Delete, agentVars, handlerVars
  <2>5. ASSUME NEW j \in Job, RetryBegin(j) PROVE BooksTyped'
    <3>1. todo' \in Passes
      BY <2>5, <1>c DEF RetryBegin, Reconciler, Unread
    <3> QED BY <2>5, <3>1 DEF RetryBegin, AgentTyped, BooksTyped, Passes
  <2>6. ASSUME NEW j \in Job, NEW t \in 0 .. MaxClock, RetryFixture(j, t) PROVE BooksTyped'
    BY <2>6, <1>b DEF RetryFixture, agentVars, handlerVars
  <2>7. ASSUME NEW p \in BOOLEAN, Pause(p) PROVE BooksTyped'
    BY <2>7, <1>b DEF Pause, agentVars, handlerVars
  <2> QED BY <1>1, <2>1, <2>2, <2>3, <2>4, <2>5, <2>6, <2>7 DEF Handlers
<1>2. CASE Threads
  <2>1. ASSUME NEW who \in Reconciler, Scan(who) PROVE BooksTyped'
    <3>1. Candidates \subseteq Id
      <4>1. \A i \in DOMAIN jobs : jobs[i].attempt > 0 => <<i, jobs[i].attempt>> \in Id
        BY BoundAssumption DEF TypeOK, Row, Id, Attempt
      <4> QED BY <4>1 DEF Candidates
    <3>2. todo' \in Passes
      BY <2>1, <3>1, <1>c DEF Scan
    <3> QED BY <2>1, <3>2, <1>a, <1>i DEF Scan, handlerVars
  <2>2. ASSUME NEW who \in Reconciler, NEW j \in Job, NEW a \in Attempt, Settle(who, j, a)
        PROVE  BooksTyped'
    <3>1. todo[who] \in SUBSET Id
      BY <1>0, <2>2 DEF Settle, Passes, Unread
    <3>2. todo' \in Passes
      BY <2>2, <3>1, <1>c DEF Settle
    <3> QED BY <2>2, <3>2, <1>a, <1>i DEF Settle, handlerVars
  <2>3. ASSUME NEW j \in Job, CancelThread(j) PROVE BooksTyped'
    <3> DEFINE Record == [pc : {"none", "claiming", "acting"}, attempt : 0 .. MaxAttempt]
    <3>1. NoCancel \in Record /\ [cancelling[j] EXCEPT !.pc = "acting"] \in Record
      BY BoundAssumption DEF NoCancel, AgentTyped, BooksTyped
    <3>2. CASE CancelFence(j)
      <4>1. cancelling' = [cancelling EXCEPT ![j] = [cancelling[j] EXCEPT !.pc = "acting"]]
            \/ cancelling' = [cancelling EXCEPT ![j] = NoCancel]
        BY <3>2 DEF CancelFence
      <4>2. cancelling' \in [Job -> Record]
        BY <3>1, <4>1 DEF AgentTyped, BooksTyped
      <4>3. UNCHANGED <<stopping, active, gate, retrying, todo>>
        BY <3>2 DEF CancelFence
      <4> QED BY <4>2, <4>3 DEF AgentTyped, BooksTyped
    <3>3. CASE CancelAct(j)
      <4>1. cancelling' \in [Job -> Record]
        BY <3>1, <3>3 DEF CancelAct, AgentTyped, BooksTyped
      <4>2. active' \in Registration
        BY <3>3, <1>i, <1>j DEF CancelAct
      <4>3. UNCHANGED <<stopping, gate, retrying, todo>>
        BY <3>3 DEF CancelAct
      <4> QED BY <4>1, <4>2, <4>3 DEF AgentTyped, BooksTyped, Registration
    <3> QED BY <2>3, <3>2, <3>3 DEF CancelThread
  <2>4. ASSUME NEW t \in 0 .. MaxClock, RetryAct(t) PROVE BooksTyped'
    <3>1. todo' \in Passes
      BY <2>4, <1>c DEF RetryAct, Reconciler
    <3> QED BY <2>4, <3>1 DEF RetryAct, AgentTyped, BooksTyped, Passes
  <2> QED BY <1>2, <2>1, <2>2, <2>3, <2>4 DEF Threads, Pass, RetryReturns
<1>3. CASE Loop
  <2>1. ASSUME NEW j \in Job, ClaimJob(j) PROVE BooksTyped'
    BY <2>1 DEF ClaimJob, handlerVars, AgentTyped, BooksTyped
  <2>2. CASE Register
    <3>1. gate' = "free" /\ UNCHANGED <<stopping, retrying, cancelling>>
      BY <2>2 DEF Register, handlerVars
    <3>2. active' \in Registration /\ todo' \in Passes
      <4>1. Me \in Job /\ [job |-> Me, cancel |-> FALSE] \in Registration
        BY <2>2, MineIsAnAttempt DEF Register, Holding, Registration
      <4> QED BY <2>2, <4>1, <1>e, <1>f, <1>h DEF Register
    <3> QED BY <3>1, <3>2 DEF AgentTyped, BooksTyped, Registration, Passes
  <2>3. CASE Judge
    <3>1. active' \in Registration /\ todo' \in Passes
      BY <2>3, <1>f, <1>h, <1>i, <1>k DEF Judge, Keep
    <3> QED BY <2>3, <3>1, <1>a DEF Judge, handlerVars
  <2>4. CASE Finalize
    BY <2>4, <1>b DEF Finalize, handlerVars
  <2>5. CASE Finish
    <3>1. active' \in Registration /\ todo' \in Passes
      BY <2>5, <1>f, <1>h, <1>k DEF Finish
    <3> QED BY <2>5, <3>1, <1>a DEF Finish, handlerVars
  <2>6. CASE Reconciled
    BY <2>6, <1>a, <1>f, <1>g DEF Reconciled, handlerVars
  <2>7. CASE RecoverRows
    <3>1. active' \in Registration
      BY <2>7, <1>d, <1>f DEF RecoverRows
    <3> QED BY <2>7, <3>1, <1>a, <1>h DEF RecoverRows, handlerVars
  <2>8. CASE LoopExits
    BY <2>8, <1>a, <1>g, <1>i DEF LoopExits, handlerVars
  <2> QED BY <1>3, <2>1, <2>2, <2>3, <2>4, <2>5, <2>6, <2>7, <2>8 DEF Loop
<1>4. CASE Supervisor
  BY <1>4, <1>b DEF Supervisor, Launch, SupervisorAsks, SupervisorForces, SupervisorReads, SupervisorMourns,
     handlerVars
<1>5. CASE Start
  <2>1. todo' \in Passes /\ stopping' = FALSE /\ UNCHANGED <<active, gate, retrying, cancelling>>
    BY <1>5, <1>g DEF Start, handlerVars
  <2> QED BY <2>1 DEF AgentTyped, BooksTyped, Passes
<1>6. CASE Mishap
  <2>1. CASE SupervisorTimesOut
    BY <2>1, <1>b DEF SupervisorTimesOut, handlerVars
  <2>2. CASE StoreBreaks
    BY <2>2, <1>a, <1>e DEF StoreBreaks, handlerVars
  <2>3. CASE TroubleAgain
    BY <2>3, <1>a, <1>f, <1>g DEF TroubleAgain, handlerVars
  <2>4. CASE Stop
    <3>1. stopping' = TRUE /\ UNCHANGED <<active, gate, retrying, todo, cancelling>>
      BY <2>4 DEF Stop, handlerVars
    <3> QED BY <3>1 DEF AgentTyped, BooksTyped
  <2>5. CASE Crash
    <3>1. NoCancel \in [pc : {"none", "claiming", "acting"}, attempt : 0 .. MaxAttempt]
      BY BoundAssumption DEF NoCancel
    <3>2. cancelling' \in [Job -> [pc : {"none", "claiming", "acting"}, attempt : 0 .. MaxAttempt]]
      BY <2>5, <3>1 DEF Crash
    <3>3. todo' \in Passes
      BY <2>5 DEF Crash, Passes
    <3>4. active' \in Registration
      BY <2>5, <1>d DEF Crash
    <3>5. stopping' = FALSE /\ gate' = "free" /\ retrying' = Nil
      BY <2>5 DEF Crash
    <3> QED BY <3>2, <3>3, <3>4, <3>5 DEF BooksTyped, Registration, Passes
  <2>6. ASSUME NEW w \in Id, WorkerDies(w) \/ \E m \in Terminal : WorkerErrs(w, m) PROVE BooksTyped'
    BY <2>6, <1>b DEF WorkerDies, WorkerErrs, processVars, handlerVars
  <2> QED BY <1>6, <2>1, <2>2, <2>3, <2>4, <2>5, <2>6 DEF Mishap
<1>7. ASSUME NEW w \in Id, Work(w) PROVE BooksTyped'
  BY <1>7, <1>b DEF Work, WorkerStarts, WorkerCleans, WorkerProgresses, WorkerObeys, WorkerWrites,
     WorkerReserves, WorkerAnnounces, WorkerSeals, WorkerReports, processVars, handlerVars
<1> QED BY <1>1, <1>2, <1>3, <1>4, <1>5, <1>6, <1>7 DEF AgentNext

\* The worker processes keep their type: a worker starts with the units its job
\* has left, and counts down to zero.
ProcessRecord == [pc : WorkerPc, kind : Kind \cup {Nil}, left : Nat, doomed : SUBSET Id]
Message == Terminal \cup {"progress"}

\* Every step keeps the types of workers, pipe, fences and runs.
LEMMA ProcessStep == TypeOK /\ AgentTyped /\ ActiveRow /\ AgentNext => ProcessTyped'
<1> SUFFICES ASSUME TypeOK, AgentTyped, ActiveRow, AgentNext PROVE ProcessTyped'
  OBVIOUS
<1> DEFINE Workers == [Id -> ProcessRecord]
           Fences == [Id -> {"none", "cancel", "commit"}]
           Runs == [Id -> {"none", "partial", "committed"}]
<1>0. worker \in Workers /\ fence \in Fences /\ run \in Runs
  BY DEF AgentTyped, ProcessTyped, ProcessRecord
<1>p. pipe \in Seq(Message)
  BY DEF AgentTyped, ProcessTyped, Message
<1>q. asked \in BOOLEAN
  BY DEF AgentTyped, ProcessTyped
<1>z. ASSUME worker' \in Workers, pipe' \in Seq(Message), asked' \in BOOLEAN, fence' \in Fences, run' \in Runs
      PROVE  ProcessTyped'
  BY <1>z DEF ProcessTyped, ProcessRecord, Message
<1>a. ASSUME UNCHANGED workerVars PROVE ProcessTyped'
  BY <1>0, <1>p, <1>q, <1>a, <1>z DEF workerVars
<1>b. ASSUME NEW w \in Id, NEW pc \in WorkerPc, Becomes(w, pc) PROVE worker' \in Workers
  <2>1. [worker[w] EXCEPT !.pc = pc] \in ProcessRecord
    BY <1>0 DEF ProcessRecord
  <2> QED BY <1>0, <1>b, <2>1 DEF Becomes
<1>c. ASSUME NEW w \in Id, NEW m \in Message, NEW pc \in WorkerPc, Emits(w, m, pc)
      PROVE  worker' \in Workers /\ pipe' \in Seq(Message)
  <2>1. worker' \in Workers
    BY <1>b, <1>c DEF Emits, WorkerPc
  <2>2. Append(pipe, m) \in Seq(Message)
    BY <1>p
  <2> QED BY <1>p, <1>c, <2>1, <2>2 DEF Emits
<1>d. ASSUME NEW w \in Id PROVE Dropped(w) \in Runs
  BY <1>0 DEF Dropped
<1>e. ASSUME loop.pc \in Holding, NEW out, Ended(out) PROVE worker' \in Workers /\ pipe' \in Seq(Message)
  <2>1. loop.id \in Id /\ worker' = [worker EXCEPT ![loop.id].pc = "gone"] /\ pipe' = << >>
    BY <1>e DEF Ended, AgentTyped, LoopTyped
  <2>2. worker' \in Workers
    BY <1>b, <2>1 DEF Becomes, WorkerPc
  <2> QED BY <2>1, <2>2
<1>1. CASE Handlers
  BY <1>1, <1>a DEF Handlers, SubmitJob, CancelQueued, CancelRunning, Delete, RetryBegin, RetryFixture,
     Pause, agentVars, workerVars
<1>2. CASE Threads
  <2>1. ASSUME NEW j \in Job, CancelFence(j) PROVE ProcessTyped'
    <3>1. fence' \in Fences
      BY <1>0, <2>1 DEF CancelFence
    <3> QED BY <1>0, <1>p, <1>q, <2>1, <3>1, <1>z DEF CancelFence
  <2>2. CASE ~ \E j \in Job : CancelFence(j)
    BY <1>2, <2>2, <1>a DEF Threads, Pass, Scan, Settle, CancelThread, CancelAct, RetryReturns, RetryAct
  <2> QED BY <2>1, <2>2
<1>3. CASE Loop \/ Start
  BY <1>3, <1>a DEF Loop, ClaimJob, Register, Judge, Finalize, Finish, Reconciled, RecoverRows, LoopExits,
     Start
<1>4. CASE Launch
  <2>1. CASE UNCHANGED <<worker, pipe, asked>>
    BY <1>4, <2>1, <1>a DEF Launch, workerVars
  <2>2. CASE ~ UNCHANGED <<worker, pipe, asked>>
    <3> DEFINE new == [pc |-> "starting", kind |-> jobs[Me].body.kind,
                       left |-> jobs[Me].body.units - jobs[Me].completed, doomed |-> {}]
    <3>1. loop.pc = "dispatching" /\ worker' = [worker EXCEPT ![loop.id] = new] /\ pipe' = << >> /\ asked' = FALSE
      BY <1>4, <2>2 DEF Launch
    <3>2. Me \in DOMAIN jobs
      BY <3>1 DEF ActiveRow, Registered, Holding, Me
    <3>3. /\ jobs[Me].body.kind \in Kind
          /\ jobs[Me].body.units \in Int /\ jobs[Me].completed \in Nat
          /\ jobs[Me].completed =< jobs[Me].body.units
      <4>1. jobs[Me].body \in Body /\ jobs[Me].completed \in Nat
        BY <3>2 DEF TypeOK, Row
      <4>2. jobs[Me].completed =< jobs[Me].body.units
        BY <3>2 DEF TypeOK
      <4> QED BY <4>1, <4>2, BodyAssumption
    <3>4. jobs[Me].body.units - jobs[Me].completed \in Nat
      BY <3>3
    <3>5. new \in ProcessRecord
      BY <3>3, <3>4 DEF ProcessRecord, WorkerPc
    <3>6. worker' \in Workers
      BY <1>0, <3>1, <3>5
    <3>7. pipe' \in Seq(Message)
      BY <3>1
    <3>8. asked' \in BOOLEAN
      BY <3>1
    <3>9. UNCHANGED <<fence, run>>
      BY <1>4 DEF Launch
    <3> QED BY <1>0, <3>6, <3>7, <3>8, <3>9, <1>z
  <2> QED BY <2>1, <2>2
<1>5. CASE SupervisorForces \/ SupervisorTimesOut \/ SupervisorMourns
  <2>1. worker' \in Workers /\ pipe' \in Seq(Message)
    BY <1>5, <1>e DEF SupervisorForces, SupervisorTimesOut, SupervisorMourns, Holding
  <2>2. UNCHANGED <<asked, fence, run>>
    BY <1>5 DEF SupervisorForces, SupervisorTimesOut, SupervisorMourns
  <2> QED BY <1>0, <1>q, <2>1, <2>2, <1>z
<1>6. CASE SupervisorAsks
  BY <1>6, <1>0, <1>p, <1>z DEF SupervisorAsks
<1>7. CASE SupervisorReads
  <2>1. worker' \in Workers /\ pipe' \in Seq(Message)
    <3>1. CASE \E out \in Terminal : Ended(out)
      BY <1>7, <3>1, <1>e DEF SupervisorReads, Holding
    <3>2. CASE pipe' = Tail(pipe) /\ UNCHANGED worker
      <4>1. Tail(pipe) \in Seq(Message)
        BY <1>7, <1>p DEF SupervisorReads
      <4> QED BY <1>0, <3>2, <4>1
    <3> QED BY <1>7, <3>1, <3>2 DEF SupervisorReads, CommitProgress, Terminal
  <2>2. UNCHANGED <<asked, fence, run>>
    BY <1>7 DEF SupervisorReads
  <2> QED BY <1>0, <1>q, <2>1, <2>2, <1>z
<1>8. CASE StoreBreaks \/ TroubleAgain \/ Stop
  BY <1>8, <1>a DEF StoreBreaks, TroubleAgain, Stop
<1>9. CASE Crash
  <2>1. worker' \in Workers
    <3>1. CASE worker' = [w \in Id |-> IF Live(w) THEN [worker[w] EXCEPT !.pc = "gone"] ELSE worker[w]]
      <4>1. \A w \in Id : [worker[w] EXCEPT !.pc = "gone"] \in ProcessRecord
        BY <1>0 DEF ProcessRecord, WorkerPc
      <4> QED BY <1>0, <3>1, <4>1
    <3> QED BY <1>9, <1>0, <3>1 DEF Crash
  <2>2. pipe' \in Seq(Message)
    BY <1>9 DEF Crash
  <2>3. asked' \in BOOLEAN
    BY <1>9 DEF Crash
  <2>4. UNCHANGED <<fence, run>>
    BY <1>9 DEF Crash
  <2> QED BY <1>0, <2>1, <2>2, <2>3, <2>4, <1>z
<1>10. ASSUME NEW w \in Id, WorkerDies(w) \/ \E m \in Terminal : WorkerErrs(w, m) PROVE ProcessTyped'
  <2>1. CASE WorkerDies(w)
    BY <2>1, <1>0, <1>p, <1>q, <1>b, <1>z DEF WorkerDies, WorkerPc, processVars
  <2>2. ASSUME NEW m \in Terminal, WorkerErrs(w, m) PROVE ProcessTyped'
    <3>1. worker' \in Workers /\ pipe' \in Seq(Message)
      BY <2>2, <1>c DEF WorkerErrs, WorkerPc, Message
    <3> QED BY <1>0, <1>q, <1>d, <2>2, <3>1, <1>z DEF WorkerErrs, processVars
  <2> QED BY <1>10, <2>1, <2>2
<1>11. ASSUME NEW w \in Id, Work(w) PROVE ProcessTyped'
  <2>0. asked' \in BOOLEAN
    BY <1>11, <1>q DEF Work, WorkerStarts, WorkerCleans, WorkerProgresses, WorkerObeys, WorkerWrites,
       WorkerReserves, WorkerAnnounces, WorkerSeals, WorkerReports, processVars
  <2>a. ASSUME NEW pc \in WorkerPc, NEW d \in SUBSET Id
        PROVE  [worker[w] EXCEPT !.pc = pc, !.doomed = d] \in ProcessRecord
    <3>1. worker[w] \in ProcessRecord
      BY <1>0
    <3> QED BY <3>1 DEF ProcessRecord
  <2>b. \A pc \in WorkerPc : [worker[w] EXCEPT !.pc = pc] \in ProcessRecord
    BY <1>0 DEF ProcessRecord
  <2>c. ASSUME NEW r \in ProcessRecord, worker' = [worker EXCEPT ![w] = r] PROVE worker' \in Workers
    BY <1>0, <2>c
  <2>1. CASE WorkerStarts(w)
    <3>1. worker' \in Workers
      BY <2>1, <2>a, <2>b, <2>c DEF WorkerStarts, WorkerPc
    <3> QED BY <1>0, <1>p, <2>0, <2>1, <3>1, <1>z DEF WorkerStarts
  <2>2. CASE WorkerCleans(w)
    <3>1. worker' \in Workers
      BY <2>2, <2>a, <2>c DEF WorkerCleans, WorkerPc
    <3>2. run' \in Runs
      BY <1>0, <2>2 DEF WorkerCleans
    <3> QED BY <1>0, <1>p, <2>0, <2>2, <3>1, <3>2, <1>z DEF WorkerCleans
  <2>3. CASE WorkerProgresses(w)
    <3>1. worker' \in Workers
      <4>1. CASE worker' = [worker EXCEPT ![w].left = @ - 1]
        <5>1. worker[w].left \in Nat /\ worker[w].left > 0
          BY <1>0, <2>3 DEF WorkerProgresses, ProcessRecord
        <5>2. worker[w].left - 1 \in Nat
          BY <5>1
        <5>3. [worker[w] EXCEPT !.left = worker[w].left - 1] \in ProcessRecord
          BY <1>0, <5>2 DEF ProcessRecord
        <5> QED BY <4>1, <5>3, <2>c
      <4> QED BY <2>3, <4>1, <1>b DEF WorkerProgresses, WorkerPc
    <3>2. pipe' \in Seq(Message)
      <4>1. Append(pipe, "progress") \in Seq(Message)
        BY <1>p DEF Message
      <4> QED BY <2>3, <1>p, <4>1 DEF WorkerProgresses
    <3> QED BY <1>0, <2>0, <2>3, <3>1, <3>2, <1>z DEF WorkerProgresses
  <2>4. CASE WorkerObeys(w) \/ WorkerReports(w)
    <3>1. worker' \in Workers /\ pipe' \in Seq(Message)
      BY <2>4, <1>c DEF WorkerObeys, WorkerReports, WorkerPc, Message, Terminal
    <3> QED BY <1>0, <2>0, <2>4, <3>1, <1>z DEF WorkerObeys, WorkerReports
  <2>5. CASE WorkerWrites(w)
    <3>1. worker' \in Workers
      BY <2>5, <1>b DEF WorkerWrites, WorkerPc
    <3>2. run' \in Runs
      BY <1>0, <2>5 DEF WorkerWrites
    <3> QED BY <1>0, <1>p, <2>0, <2>5, <3>1, <3>2, <1>z DEF WorkerWrites
  <2>6. CASE WorkerReserves(w)
    <3>1. worker' \in Workers /\ pipe' \in Seq(Message)
      BY <2>6, <1>b, <1>c, <1>p DEF WorkerReserves, WorkerPc, Message, Terminal
    <3>2. fence' \in Fences
      BY <1>0, <2>6 DEF WorkerReserves
    <3>3. run' \in Runs
      BY <1>0, <1>d, <2>6 DEF WorkerReserves
    <3> QED BY <2>0, <3>1, <3>2, <3>3, <1>z
  <2>7. CASE WorkerAnnounces(w)
    <3>1. worker' \in Workers
      BY <2>7, <1>b DEF WorkerAnnounces, WorkerPc
    <3>2. run' \in Runs
      BY <1>0, <1>d, <2>7 DEF WorkerAnnounces
    <3> QED BY <1>0, <1>p, <2>0, <2>7, <3>1, <3>2, <1>z DEF WorkerAnnounces
  <2>8. CASE WorkerSeals(w)
    <3>1. worker' \in Workers /\ pipe' \in Seq(Message)
      BY <2>8, <1>b, <1>c, <1>p DEF WorkerSeals, WorkerPc, Message, Terminal
    <3>2. run' \in Runs
      BY <1>0, <2>8 DEF WorkerSeals
    <3> QED BY <1>0, <2>0, <2>8, <3>1, <3>2, <1>z DEF WorkerSeals
  <2> QED BY <1>11, <2>1, <2>2, <2>3, <2>4, <2>5, <2>6, <2>7, <2>8 DEF Work
<1> QED BY <1>1, <1>2, <1>3, <1>4, <1>5, <1>6, <1>7, <1>8, <1>9, <1>10, <1>11
       DEF AgentNext, Supervisor, Mishap

-----------------------------------------------------------------------------
\* A handler or a thread never sets a row running, nor does it touch one and
\* leave it running.
LEMMA QuietTable ==
  ASSUME TypeOK, AgentTyped, Handlers \/ Threads, NEW j \in DOMAIN jobs', jobs'[j].status = "running"
  PROVE  j \in DOMAIN jobs /\ jobs'[j] = jobs[j]
<1>a. UNCHANGED jobs => j \in DOMAIN jobs /\ jobs'[j] = jobs[j]
  OBVIOUS
<1>b. ASSUME NEW i \in DOMAIN jobs, NEW row, SetRow(i, row), row.status # "running"
      PROVE  j \in DOMAIN jobs /\ jobs'[j] = jobs[j]
  BY <1>b DEF SetRow
<1>c. ASSUME NEW i, Cancel(i) PROVE j \in DOMAIN jobs /\ jobs'[j] = jobs[j]
  BY <1>b, <1>c DEF Cancel, Active, TypeOK, Row
<1>d. ASSUME NEW i, NEW t, Retry(i, t) PROVE j \in DOMAIN jobs /\ jobs'[j] = jobs[j]
  BY <1>b, <1>d DEF Retry, Retriable, TypeOK, Row
<1>1. CASE Handlers
  <2>1. ASSUME NEW k \in Key, NEW b \in Body, NEW i \in Job, NEW t \in 0 .. MaxClock, Submit(k, b, i, t)
        PROVE  j \in DOMAIN jobs /\ jobs'[j] = jobs[j]
    BY <2>1 DEF Submit, With, NewRow
  <2>2. ASSUME NEW k \in Key, NEW b \in Body, NEW i \in Job, SubmitReuse(k, b, i)
        PROVE  j \in DOMAIN jobs /\ jobs'[j] = jobs[j]
    BY <2>2, <1>a DEF SubmitReuse
  <2>3. ASSUME NEW i \in Job, Remove(i) PROVE j \in DOMAIN jobs /\ jobs'[j] = jobs[j]
    BY <2>3 DEF Remove, Without, Restrict
  <2>4. ASSUME NEW i \in Job, CancelQueued(i) PROVE j \in DOMAIN jobs /\ jobs'[j] = jobs[j]
    BY <2>4, <1>c DEF CancelQueued, CancelAndSignal
  <2>5. ASSUME NEW i \in Job, CancelRunning(i) \/ RetryBegin(i) PROVE j \in DOMAIN jobs /\ jobs'[j] = jobs[j]
    BY <2>5, <1>a DEF CancelRunning, RetryBegin, storeVars
  <2>6. ASSUME NEW p \in BOOLEAN, Pause(p) PROVE j \in DOMAIN jobs /\ jobs'[j] = jobs[j]
    BY <2>6, <1>a DEF Pause, SetPaused
  <2> QED BY <1>1, <1>d, <2>1, <2>2, <2>3, <2>4, <2>5, <2>6 DEF Handlers, SubmitJob, Delete, RetryFixture
<1>2. CASE Threads
  <2>1. ASSUME NEW who \in Reconciler, NEW i \in Job, NEW a \in Attempt, Settle(who, i, a)
        PROVE  j \in DOMAIN jobs /\ jobs'[j] = jobs[j]
    <3>1. CASE CompleteRecovered(i, a)
      BY <3>1, <1>b DEF CompleteRecovered, Unsettled, TypeOK, Row
    <3> QED BY <2>1, <3>1, <1>a DEF Settle, storeVars
  <2>2. ASSUME NEW who \in Reconciler, Scan(who) PROVE j \in DOMAIN jobs /\ jobs'[j] = jobs[j]
    BY <2>2, <1>a DEF Scan, storeVars
  <2>3. ASSUME NEW i \in Job, CancelThread(i) PROVE j \in DOMAIN jobs /\ jobs'[j] = jobs[j]
    BY <2>3, <1>a, <1>c DEF CancelThread, CancelFence, CancelAct, CancelAndSignal, storeVars
  <2>4. CASE RetryReturns
    BY <2>4, <1>a, <1>d DEF RetryReturns, RetryAct, storeVars
  <2> QED BY <1>2, <2>1, <2>2, <2>3, <2>4 DEF Threads, Pass
<1> QED BY <1>1, <1>2

\* What a step of a worker process means to its supervisor: nothing, a unit
\* less and a message more, or a last message.
Moves(w) ==
  /\ worker[w].pc # "gone"
  /\ \/ pipe' = pipe /\ worker'[w].left = worker[w].left
     \/ /\ Linked(w)
        /\ worker[w].left > 0
        /\ pipe' = Append(pipe, "progress")
        /\ worker'[w].left = worker[w].left - 1
     \/ /\ Linked(w)
        /\ \E m \in Terminal : pipe' = Append(pipe, m)
        /\ worker'[w].left = worker[w].left /\ worker'[w].pc = "gone"

\* What a step of a worker process leaves alone.
LEMMA ProcessMoves ==
  ASSUME AgentTyped, NEW w \in Id,
         Work(w) \/ WorkerDies(w) \/ \E m \in Terminal : WorkerErrs(w, m)
  PROVE  /\ UNCHANGED processVars
         /\ Live(w)
         /\ \A v \in Id \ {w} : worker'[v] = worker[v]
         /\ Moves(w)
<1>0. worker \in [Id -> [pc : WorkerPc, kind : Kind \cup {Nil}, left : Nat, doomed : SUBSET Id]]
  BY DEF AgentTyped, ProcessTyped
<1>a. ASSUME NEW pc, Becomes(w, pc), UNCHANGED pipe, worker[w].pc # "gone" PROVE Moves(w)
  BY <1>0, <1>a DEF Becomes, Moves
<1>b. ASSUME NEW m \in Terminal, Emits(w, m, "gone"), worker[w].pc # "gone" PROVE Moves(w)
  BY <1>0, <1>b DEF Emits, Becomes, Moves
<1>c. ASSUME NEW m, NEW pc, Emits(w, m, pc) \/ Becomes(w, pc)
      PROVE  \A v \in Id \ {w} : worker'[v] = worker[v]
  BY <1>0, <1>c DEF Emits, Becomes
<1>d. Terminal = {"result", "cancelled", "failed", "broken"}
  BY DEF Terminal
<1> DEFINE Good == UNCHANGED processVars /\ Live(w) /\ (\A v \in Id \ {w} : worker'[v] = worker[v]) /\ Moves(w)
<1>1. CASE WorkerStarts(w)
  BY <1>0, <1>1 DEF WorkerStarts, Moves, Live
<1>2. CASE WorkerCleans(w)
  BY <1>0, <1>2 DEF WorkerCleans, Moves, Live
<1>3. CASE WorkerProgresses(w)
  BY <1>0, <1>3, <1>a, <1>c DEF WorkerProgresses, Moves, Live
<1>4. CASE WorkerObeys(w)
  BY <1>4, <1>b, <1>c, <1>d DEF WorkerObeys, Live
<1>5. CASE WorkerReports(w)
  BY <1>5, <1>b, <1>c, <1>d DEF WorkerReports, Live
<1>6. CASE WorkerWrites(w)
  BY <1>6, <1>a, <1>c DEF WorkerWrites, Live
<1>7. CASE WorkerReserves(w)
  BY <1>7, <1>a, <1>b, <1>c, <1>d DEF WorkerReserves, Live
<1>8. CASE WorkerAnnounces(w)
  BY <1>8, <1>a, <1>c DEF WorkerAnnounces, Live
<1>9. CASE WorkerSeals(w)
  BY <1>9, <1>a, <1>b, <1>c, <1>d DEF WorkerSeals, Live
<1>10. CASE WorkerDies(w)
  BY <1>10, <1>a, <1>c DEF WorkerDies, Live
<1>11. ASSUME NEW m \in Terminal, WorkerErrs(w, m) PROVE Good
  BY <1>11, <1>b, <1>c DEF WorkerErrs, Live
<1> QED BY <1>1, <1>2, <1>3, <1>4, <1>5, <1>6, <1>7, <1>8, <1>9, <1>10, <1>11 DEF Work

\* The row of the active worker is not removed.
LEMMA ActiveRowStays ==
  ASSUME AgentTyped, AgentNext, active.job \in DOMAIN jobs
  PROVE  active.job \in DOMAIN jobs'
<1> DEFINE Kept == DOMAIN jobs \subseteq DOMAIN jobs'
<1>a. ASSUME NEW j, NEW row, SetRow(j, row) PROVE Kept
  BY <1>a DEF SetRow
<1>b. UNCHANGED jobs => Kept
  OBVIOUS
<1>c. ASSUME NEW j, Cancel(j) PROVE Kept
  BY <1>a, <1>c DEF Cancel
<1>d. ASSUME NEW j, NEW t, Retry(j, t) PROVE Kept
  BY <1>a, <1>d DEF Retry
<1>f. ASSUME NEW r \in BOOLEAN, FailAttempt(r) PROVE Kept
  BY <1>a, <1>b, <1>f DEF FailAttempt, Fail, storeVars
<1>1. CASE Handlers
  <2>1. ASSUME NEW k \in Key, NEW b \in Body, NEW j \in Job, NEW t \in 0 .. MaxClock, SubmitJob(k, b, j, t)
        PROVE  Kept
    BY <2>1, <1>b DEF SubmitJob, Submit, SubmitReuse, With
  <2>2. ASSUME NEW j \in Job, CancelQueued(j) PROVE Kept
    BY <2>2, <1>c DEF CancelQueued, CancelAndSignal
  <2>3. ASSUME NEW j \in Job, CancelRunning(j) \/ RetryBegin(j) PROVE Kept
    BY <2>3, <1>b DEF CancelRunning, RetryBegin, storeVars
  <2>4. ASSUME NEW j \in Job, Delete(j) PROVE active.job \in DOMAIN jobs'
    BY <2>4 DEF Delete, Remove, Without, Restrict
  <2>5. ASSUME NEW p \in BOOLEAN, Pause(p) PROVE Kept
    BY <2>5, <1>b DEF Pause, SetPaused
  <2> QED BY <1>1, <1>d, <2>1, <2>2, <2>3, <2>4, <2>5 DEF Handlers, RetryFixture
<1>2. CASE Threads
  <2>1. ASSUME NEW who \in Reconciler, NEW i \in Job, NEW a \in Attempt, Settle(who, i, a) PROVE Kept
    BY <2>1, <1>a, <1>b DEF Settle, CompleteRecovered, storeVars
  <2>2. ASSUME NEW who \in Reconciler, Scan(who) PROVE Kept
    BY <2>2, <1>b DEF Scan, storeVars
  <2>3. ASSUME NEW i \in Job, CancelThread(i) PROVE Kept
    BY <2>3, <1>b, <1>c DEF CancelThread, CancelFence, CancelAct, CancelAndSignal, storeVars
  <2>4. CASE RetryReturns
    BY <2>4, <1>b, <1>d DEF RetryReturns, RetryAct, storeVars
  <2> QED BY <1>2, <2>1, <2>2, <2>3, <2>4 DEF Threads, Pass
<1>3. CASE Loop
  <2>1. ASSUME NEW j \in Job, ClaimJob(j) PROVE Kept
    BY <2>1, <1>a DEF ClaimJob, Claim
  <2>2. CASE Register \/ Finalize \/ Reconciled \/ LoopExits
    BY <2>2, <1>b DEF Register, Finalize, Reconciled, LoopExits, storeVars
  <2>3. CASE Judge
    BY <2>3, <1>b, <1>c, <1>f DEF Judge, Keep, storeVars
  <2>4. CASE Finish
    BY <2>4, <1>a, <1>f DEF Finish, Complete
  <2>5. CASE RecoverRows
    BY <2>5 DEF RecoverRows, Recover
  <2> QED BY <1>3, <2>1, <2>2, <2>3, <2>4, <2>5 DEF Loop
<1>4. CASE Supervisor
  <2>1. CASE Launch \/ SupervisorAsks \/ SupervisorForces \/ SupervisorMourns
    BY <2>1, <1>b DEF Launch, SupervisorAsks, SupervisorForces, SupervisorMourns, storeVars
  <2>2. CASE SupervisorReads
    BY <2>2, <1>a, <1>b DEF SupervisorReads, CommitProgress, Progress, Step, storeVars
  <2> QED BY <1>4, <2>1, <2>2 DEF Supervisor
<1>5. CASE Start
  BY <1>5, <1>b DEF Start, storeVars
<1>6. CASE Mishap /\ ~ \E w \in Id : WorkerDies(w) \/ \E m \in Terminal : WorkerErrs(w, m)
  BY <1>6, <1>b DEF Mishap, SupervisorTimesOut, StoreBreaks, TroubleAgain, Stop, Crash, storeVars
<1>7. ASSUME NEW w \in Id, Work(w) \/ WorkerDies(w) \/ \E m \in Terminal : WorkerErrs(w, m) PROVE Kept
  BY <1>7, <1>b, ProcessMoves DEF processVars, storeVars
<1> QED BY <1>1, <1>2, <1>3, <1>4, <1>5, <1>6, <1>7 DEF AgentNext, Mishap

\* active_worker names the job of the claimed attempt from its registration to
\* its release.
LEMMA ActiveRowStep == AgentTyped /\ ActiveRow /\ AgentNext => ActiveRow'
<1> SUFFICES ASSUME AgentTyped, ActiveRow, AgentNext, loop'.pc \in Registered
             PROVE  active'.job = loop'.id[1] /\ loop'.id[1] \in DOMAIN jobs'
  BY DEF ActiveRow
<1>a. ASSUME loop.pc \in Registered, loop'.id = loop.id, active'.job = active.job
      PROVE  active'.job = loop'.id[1] /\ loop'.id[1] \in DOMAIN jobs'
  BY <1>a, ActiveRowStays DEF ActiveRow
<1>b. ASSUME NEW pc, loop' = Resting(pc) PROVE pc \in Registered
  BY <1>b DEF Resting
<1>c. ~ Trouble /\ ~ Release /\ loop' # Resting("halting") /\ loop' # Resting("down") /\ loop' # Resting("booting")
  BY <1>b DEF Trouble, Release, Registered, Holding
<1>d. ASSUME NEW out, Ended(out) PROVE loop'.id = loop.id
  BY <1>d DEF Ended, AgentTyped, LoopTyped
<1>f. ASSUME NEW r \in BOOLEAN, FailAttempt(r) PROVE loop'.id = loop.id /\ active' = active
  BY <1>f, <1>c DEF FailAttempt, AgentTyped, LoopTyped
<1>e. ASSUME NEW pc, loop' = [loop EXCEPT !.pc = pc] \/ \E out : loop' = [loop EXCEPT !.pc = pc, !.out = out]
      PROVE  loop'.id = loop.id
  BY <1>e DEF AgentTyped, LoopTyped
<1>1. CASE LoopStands
  <2>1. loop' = loop
    BY <1>1, LoopStandsStill DEF SupervisorAsks
  <2>2. active'.job = active.job
    <3>1. CASE Handlers \/ Threads
      <4>1. ASSUME NEW j, CancelAndSignal(j) PROVE active'.job = active.job
        BY <4>1 DEF CancelAndSignal, AgentTyped, BooksTyped
      <4> QED BY <3>1, <4>1 DEF Handlers, SubmitJob, CancelQueued, CancelRunning, Delete, RetryBegin,
             RetryFixture, Pause, Threads, Pass, Scan, Settle, CancelThread, CancelFence, CancelAct,
             RetryReturns, RetryAct, agentVars
    <3>2. CASE SupervisorAsks \/ Stop
      BY <3>2 DEF SupervisorAsks, Stop
    <3>3. ASSUME NEW w \in Id, Work(w) \/ WorkerDies(w) \/ \E m \in Terminal : WorkerErrs(w, m)
          PROVE  active' = active
      BY <3>3, ProcessMoves DEF processVars
    <3> QED BY <1>1, <3>1, <3>2, <3>3 DEF LoopStands
  <2> QED BY <1>a, <2>1, <2>2
<1>2. ASSUME NEW j \in Job, ClaimJob(j) PROVE FALSE
  BY <1>2 DEF ClaimJob, Registered
<1>3. CASE Register
  BY <1>3, <1>c DEF Register, AgentTyped, LoopTyped, Me, storeVars
<1>4. CASE Launch
  BY <1>4, <1>a, <1>e DEF Launch, Registered, Holding
<1>5. CASE SupervisorForces \/ SupervisorTimesOut \/ SupervisorMourns
  BY <1>5, <1>a, <1>d DEF SupervisorForces, SupervisorTimesOut, SupervisorMourns, Registered, Holding
<1>6. CASE SupervisorReads
  BY <1>6, <1>a, <1>d DEF SupervisorReads, CommitProgress, Registered, Holding
<1>7. CASE Judge
  BY <1>7, <1>a, <1>c, <1>e, <1>f DEF Judge, Keep, Registered, Holding
<1>8. CASE Finalize
  BY <1>8, <1>a, <1>e DEF Finalize, Registered, Holding
<1>9. CASE Finish
  BY <1>9, <1>a, <1>c, <1>f DEF Finish, Registered, Holding
<1>10. CASE Reconciled \/ StoreBreaks \/ RecoverRows \/ TroubleAgain \/ LoopExits \/ Crash \/ Start
  BY <1>10, <1>c DEF Reconciled, StoreBreaks, RecoverRows, TroubleAgain, LoopExits, Crash, Start
<1> QED BY <1>1, <1>2, <1>3, <1>4, <1>5, <1>6, <1>7, <1>8, <1>9, <1>10
       DEF AgentNext, LoopStands, Loop, Supervisor, Mishap

\* Which steps leave an attempt under supervision, and which bring it there.
LEMMA SupervisionStep ==
  ASSUME AgentTyped, AgentNext, loop'.pc = "supervising"
  PROVE  \/ LoopStands
         \/ Launch
         \/ SupervisorReads /\ CommitProgress /\ Head(pipe) = "progress" /\ UNCHANGED <<loop, worker>>
<1>0. loop \in [pc : LoopPc, id : Id \cup {Nil}, out : Terminal \cup {Nil}]
  BY DEF AgentTyped, LoopTyped
<1>a. ASSUME NEW out, Ended(out) PROVE FALSE
  BY <1>0, <1>a DEF Ended
<1>b. ~ Trouble /\ ~ Release /\ loop' # Resting("halting") /\ loop' # Resting("down") /\ loop' # Resting("booting")
  BY DEF Trouble, Release, Resting
<1>f. ASSUME NEW r \in BOOLEAN, FailAttempt(r) PROVE FALSE
  BY <1>0, <1>b, <1>f DEF FailAttempt
<1>1. ~ Loop
  <2>1. ASSUME NEW j \in Job, ClaimJob(j) PROVE FALSE
    BY <2>1 DEF ClaimJob
  <2>2. ~ Register
    BY <1>0, <1>b DEF Register
  <2>3. ~ Judge
    BY <1>0, <1>b, <1>f DEF Judge, Keep
  <2>4. ~ Finalize
    BY <1>0 DEF Finalize
  <2>5. ~ Finish
    BY <1>b, <1>f DEF Finish
  <2>6. ~ Reconciled /\ ~ RecoverRows /\ ~ LoopExits
    BY <1>b DEF Reconciled, RecoverRows, LoopExits
  <2> QED BY <2>1, <2>2, <2>3, <2>4, <2>5, <2>6 DEF Loop
<1>2. ~ SupervisorForces /\ ~ SupervisorTimesOut /\ ~ SupervisorMourns
  BY <1>a DEF SupervisorForces, SupervisorTimesOut, SupervisorMourns
<1>3. ~ StoreBreaks /\ ~ TroubleAgain /\ ~ Crash /\ ~ Start
  BY <1>b DEF StoreBreaks, TroubleAgain, Crash, Start
<1>4. ASSUME SupervisorReads PROVE CommitProgress /\ Head(pipe) = "progress" /\ UNCHANGED <<loop, worker>>
  BY <1>4, <1>a DEF SupervisorReads, CommitProgress
<1> QED BY <1>1, <1>2, <1>3, <1>4 DEF AgentNext, LoopStands, Supervisor, Mishap

\* A message is written for a unit that is counted neither in the table nor in
\* the pipe, and read once.
LEMMA CountedStep == TypeOK /\ AgentTyped /\ ActiveRow /\ Counted /\ AgentNext => Counted'
<1> SUFFICES ASSUME TypeOK, AgentTyped, ActiveRow, Counted, AgentNext,
                    loop'.pc = "supervising", Running(loop.id[1], loop.id[2])'
             PROVE  Counted'
  BY DEF Counted
<1>0. worker \in [Id -> [pc : WorkerPc, kind : Kind \cup {Nil}, left : Nat, doomed : SUBSET Id]]
  BY DEF AgentTyped, ProcessTyped
<1>p. pipe \in Seq(Message)
  BY DEF AgentTyped, ProcessTyped, Message
<1>r. ASSUME Me \in DOMAIN jobs
      PROVE  /\ jobs[Me].completed \in Nat /\ jobs[Me].body.units \in Int
             /\ jobs[Me].completed =< jobs[Me].body.units
  <2>1. jobs[Me].body \in Body /\ jobs[Me].completed \in Nat /\ jobs[Me].completed =< jobs[Me].body.units
    BY <1>r DEF TypeOK, Row
  <2> QED BY <2>1, UnitsInteger
<1>1. CASE LoopStands
  <2>0. loop' = loop
    BY <1>1, LoopStandsStill DEF SupervisorAsks
  <2>1. loop.id \in Id
    BY <2>0 DEF AgentTyped, LoopTyped, Holding
  <2>a. ASSUME UNCHANGED <<worker, pipe>>, Running(Me, MyAttempt), jobs'[Me] = jobs[Me] PROVE Counted'
    BY <2>0, <2>a DEF Counted, Sum, Me, MyAttempt
  <2>2. CASE Handlers \/ Threads
    <3>1. UNCHANGED <<worker, pipe>>
      BY <2>2 DEF Handlers, SubmitJob, CancelQueued, CancelRunning, Delete, RetryBegin,
             RetryFixture, Pause, Threads, Pass, Scan, Settle, CancelThread, CancelFence, CancelAct,
             RetryReturns, RetryAct, agentVars, workerVars
    <3>2. Me \in DOMAIN jobs' /\ jobs'[Me].status = "running" /\ jobs'[Me].attempt = MyAttempt
      BY <2>0 DEF Running, Me, MyAttempt
    <3>3. Me \in DOMAIN jobs /\ jobs'[Me] = jobs[Me]
      BY <2>2, <3>2, QuietTable
    <3> QED BY <2>a, <3>1, <3>2, <3>3 DEF Running
  <2>3. CASE SupervisorAsks \/ Stop
    <3>1. UNCHANGED <<worker, pipe, jobs>>
      BY <2>3 DEF SupervisorAsks, Stop, storeVars, workerVars
    <3> QED BY <2>0, <2>a, <3>1 DEF Running, Me, MyAttempt
  <2>4. ASSUME NEW w \in Id, Work(w) \/ WorkerDies(w) \/ \E m \in Terminal : WorkerErrs(w, m)
        PROVE  Counted'
    <3>1. UNCHANGED jobs /\ Live(w) /\ Moves(w) /\ \A v \in Id \ {w} : worker'[v] = worker[v]
      BY <2>4, ProcessMoves DEF processVars, storeVars
    <3>2. Running(Me, MyAttempt) /\ jobs'[Me] = jobs[Me]
      BY <2>0, <3>1 DEF Running, Me, MyAttempt
    <3>3. CASE w # loop.id
      <4>1. pipe' = pipe /\ worker'[loop.id] = worker[loop.id]
        BY <2>1, <3>1, <3>3 DEF Moves, Linked
      <4> QED BY <2>0, <3>1, <3>2, <4>1 DEF Counted, Sum, Me, MyAttempt
    <3>4. CASE w = loop.id
      <4>1. Sum =< jobs[Me].body.units
        BY <2>0, <3>1, <3>2, <3>4 DEF Counted, Live, Me, MyAttempt
      <4>2. worker[w].left \in Nat /\ jobs[Me].completed \in Nat /\ jobs[Me].body.units \in Int
        BY <1>0, <1>r, <3>2 DEF Running
      <4>3. Len(pipe) \in Nat
        BY <1>p
      <4>4. Sum = jobs[Me].completed + worker[w].left + Len(pipe)
        BY <3>4 DEF Sum, Me
      <4>5. Sum' = jobs[Me].completed + worker'[w].left + Len(pipe')
        BY <2>0, <3>2, <3>4 DEF Sum, Me
      <4>6. CASE Sum' =< jobs[Me].body.units
        BY <2>0, <3>2, <4>6 DEF Counted, Me
      <4>7. CASE pipe' = pipe /\ worker'[w].left = worker[w].left
        BY <4>1, <4>4, <4>5, <4>6, <4>7, SMTT(30)
      <4>8. CASE pipe' = Append(pipe, "progress") /\ worker'[w].left = worker[w].left - 1
        <5>1. Len(pipe') = Len(pipe) + 1
          BY <1>p, <4>8 DEF Message
        <5>2. worker'[w].left = worker[w].left - 1
          BY <4>8
        <5>3. Sum' = jobs[Me].completed + (worker[w].left - 1) + (Len(pipe) + 1)
          BY <4>5, <5>1, <5>2, Zenon
        <5>4. Sum' = Sum
          BY <4>2, <4>3, <4>4, <5>3, SMTT(30)
        <5> QED BY <4>1, <4>6, <5>4, Zenon
      <4>9. ASSUME NEW m \in Terminal, pipe' = Append(pipe, m), worker'[w].left = worker[w].left,
                   worker'[w].pc = "gone"
            PROVE  Counted'
        <5>1. Len(pipe') = Len(pipe) + 1 /\ pipe'[Len(pipe')] = m
          BY <1>p, <4>9 DEF Message
        <5>2. Sum' = jobs[Me].completed + worker[w].left + (Len(pipe) + 1)
          BY <4>5, <4>9, <5>1, Zenon
        <5>3. Sum' =< jobs[Me].body.units + 1 /\ Len(pipe') > 0
          BY <4>1, <4>2, <4>3, <4>4, <5>1, <5>2, SMTT(30)
        <5> QED BY <2>0, <3>2, <3>4, <4>9, <5>1, <5>3, SMTT(30) DEF Counted, Me
      <4> QED BY <3>1, <4>7, <4>8, <4>9 DEF Moves
    <3> QED BY <3>3, <3>4
  <2> QED BY <1>1, <2>2, <2>3, <2>4 DEF LoopStands
<1>2. CASE Launch
  <2>1. /\ loop.pc = "dispatching" /\ loop.id \in Id /\ loop'.id = loop.id
        /\ worker'[loop.id].left = jobs[Me].body.units - jobs[Me].completed
        /\ pipe' = << >> /\ UNCHANGED jobs
    <3>1. loop.pc = "dispatching" /\ loop.id \in Id
      BY <1>2 DEF Launch, AgentTyped, LoopTyped, Holding
    <3>2. loop' = [loop EXCEPT !.pc = "supervising"]
      BY <1>2 DEF Launch, AgentTyped, LoopTyped
    <3>3. /\ worker' = [worker EXCEPT ![loop.id] =
                [pc |-> "starting", kind |-> jobs[Me].body.kind,
                 left |-> jobs[Me].body.units - jobs[Me].completed, doomed |-> {}]]
          /\ pipe' = << >> /\ UNCHANGED jobs
      BY <1>2 DEF Launch, storeVars, AgentTyped, LoopTyped
    <3>4. loop'.id = loop.id
      BY <3>2 DEF AgentTyped, LoopTyped
    <3>5. worker'[loop.id].left = jobs[Me].body.units - jobs[Me].completed
      BY <1>0, <3>1, <3>3
    <3> QED BY <3>1, <3>3, <3>4, <3>5
  <2>2. Me \in DOMAIN jobs
    BY <2>1 DEF ActiveRow, Registered, Holding, Me
  <2>3. Sum' = jobs[Me].completed + (jobs[Me].body.units - jobs[Me].completed) + 0
    BY <2>1 DEF Sum, Me
  <2>4. Sum' = jobs[Me].body.units
    BY <1>r, <2>2, <2>3
  <2>5. Sum' =< jobs'[Me].body.units
    BY <1>r, <2>1, <2>2, <2>4
  <2> QED BY <2>1, <2>5 DEF Counted, Me
<1>3. CASE SupervisorReads /\ CommitProgress /\ Head(pipe) = "progress" /\ UNCHANGED <<loop, worker>>
  <2>1. loop.pc = "supervising" /\ pipe # << >> /\ loop.id \in Id
    BY <1>3 DEF SupervisorReads, AgentTyped, LoopTyped, Holding
  <2>2. Running(Me, MyAttempt)
    BY <1>3 DEF CommitProgress, Running, Me, MyAttempt, storeVars
  <2>3. pipe' = Tail(pipe) /\ Len(pipe) \in Nat /\ Len(pipe) > 0 /\ Len(pipe') = Len(pipe) - 1
    BY <1>3, <1>p, <2>1, <2>2 DEF CommitProgress
  <2>4. jobs'[Me].completed = jobs[Me].completed + 1 /\ jobs'[Me].body = jobs[Me].body
    <3>1. Me \in DOMAIN jobs /\ jobs[Me] \in Row
      BY <2>2 DEF Running, TypeOK
    <3> QED BY ZenonT(30), <1>3, <2>2, <3>1 DEF CommitProgress, Progress, Step, SetRow, Row
  <2>5. worker[loop.id].left \in Nat /\ jobs[Me].completed \in Nat /\ jobs[Me].body.units \in Int
    BY <1>0, <1>r, <2>1, <2>2 DEF Running
  <2>6. /\ Sum = jobs[Me].completed + worker[loop.id].left + Len(pipe)
        /\ Sum' = jobs'[Me].completed + worker[loop.id].left + Len(pipe')
    BY <1>3 DEF Sum, Me
  <2>7. Sum' = Sum
    BY SMTT(30), <2>3, <2>4, <2>5, <2>6
  <2>8. CASE Sum =< jobs[Me].body.units
    BY <1>3, <2>4, <2>7, <2>8 DEF Counted, Me
  <2>9. CASE /\ Sum =< jobs[Me].body.units + 1
             /\ worker[loop.id].pc = "gone"
             /\ pipe[Len(pipe)] \in Terminal
    <3>1. Len(pipe) > 1
      <4>1. pipe[1] = "progress"
        BY <1>3, <1>p, <2>1
      <4> QED BY <2>3, <2>9, <4>1 DEF Terminal
    <3>2. Len(pipe') > 0 /\ pipe'[Len(pipe')] = pipe[Len(pipe)]
      BY <1>p, <2>1, <2>3, <3>1
    <3> QED BY <1>3, <2>4, <2>7, <2>9, <3>2 DEF Counted, Me
  <2> QED BY <2>1, <2>2, <2>8, <2>9 DEF Counted, Me, MyAttempt
<1> QED BY <1>1, <1>2, <1>3, SupervisionStep

-----------------------------------------------------------------------------
\* The invariant is preserved by every step.
LEMMA AgentInvStep == AgentInv /\ [AgentNext]_vars => AgentInv'
<1> SUFFICES ASSUME AgentInv, [AgentNext]_vars PROVE AgentInv'
  OBVIOUS
<1>1. StoreInv'
  <2>1. [Next]_storeVars
    BY UsesStore DEF AgentInv, StoreInv
  <2> QED BY <2>1, TypeStep, ActiveWorkStep, AliasStep, ResultStep DEF AgentInv, StoreInv
<1>2. CASE AgentNext
  BY <1>1, <1>2, LoopStep, BooksStep, ProcessStep, ActiveRowStep, CountedStep
     DEF AgentInv, StoreInv, AgentTyped
<1>3. CASE UNCHANGED vars
  <2>1. UNCHANGED <<storeVars, loop, stopping, active, gate, retrying, todo, cancelling, worker, pipe, asked, fence, run>>
    BY <1>3 DEF vars, agentVars
  <2>2. LoopTyped' /\ BooksTyped'
    BY <2>1 DEF AgentInv, AgentTyped, LoopTyped, BooksTyped
  <2>3. ProcessTyped'
    BY <2>1 DEF AgentInv, AgentTyped, ProcessTyped
  <2>4. ActiveRow' /\ Counted'
    BY <2>1 DEF AgentInv, ActiveRow, Counted, Sum, Running, storeVars
  <2> QED BY <1>1, <2>2, <2>3, <2>4 DEF AgentInv, AgentTyped
<1> QED BY <1>2, <1>3

\* What the store promises holds in the Agent, with the two promises it asks for.
THEOREM AgentInvariant == AgentSpec => []AgentInv
BY InitAgentInv, AgentInvStep, PTL DEF AgentSpec

\* The Agent reaches its table through the operations of the table only, and
\* never asks for one the table would refuse as impossible (a count beyond the
\* units of the job): whatever is proved of the table holds in the Agent, under
\* every fault.
THEOREM AgentImplementsStore == AgentSpec => Spec
<1>1. AgentInit => Init
  BY DEF AgentInit
<1>2. AgentInv /\ [AgentNext]_vars => [Next]_storeVars
  BY UsesStore DEF AgentInv, StoreInv
<1> QED BY <1>1, <1>2, AgentInvariant, PTL DEF AgentSpec, Spec

\* The state of the Agent keeps its types; in particular no worker reports more
\* units than its job had left.
THEOREM AgentTypes == AgentSpec => []AgentTypeOK
<1>1. AgentInv => AgentTypeOK
  <2> SUFFICES ASSUME AgentInv PROVE AgentTypeOK
    OBVIOUS
  <2>1. /\ loop \in [pc : LoopPc, id : Id \cup {Nil}, out : Terminal \cup {Nil}]
        /\ stopping \in BOOLEAN
        /\ active \in [job : Job \cup {Nil}, cancel : BOOLEAN]
        /\ gate \in {"free", "loop", "retry"}
        /\ retrying \in Job \cup {Nil}
        /\ cancelling \in [Job -> [pc : {"none", "claiming", "acting"}, attempt : 0 .. MaxAttempt]]
    BY DEF AgentInv, AgentTyped, LoopTyped, BooksTyped
  <2>2. \A who \in Reconciler : todo[who] = Unread \/ todo[who] \subseteq Id
    BY DEF AgentInv, AgentTyped, BooksTyped, Unread
  <2>3. \A w \in Id : worker[w].left \in Nat /\ worker[w].doomed \subseteq Id
    BY DEF AgentInv, AgentTyped, ProcessTyped
  <2>4. /\ pipe \in Seq(Terminal \cup {"progress"})
        /\ asked \in BOOLEAN
        /\ fence \in [Id -> {"none", "cancel", "commit"}]
        /\ run \in [Id -> {"none", "partial", "committed"}]
    BY DEF AgentInv, AgentTyped, ProcessTyped
  <2> QED BY <2>1, <2>2, <2>3, <2>4 DEF AgentTypeOK
<1> QED BY <1>1, AgentInvariant, PTL
-----------------------------------------------------------------------------
\* A worker that is past the fence has won it.
PastFence == \A w \in Id : worker[w].pc \in {"fenced", "sealing", "sealed"} => fence[w] = "commit"
FenceInv == RunHasFence /\ PastFence

\* No step seals a run, or goes on to seal one, without its fence.
LEMMA FenceInvStep == AgentTyped /\ FenceInv /\ AgentNext => FenceInv'
<1> SUFFICES ASSUME AgentTyped, FenceInv, AgentNext PROVE FenceInv'
  OBVIOUS
<1>0. worker \in [Id -> [pc : WorkerPc, kind : Kind \cup {Nil}, left : Nat, doomed : SUBSET Id]]
  BY DEF AgentTyped, ProcessTyped
<1>s. fence \in [Id -> {"none", "cancel", "commit"}] /\ run \in [Id -> {"none", "partial", "committed"}]
  BY DEF AgentTyped, ProcessTyped
<1> DEFINE Won == \A w \in Id : fence[w] = "commit" => fence'[w] = "commit"
           Past == {"fenced", "sealing", "sealed"}
           Sealed == \A w \in Id : run'[w] = "committed" => run[w] = "committed" \/ fence[w] = "commit"
           Passed == \A w \in Id : worker'[w].pc \in Past => worker[w].pc \in Past \/ fence'[w] = "commit"
<1>z. Won /\ Sealed /\ Passed => FenceInv'
  BY DEF FenceInv, RunHasFence, PastFence
<1>a. ASSUME NEW w \in Id, NEW pc, Becomes(w, pc), pc \notin Past PROVE Passed
  BY <1>0, <1>a DEF Becomes
<1>b. ASSUME NEW w \in Id, NEW m, Emits(w, m, "gone") PROVE Passed
  BY <1>0, <1>b, <1>a DEF Emits
<1>c. ASSUME NEW w \in Id, run' = Dropped(w) PROVE Sealed
  BY <1>s, <1>c DEF Dropped
<1>e. ASSUME loop.pc \in Holding, NEW out, Ended(out) PROVE Passed
  BY <1>0, <1>e DEF Ended, AgentTyped, LoopTyped
<1>u. UNCHANGED <<worker, fence, run>> => FenceInv'
  BY <1>z
<1>1. CASE Handlers \/ Loop \/ Start \/ StoreBreaks \/ TroubleAgain \/ Stop \/ SupervisorAsks
  <2>1. CASE Handlers
    BY <2>1, <1>u DEF Handlers, SubmitJob, CancelQueued, CancelRunning, Delete, RetryBegin, RetryFixture,
       Pause, agentVars, workerVars
  <2>2. CASE Loop
    BY <2>2, <1>u DEF Loop, ClaimJob, Register, Judge, Finalize, Finish, Reconciled, RecoverRows, LoopExits,
       workerVars
  <2>3. CASE Start \/ StoreBreaks \/ TroubleAgain \/ Stop \/ SupervisorAsks
    BY <2>3, <1>u DEF Start, StoreBreaks, TroubleAgain, Stop, SupervisorAsks, workerVars
  <2> QED BY <1>1, <2>1, <2>2, <2>3
<1>2. CASE Threads
  <2>1. ASSUME NEW j \in Job, CancelFence(j) PROVE FenceInv'
    <3>1. UNCHANGED <<worker, run>>
      BY <2>1 DEF CancelFence
    <3>2. Won
      BY <1>s, <2>1 DEF CancelFence
    <3> QED BY <3>1, <3>2, <1>z
  <2>2. CASE ~ \E j \in Job : CancelFence(j)
    BY <1>2, <2>2, <1>u DEF Threads, Pass, Scan, Settle, CancelThread, CancelAct, RetryReturns, RetryAct,
       workerVars
  <2> QED BY <2>1, <2>2
<1>3. CASE Launch
  <2>1. loop.id \in Id
    BY <1>3 DEF Launch, AgentTyped, LoopTyped, Holding
  <2>2. Passed
    BY <1>0, <1>3, <2>1 DEF Launch
  <2> QED BY <1>3, <2>2, <1>z DEF Launch
<1>4. CASE SupervisorForces \/ SupervisorTimesOut \/ SupervisorMourns
  <2>1. Passed
    BY <1>4, <1>e DEF SupervisorForces, SupervisorTimesOut, SupervisorMourns, Holding
  <2> QED BY <1>4, <2>1, <1>z DEF SupervisorForces, SupervisorTimesOut, SupervisorMourns
<1>5. CASE SupervisorReads
  <2>1. Passed
    BY <1>5, <1>e DEF SupervisorReads, CommitProgress, Holding
  <2> QED BY <1>5, <2>1, <1>z DEF SupervisorReads
<1>6. CASE Crash
  <2>1. Passed
    BY <1>0, <1>6 DEF Crash
  <2> QED BY <1>6, <2>1, <1>z DEF Crash
<1>7. ASSUME NEW w \in Id, Work(w) \/ WorkerDies(w) \/ \E m \in Terminal : WorkerErrs(w, m) PROVE FenceInv'
  <2>1. CASE WorkerStarts(w)
    <3>1. Passed
      BY <1>0, <2>1 DEF WorkerStarts
    <3> QED BY <2>1, <3>1, <1>z DEF WorkerStarts
  <2>2. CASE WorkerCleans(w)
    <3>1. Passed
      BY <1>0, <2>2 DEF WorkerCleans
    <3>2. Sealed
      BY <2>2 DEF WorkerCleans
    <3> QED BY <2>2, <3>1, <3>2, <1>z DEF WorkerCleans
  <2>3. CASE WorkerProgresses(w)
    <3>1. Passed
      BY <1>0, <1>a, <2>3 DEF WorkerProgresses
    <3> QED BY <2>3, <3>1, <1>z DEF WorkerProgresses
  <2>4. CASE WorkerObeys(w) \/ WorkerReports(w)
    BY <2>4, <1>b, <1>z DEF WorkerObeys, WorkerReports
  <2>5. CASE WorkerWrites(w)
    <3>1. Passed /\ Sealed
      BY <1>a, <1>s, <2>5 DEF WorkerWrites
    <3> QED BY <2>5, <3>1, <1>z DEF WorkerWrites
  <2>6. CASE WorkerReserves(w)
    <3>1. CASE fence' = [fence EXCEPT ![w] = "commit"] /\ Becomes(w, "fenced") /\ UNCHANGED run
      <4>1. Won /\ Sealed
        BY <1>s, <3>1
      <4>2. Passed
        BY <1>0, <1>s, <3>1 DEF Becomes
      <4> QED BY <4>1, <4>2, <1>z
    <3>2. CASE Emits(w, "cancelled", "gone") /\ run' = Dropped(w) /\ UNCHANGED fence
      BY <3>2, <1>b, <1>c, <1>z
    <3>3. CASE /\ fence' \in {fence, [fence EXCEPT ![w] = IF @ = "none" THEN "commit" ELSE @]}
               /\ Emits(w, "failed", "gone") /\ run' = Dropped(w)
      <4>1. Won
        BY <1>s, <3>3
      <4> QED BY <3>3, <4>1, <1>b, <1>c, <1>z
    <3> QED BY <2>6, <3>1, <3>2, <3>3 DEF WorkerReserves
  <2>7. CASE WorkerAnnounces(w)
    <3>1. Passed
      <4>1. CASE Becomes(w, "sealing")
        BY <1>0, <2>7, <4>1 DEF Becomes, WorkerAnnounces
      <4> QED BY <2>7, <4>1, <1>a DEF WorkerAnnounces
    <3>2. Sealed
      BY <2>7, <1>c DEF WorkerAnnounces
    <3> QED BY <2>7, <3>1, <3>2, <1>z DEF WorkerAnnounces
  <2>8. CASE WorkerSeals(w)
    <3>1. fence[w] = "commit"
      BY <2>8 DEF WorkerSeals, FenceInv, PastFence
    <3>2. Sealed
      BY <1>s, <2>8, <3>1 DEF WorkerSeals
    <3>3. Passed
      <4>1. CASE Becomes(w, "sealed")
        BY <1>0, <2>8, <4>1 DEF Becomes, WorkerSeals
      <4> QED BY <2>8, <4>1, <1>b DEF WorkerSeals
    <3> QED BY <2>8, <3>2, <3>3, <1>z DEF WorkerSeals
  <2>9. CASE WorkerDies(w)
    BY <2>9, <1>a, <1>z DEF WorkerDies
  <2>10. ASSUME NEW m \in Terminal, WorkerErrs(w, m) PROVE FenceInv'
    BY <2>10, <1>b, <1>c, <1>z DEF WorkerErrs
  <2> QED BY <1>7, <2>1, <2>2, <2>3, <2>4, <2>5, <2>6, <2>7, <2>8, <2>9, <2>10 DEF Work
<1> QED BY <1>1, <1>2, <1>3, <1>4, <1>5, <1>6, <1>7 DEF AgentNext, Supervisor, Mishap

\* Every run that is or may yet be sealed has won its fence, under every fault.
THEOREM AgentFence == AgentSpec => []FenceInv
<1>1. AgentInit => FenceInv
  BY DEF AgentInit, FenceInv, RunHasFence, PastFence, NoWorker
<1>2. AgentInv /\ FenceInv /\ [AgentNext]_vars => FenceInv'
  <2>1. FenceInv /\ UNCHANGED vars => FenceInv'
    BY DEF vars, agentVars, FenceInv, RunHasFence, PastFence
  <2> QED BY <2>1, FenceInvStep DEF AgentInv
<1> QED BY <1>1, <1>2, AgentInvariant, PTL DEF AgentSpec

\* Whatever crashes, is orphaned or fails, a run.json is only where its attempt
\* has won the fence against every cancellation.
THEOREM AgentRunHasFence == AgentSpec => []RunHasFence
BY AgentFence, PTL DEF FenceInv

-----------------------------------------------------------------------------
\* What RunningIsOwned needs to be inductive: an attempt in reconciliation is
\* not running any more.
Ending == Holding \ {"reconciling"}
Owned ==
  \A j \in DOMAIN jobs :
    jobs[j].status = "running" =>
      \/ loop.pc \in {"down", "booting"} \/ stopping
      \/ loop.pc \in Ending /\ loop.id = <<j, jobs[j].attempt>>

\* Without I/O errors no step leaves a running row behind.
LEMMA OwnedStep ==
  ASSUME "io" \notin Fault, TypeOK, AgentTyped, ActiveRow, Owned, AgentNext
  PROVE  Owned'
<1> SUFFICES ASSUME NEW j \in DOMAIN jobs', jobs'[j].status = "running",
                    loop'.pc \notin {"down", "booting"}, ~ stopping'
             PROVE  loop'.pc \in Ending /\ loop'.id = <<j, jobs'[j].attempt>>
  BY DEF Owned
<1> DEFINE Goal == loop'.pc \in Ending /\ loop'.id = <<j, jobs'[j].attempt>>
           Same == j \in DOMAIN jobs /\ jobs'[j] = jobs[j]
<1>0. loop \in [pc : LoopPc, id : Id \cup {Nil}, out : Terminal \cup {Nil}]
  BY DEF AgentTyped, LoopTyped
<1>b. ~ Start /\ ~ Crash
  BY DEF Start, Crash, Resting
<1>c. ~ stopping \/ Stop
  <2>1. ASSUME ~ Stop PROVE stopping' = stopping
    <3>1. CASE Handlers
      BY <3>1 DEF Handlers, SubmitJob, CancelQueued, CancelRunning, Delete, RetryBegin, RetryFixture,
         Pause, agentVars
    <3>2. CASE Threads
      BY <3>2 DEF Threads, Pass, Scan, Settle, CancelThread, CancelFence, CancelAct, RetryReturns, RetryAct
    <3>3. CASE Loop
      BY <3>3 DEF Loop, ClaimJob, Register, Judge, Finalize, Finish, Reconciled, RecoverRows, LoopExits
    <3>4. CASE Supervisor
      BY <3>4 DEF Supervisor, Launch, SupervisorAsks, SupervisorForces, SupervisorReads, SupervisorMourns
    <3>5. ASSUME NEW w \in Id, Work(w) \/ WorkerDies(w) \/ \E m \in Terminal : WorkerErrs(w, m)
          PROVE  stopping' = stopping
      BY <3>5, ProcessMoves DEF processVars
    <3>6. CASE SupervisorTimesOut \/ StoreBreaks \/ TroubleAgain
      BY <3>6 DEF SupervisorTimesOut, StoreBreaks, TroubleAgain
    <3> QED BY <1>b, <2>1, <3>1, <3>2, <3>3, <3>4, <3>5, <3>6 DEF AgentNext, Mishap
  <2> QED BY <2>1
<1>d. ~ Stop
  BY DEF Stop
<1>e. ~ stopping
  BY <1>c, <1>d
\* Mine: the row that was running before the step is the claimed one.
<1>m. ASSUME NEW i \in DOMAIN jobs, jobs[i].status = "running", loop.pc \notin {"down", "booting"}
      PROVE  loop.pc \in Ending /\ loop.id = <<i, jobs[i].attempt>> /\ i = Me /\ jobs[i].attempt = MyAttempt
  BY <1>e, <1>m DEF Owned, Me, MyAttempt
<1>k. ASSUME Same, loop'.id = loop.id, loop'.pc \in Ending, loop.pc \notin {"down", "booting"} PROVE Goal
  BY <1>k, <1>m
<1>n. ASSUME Same, loop.pc \notin {"down", "booting"} PROVE Me \in DOMAIN jobs /\ Running(Me, MyAttempt)
  BY <1>n, <1>m DEF Running
<1>s. ASSUME UNCHANGED storeVars PROVE Same
  BY <1>s DEF storeVars
<1>t. ASSUME NEW row, SetRow(Me, row), row.status # "running", Me \in DOMAIN jobs,
             loop.pc \notin {"down", "booting"}
      PROVE  FALSE
  <2>1. j # Me /\ Same
    BY <1>t DEF SetRow
  <2> QED BY <1>t, <2>1, <1>m
<1>f. ASSUME loop.pc \in Holding, NEW r \in BOOLEAN, FailAttempt(r) PROVE FALSE
  <2>1. CASE Fail(Me, MyAttempt, r)
    <3>1. Me \in DOMAIN jobs /\ jobs[Me] \in Row
      BY <2>1 DEF Fail, Running, TypeOK
    <3>2. [jobs[Me] EXCEPT !.status = "failed", !.recoverable = r].status # "running"
      BY <3>1 DEF Row
    <3> QED BY <1>f, <2>1, <3>1, <3>2, <1>t DEF Fail, Holding
  <2>2. CASE ~ Running(Me, MyAttempt) /\ UNCHANGED storeVars
    BY <1>f, <2>2, <1>s, <1>n DEF Holding
  <2> QED BY <1>f, <2>1, <2>2 DEF FailAttempt
<1>g. ASSUME NEW out, Ended(out), loop.pc \in Ending, Same PROVE Goal
  <2>1. loop'.id = loop.id /\ loop'.pc = "judging"
    BY <1>0, <1>g DEF Ended
  <2> QED BY <1>g, <2>1, <1>k DEF Ending, Holding
<1>1. CASE LoopStands
  <2>1. loop' = loop
    BY <1>1, LoopStandsStill DEF SupervisorAsks
  <2>2. Same
    <3>1. CASE Handlers \/ Threads
      BY <3>1, QuietTable
    <3>2. CASE SupervisorAsks \/ Stop
      BY <3>2, <1>s DEF SupervisorAsks, Stop
    <3>3. ASSUME NEW w \in Id, Work(w) \/ WorkerDies(w) \/ \E m \in Terminal : WorkerErrs(w, m)
          PROVE  Same
      BY <3>3, <1>s, ProcessMoves DEF processVars
    <3> QED BY <1>1, <3>1, <3>2, <3>3 DEF LoopStands
  <2>3. loop.pc \notin {"down", "booting"}
    BY <2>1
  <2>4. loop.pc \in Ending /\ loop.id = <<j, jobs[j].attempt>>
    BY <1>m, <2>2, <2>3
  <2> QED BY <2>1, <2>2, <2>4
<1>2. ASSUME NEW i \in Job, ClaimJob(i) PROVE Goal
  <2>1. loop.pc = "idle" /\ i \in DOMAIN jobs
    BY <1>2 DEF ClaimJob, Claim, Queued
  <2>2. j = i
    <3>1. j # i => Same
      BY <1>2 DEF ClaimJob, Claim, SetRow
    <3> QED BY <2>1, <3>1, <1>m DEF Ending, Holding
  <2>3. jobs'[i].attempt = jobs[i].attempt + 1
    <3>1. jobs[i] \in Row
      BY <2>1 DEF TypeOK
    <3> QED BY <1>2, <2>1, <3>1 DEF ClaimJob, Claim, SetRow, Row
  <2> QED BY <1>2, <2>2, <2>3 DEF ClaimJob, Ending, Holding
<1>3. CASE Register
  <2>1. Same /\ loop.pc = "claimed"
    BY <1>3, <1>s DEF Register
  <2>2. Me \in DOMAIN jobs /\ jobs[Me].status = "running"
    BY <2>1, <1>n DEF Running
  <2>3. loop' = [loop EXCEPT !.pc = "dispatching"]
    BY <1>3, <2>2 DEF Register
  <2>4. loop'.pc = "dispatching" /\ loop'.id = loop.id
    BY <1>0, <2>3
  <2> QED BY <2>1, <2>4, <1>k DEF Ending, Holding
<1>4. CASE Launch
  <2>1. loop'.id = loop.id /\ loop'.pc \in {"judging", "supervising"} /\ loop.pc = "dispatching"
    BY <1>0, <1>4 DEF Launch
  <2> QED BY <1>4, <2>1, <1>k, <1>s DEF Launch, Ending, Holding
<1>5. CASE SupervisorForces \/ SupervisorTimesOut \/ SupervisorMourns
  <2>1. Same /\ loop.pc \in Ending
    BY <1>5, <1>s DEF SupervisorForces, SupervisorTimesOut, SupervisorMourns, Ending, Holding
  <2> QED BY <1>5, <2>1, <1>g DEF SupervisorForces, SupervisorTimesOut, SupervisorMourns
<1>6. CASE SupervisorReads
  <2>0. loop.pc \in Ending
    BY <1>6 DEF SupervisorReads, Ending, Holding
  <2>1. CASE UNCHANGED storeVars /\ \E out \in Terminal : Ended(out)
    BY <2>0, <2>1, <1>g, <1>s
  <2>2. CASE UNCHANGED storeVars /\ UNCHANGED loop
    BY <2>0, <2>2, <1>k, <1>s DEF Ending, Holding
  <2>3. CASE Running(Me, MyAttempt) /\ CommitProgress
    <3>1. Me \in DOMAIN jobs /\ jobs[Me] \in Row /\ jobs[Me].attempt = MyAttempt /\ loop' = loop
      BY <2>3 DEF CommitProgress, Running, TypeOK
    <3>2. CASE j = Me
      <4>1. jobs'[Me].attempt = jobs[Me].attempt
        BY ZenonT(30), <2>3, <3>1 DEF CommitProgress, Progress, Step, SetRow, Row
      <4>2. loop.id = <<Me, MyAttempt>>
        BY <2>0, MineIsAnAttempt DEF Ending, Holding
      <4> QED BY <2>0, <3>1, <3>2, <4>1, <4>2
    <3>3. CASE j # Me
      <4>1. Same
        BY <2>3, <3>3 DEF CommitProgress, Progress, Step, SetRow
      <4> QED BY <2>0, <3>1, <4>1, <1>k DEF Ending, Holding
    <3> QED BY <3>2, <3>3
  <2> QED BY <1>6, <2>1, <2>2, <2>3 DEF SupervisorReads, CommitProgress, Terminal
<1>7. CASE Judge
  <2>0. loop.pc = "judging" /\ Me \in DOMAIN jobs
    BY <1>7 DEF Judge, ActiveRow, Registered, Holding, Me
  <2>1. ASSUME Keep, jobs[Me].status # "running" PROVE FALSE
    BY <2>0, <2>1, <1>s, <1>n DEF Keep, Running
  <2>2. CASE loop' = [loop EXCEPT !.pc = "finalizing"] /\ UNCHANGED storeVars
    <3>1. loop'.id = loop.id /\ loop'.pc = "finalizing"
      BY <1>0, <2>2
    <3> QED BY <2>0, <2>2, <3>1, <1>k, <1>s DEF Ending, Holding
  <2>3. ~ Cancel(Me)
    <3>1. jobs[Me] \in Row
      BY <2>0 DEF TypeOK
    <3>2. [jobs[Me] EXCEPT !.status = "cancelled", !.recoverable = TRUE].status # "running"
      BY <3>1 DEF Row
    <3> QED BY <2>0, <3>2, <1>t DEF Cancel
  <2>4. ASSUME NEW r \in BOOLEAN, FailAttempt(r) PROVE FALSE
    BY <2>0, <2>4, <1>f DEF Holding
  <2> QED BY <1>7, <1>e, <2>1, <2>2, <2>3, <2>4 DEF Judge
<1>8. CASE Finalize
  <2>1. loop'.id = loop.id /\ loop'.pc \in {"completing", "judging"}
    BY <1>0, <1>8 DEF Finalize
  <2> QED BY <1>8, <2>1, <1>k, <1>s DEF Finalize, Ending, Holding
<1>9. CASE Finish
  <2>0. loop.pc = "completing"
    BY <1>9 DEF Finish
  <2>1. CASE Complete(Me, MyAttempt)
    <3>1. Me \in DOMAIN jobs /\ jobs[Me] \in Row
      BY <2>1 DEF Complete, Running, TypeOK
    <3>2. [jobs[Me] EXCEPT !.status = "succeeded", !.result = MyAttempt].status # "running"
      BY <3>1 DEF Row
    <3> QED BY <2>0, <2>1, <3>1, <3>2, <1>t DEF Complete
  <2> QED BY <1>9, <2>0, <2>1, <1>f DEF Finish, Holding
<1>10. CASE RecoverRows
  <2>1. \A i \in DOMAIN jobs : jobs[i] \in Row
    BY DEF TypeOK
  <2>2. j \in DOMAIN jobs /\ jobs'[j].status # "running"
    BY <1>10, <2>1 DEF RecoverRows, Recover, Row
  <2> QED BY <2>2
<1>11. CASE Reconciled
  BY <1>11, <1>m, <1>s DEF Reconciled, Ending
<1>12. CASE LoopExits \/ StoreBreaks \/ TroubleAgain
  BY <1>12, <1>e DEF LoopExits, StoreBreaks, TroubleAgain
<1> QED BY <1>b, <1>1, <1>2, <1>3, <1>4, <1>5, <1>6, <1>7, <1>8, <1>9, <1>10, <1>11, <1>12
       DEF AgentNext, LoopStands, Loop, Supervisor, Mishap

\* If no operation on the store or the files fails, no row is left running with
\* nobody to end it, whatever is cancelled, removed, retried or reconciled while
\* the attempt runs, and across crashes and stops.
THEOREM AgentRunningIsOwned == "io" \notin Fault /\ AgentSpec => []RunningIsOwned
<1> SUFFICES ASSUME "io" \notin Fault PROVE AgentSpec => []RunningIsOwned
  OBVIOUS
<1>1. AgentInit => Owned
  BY DEF AgentInit, Owned, Resting
<1>2. AgentInv /\ Owned /\ [AgentNext]_vars => Owned'
  <2>1. Owned /\ UNCHANGED vars => Owned'
    BY DEF vars, agentVars, storeVars, Owned
  <2> QED BY <2>1, OwnedStep DEF AgentInv, StoreInv
<1>3. Owned => RunningIsOwned
  BY DEF Owned, RunningIsOwned
<1> QED BY <1>1, <1>2, <1>3, AgentInvariant, PTL DEF AgentSpec
-----------------------------------------------------------------------------
AliveLinked == \A w \in Id : Live(w) => Linked(w)

\* Without orphans no step leaves a live worker unsupervised.
LEMMA AliveStep ==
  ASSUME "orphan" \notin Fault, AgentTyped, AliveLinked, AgentNext
  PROVE  AliveLinked'
<1>0. worker \in [Id -> [pc : WorkerPc, kind : Kind \cup {Nil}, left : Nat, doomed : SUBSET Id]]
  BY DEF AgentTyped, ProcessTyped
<1>1. loop \in [pc : LoopPc, id : Id \cup {Nil}, out : Terminal \cup {Nil}]
  BY DEF AgentTyped, LoopTyped
<1>a. ASSUME UNCHANGED loop, \A w \in Id : Live(w)' => Live(w) PROVE AliveLinked'
  BY <1>a DEF AliveLinked, Linked
<1>b. ASSUME loop.pc # "supervising", UNCHANGED worker PROVE AliveLinked'
  BY <1>b DEF AliveLinked, Linked, Live
<1>e. ASSUME NEW out, Ended(out), loop.pc \in Holding PROVE AliveLinked'
  <2>1. loop.id \in Id
    BY <1>e DEF AgentTyped, LoopTyped
  <2>2. \A w \in Id : ~ Live(w)'
    BY <1>0, <1>e, <2>1 DEF Ended, AliveLinked, Linked, Live
  <2> QED BY <2>2 DEF AliveLinked
<1>2. CASE LoopStands
  <2>1. loop' = loop
    BY <1>2, LoopStandsStill DEF SupervisorAsks
  <2>2. CASE Handlers \/ Threads \/ SupervisorAsks \/ Stop
    <3>1. worker' = worker
      BY <2>2 DEF Handlers, SubmitJob, CancelQueued, CancelRunning, Delete, RetryBegin,
             RetryFixture, Pause, Threads, Pass, Scan, Settle, CancelThread, CancelFence, CancelAct,
             RetryReturns, RetryAct, SupervisorAsks, Stop, agentVars, workerVars
    <3> QED BY <2>1, <3>1, <1>a DEF Live
  <2>3. ASSUME NEW w \in Id, Work(w) \/ WorkerDies(w) \/ \E m \in Terminal : WorkerErrs(w, m)
        PROVE  AliveLinked'
    <3>1. Live(w) /\ \A v \in Id \ {w} : worker'[v] = worker[v]
      BY <2>3, ProcessMoves
    <3> QED BY <2>1, <3>1, <1>a DEF Live
  <2> QED BY <1>2, <2>2, <2>3 DEF LoopStands
<1>3. CASE Launch
  <2>1. loop.pc = "dispatching" /\ loop.id \in Id
    BY <1>3 DEF Launch, AgentTyped, LoopTyped, Holding
  <2>2. CASE UNCHANGED worker
    BY <2>1, <2>2, <1>b
  <2>3. CASE ~ UNCHANGED worker
    <3>1. loop' = [loop EXCEPT !.pc = "supervising"] /\ \A w \in Id \ {loop.id} : worker'[w] = worker[w]
      BY <1>0, <1>3, <2>3 DEF Launch
    <3>2. loop'.pc = "supervising" /\ loop'.id = loop.id
      BY <1>1, <3>1
    <3>3. \A w \in Id \ {loop.id} : ~ Live(w)'
      BY <2>1, <3>1 DEF AliveLinked, Linked, Live
    <3> QED BY <3>2, <3>3 DEF AliveLinked, Linked
  <2> QED BY <2>2, <2>3
<1>4. CASE SupervisorForces \/ SupervisorTimesOut \/ SupervisorMourns
  BY <1>4, <1>e DEF SupervisorForces, SupervisorTimesOut, SupervisorMourns, Holding
<1>5. CASE SupervisorReads
  BY <1>5, <1>a, <1>e DEF SupervisorReads, CommitProgress, Holding, Live
<1>6. CASE Loop \/ Start \/ StoreBreaks \/ TroubleAgain
  BY <1>6, <1>b DEF Loop, ClaimJob, Register, Judge, Finalize, Finish, Reconciled, RecoverRows, LoopExits,
     Start, StoreBreaks, TroubleAgain, workerVars, Reconciling
<1>7. CASE Crash
  BY <1>0, <1>7 DEF Crash, AliveLinked, Live
<1> QED BY <1>2, <1>3, <1>4, <1>5, <1>6, <1>7 DEF AgentNext, LoopStands, Supervisor, Mishap

\* If no worker process outlives its Agent, a live worker is the one that is
\* supervised, and its row stays in the table until it has ended.
THEOREM AgentWorkerIsGuarded == "orphan" \notin Fault /\ AgentSpec => []WorkerIsGuarded
<1> SUFFICES ASSUME "orphan" \notin Fault PROVE AgentSpec => []WorkerIsGuarded
  OBVIOUS
<1>1. AgentInit => AliveLinked
  BY DEF AgentInit, AliveLinked, NoWorker, Live
<1>2. AgentInv /\ AliveLinked /\ [AgentNext]_vars => AliveLinked'
  <2>1. AliveLinked /\ UNCHANGED vars => AliveLinked'
    BY DEF vars, agentVars, AliveLinked, Live, Linked
  <2> QED BY <2>1, AliveStep DEF AgentInv
<1>3. AgentInv /\ AliveLinked => WorkerIsGuarded
  BY DEF AgentInv, ActiveRow, AliveLinked, Linked, WorkerIsGuarded, Registered, Holding
<1> QED BY <1>1, <1>2, <1>3, AgentInvariant, PTL DEF AgentSpec

-----------------------------------------------------------------------------
(***************************************************************************)
(* Proof of FenceArbitrates, the promise of the attempt fence to the queue *)
(* of the Agent, under every fault and for every set of jobs.  Who cancels *)
(* a running row has either won the fence of the attempt it asked about,   *)
(* or answers a signal that was set when the row was cancelled already.    *)
(* The invariant ArbInv relates the table, the handlers, the queue worker, *)
(* the pipe, the processes and the fence.                                  *)
(***************************************************************************)

\* An attempt that has been claimed, on a row of the table or of a receipt.
Known(w) ==
  \/ w[1] \in DOMAIN receipts
  \/ w[1] \in DOMAIN jobs /\ w[2] =< jobs[w[1]].attempt

Tried == \A j \in DOMAIN jobs : jobs[j].status = "running" => jobs[j].attempt \in Attempt

\* No attempt has a second worker, and a worker does the work of its row.
WorkersKnown ==
  \A w \in Id : worker[w].pc # "none" =>
    Known(w) /\ (w[1] \in DOMAIN jobs => worker[w].kind = jobs[w[1]].body.kind)
Written == {"written", "fenced", "sealing", "sealed"}
CraigFenced ==
  \A w \in Id : worker[w].pc \in Written \/ fence[w] = "commit" =>
    worker[w].pc # "none" /\ worker[w].kind = "craig"
HeldKnown ==
  /\ loop.pc \in Holding =>
       Known(loop.id) /\ (Me \in DOMAIN jobs => jobs[Me].attempt = MyAttempt)
  /\ loop.pc \in {"claimed", "dispatching"} => worker[loop.id].pc = "none"
  /\ loop.pc = "supervising" => worker[loop.id].pc # "none"
HandlersFenced ==
  \A j \in Job :
    /\ cancelling[j].pc # "none" => cancelling[j].attempt \in Attempt
    /\ cancelling[j].pc = "acting" => fence[<<j, cancelling[j].attempt>>] = "cancel"

\* A signal follows a cancellation; "cancelled" follows a signal or the fence.
SignalTrue == loop.pc \in Registered /\ active.cancel => jobs[Me].status # "running"
AskedTrue == loop.pc = "supervising" /\ asked => IsCancelled
ToldTrue ==
  loop.pc = "supervising" =>
    \A i \in 1 .. Len(pipe) : pipe[i] = "cancelled" => asked \/ fence[loop.id] = "cancel"
OutTrue ==
  loop.pc = "judging" /\ loop.out = "cancelled" => IsCancelled \/ fence[loop.id] = "cancel"

\* What the operations of the table keep of the attempts that are known.
LEMMA KnownStays ==
  ASSUME TypeOK, [Next]_storeVars, NEW w \in Id, Known(w)
  PROVE  Known(w)' /\ (w[1] \in DOMAIN jobs' => w[1] \in DOMAIN jobs /\ jobs'[w[1]].body = jobs[w[1]].body)
<1> DEFINE Goal == Known(w)' /\ (w[1] \in DOMAIN jobs' => w[1] \in DOMAIN jobs /\ jobs'[w[1]].body = jobs[w[1]].body)
<1>0. \A j \in DOMAIN jobs : jobs[j] \in Row /\ jobs[j].attempt \in Int
  BY DEF TypeOK, Row
<1>a. ASSUME NEW j \in DOMAIN jobs, NEW row, SetRow(j, row), receipts' = receipts,
             row.body = jobs[j].body, row.attempt = jobs[j].attempt \/ row.attempt = jobs[j].attempt + 1
      PROVE  Goal
  <2>1. DOMAIN jobs' = DOMAIN jobs /\ \A i \in DOMAIN jobs : jobs'[i].body = jobs[i].body
    BY <1>a DEF SetRow
  <2>2. \A i \in DOMAIN jobs : jobs'[i].attempt = jobs[i].attempt \/ jobs'[i].attempt = jobs[i].attempt + 1
    BY <1>a DEF SetRow
  <2>3. CASE w[1] \in DOMAIN receipts
    BY <1>a, <2>1, <2>3 DEF Known
  <2>4. CASE w[1] \in DOMAIN jobs /\ w[2] =< jobs[w[1]].attempt
    <3>1. w[2] =< jobs'[w[1]].attempt
      <4>1. w[2] \in Int /\ jobs[w[1]].attempt \in Int
        BY <1>0, <2>4, BoundAssumption DEF Id, Attempt
      <4> QED BY <2>2, <2>4, <4>1
    <3> QED BY <2>1, <2>4, <3>1 DEF Known
  <2> QED BY <2>3, <2>4 DEF Known
<1>1. ASSUME NEW k \in Key, NEW b \in Body, NEW j \in Job, NEW t \in 0 .. MaxClock, Submit(k, b, j, t)
      PROVE  Goal
  BY <1>1 DEF Submit, With, Known
<1>2. CASE (\E k \in Key, b \in Body, j \in Job : SubmitReuse(k, b, j)) \/ (\E p \in BOOLEAN : SetPaused(p))
           \/ UNCHANGED storeVars
  BY <1>2 DEF SubmitReuse, SetPaused, storeVars, Known
<1>3. ASSUME NEW j \in Job, Cancel(j) PROVE Goal
  BY <1>0, <1>3, <1>a DEF Cancel, Active, Row
<1>4. ASSUME NEW j \in Job, Claim(j) PROVE Goal
  BY <1>0, <1>4, <1>a DEF Claim, Queued, Row
<1>5. ASSUME NEW j \in Job, Remove(j) PROVE Goal
  BY <1>5 DEF Remove, With, Without, Restrict, Known
<1>6. ASSUME NEW j \in Job, NEW t \in 0 .. MaxClock, Retry(j, t) PROVE Goal
  BY <1>0, <1>6, <1>a DEF Retry, Retriable, Row
<1>7. ASSUME NEW j \in Job, NEW a \in Attempt, Report(j, a) PROVE Goal
  <2>1. ASSUME NEW completed, NEW total, Progress(j, a, completed, total) PROVE Goal
    BY <1>0, <2>1, <1>a DEF Progress, Running, Row
  <2>2. CASE Complete(j, a)
    BY <1>0, <2>2, <1>a DEF Complete, Running, Row
  <2>3. CASE CompleteRecovered(j, a)
    BY <1>0, <2>3, <1>a DEF CompleteRecovered, Unsettled, Row
  <2>4. CASE Step(j, a)
    BY <1>0, <2>4, <1>a DEF Step, Running, Row
  <2>5. ASSUME NEW r \in BOOLEAN, Fail(j, a, r) PROVE Goal
    BY <1>0, <2>5, <1>a DEF Fail, Running, Row
  <2> QED BY <1>7, <2>1, <2>2, <2>3, <2>4, <2>5 DEF Report
<1>8. CASE Recover
  <2>1. receipts' = receipts /\ DOMAIN jobs' = DOMAIN jobs
    BY <1>8 DEF Recover
  <2>2. \A i \in DOMAIN jobs : jobs'[i].attempt = jobs[i].attempt /\ jobs'[i].body = jobs[i].body
    BY <1>0, <1>8 DEF Recover, Row
  <2> QED BY <2>1, <2>2 DEF Known
<1> QED BY <1>1, <1>2, <1>3, <1>4, <1>5, <1>6, <1>7, <1>8 DEF Next

\* A row changes its attempt, or comes to run, by a claim only.
LEMMA ClaimStarts ==
  ASSUME TypeOK, [Next]_storeVars, NEW j \in DOMAIN jobs, j \in DOMAIN jobs'
  PROVE  \/ Claim(j)
         \/ /\ jobs'[j].attempt = jobs[j].attempt
            /\ jobs'[j].status = "running" => jobs[j].status = "running"
<1> DEFINE Goal == Claim(j) \/ (jobs'[j].attempt = jobs[j].attempt
                                /\ (jobs'[j].status = "running" => jobs[j].status = "running"))
<1>0. \A i \in DOMAIN jobs : jobs[i] \in Row
  BY DEF TypeOK
<1>a. ASSUME NEW i \in DOMAIN jobs, NEW row, SetRow(i, row), row.attempt = jobs[i].attempt,
             row.status = "running" => jobs[i].status = "running"
      PROVE  Goal
  BY <1>a DEF SetRow
<1>1. ASSUME NEW k \in Key, NEW b \in Body, NEW i \in Job, NEW t \in 0 .. MaxClock, Submit(k, b, i, t)
      PROVE  Goal
  BY <1>1 DEF Submit, With
<1>2. CASE (\E k \in Key, b \in Body, i \in Job : SubmitReuse(k, b, i)) \/ (\E p \in BOOLEAN : SetPaused(p))
           \/ UNCHANGED storeVars
  BY <1>2 DEF SubmitReuse, SetPaused, storeVars
<1>3. ASSUME NEW i \in Job, Cancel(i) PROVE Goal
  BY <1>0, <1>3, <1>a DEF Cancel, Active, Row
<1>4. ASSUME NEW i \in Job, Claim(i) PROVE Goal
  BY <1>4 DEF Claim, SetRow
<1>5. ASSUME NEW i \in Job, Remove(i) PROVE Goal
  BY <1>5 DEF Remove, Without, Restrict
<1>6. ASSUME NEW i \in Job, NEW t \in 0 .. MaxClock, Retry(i, t) PROVE Goal
  BY <1>0, <1>6, <1>a DEF Retry, Retriable, Row
<1>7. ASSUME NEW i \in Job, NEW a \in Attempt, Report(i, a) PROVE Goal
  <2>1. ASSUME NEW completed, NEW total, Progress(i, a, completed, total) PROVE Goal
    BY <1>0, <2>1, <1>a DEF Progress, Running, Row
  <2>2. CASE Complete(i, a)
    BY <1>0, <2>2, <1>a DEF Complete, Running, Row
  <2>3. CASE CompleteRecovered(i, a)
    BY <1>0, <2>3, <1>a DEF CompleteRecovered, Unsettled, Row
  <2>4. CASE Step(i, a)
    BY <1>0, <2>4, <1>a DEF Step, Running, Row
  <2>5. ASSUME NEW r \in BOOLEAN, Fail(i, a, r) PROVE Goal
    BY <1>0, <2>5, <1>a DEF Fail, Running, Row
  <2> QED BY <1>7, <2>1, <2>2, <2>3, <2>4, <2>5 DEF Report
<1>8. CASE Recover
  BY <1>0, <1>8 DEF Recover, Row
<1> QED BY <1>1, <1>2, <1>3, <1>4, <1>5, <1>6, <1>7, <1>8 DEF Next

\* A row that is submitted waits in the queue.
LEMMA NewRowsWait ==
  ASSUME [Next]_storeVars, NEW j \in DOMAIN jobs', j \notin DOMAIN jobs
  PROVE  jobs'[j].status = "queued"
<1>a. ASSUME NEW i, NEW row, SetRow(i, row) PROVE FALSE
  BY <1>a DEF SetRow
<1>1. ASSUME NEW k \in Key, NEW b \in Body, NEW i \in Job, NEW t \in 0 .. MaxClock, Submit(k, b, i, t)
      PROVE  jobs'[j].status = "queued"
  BY <1>1 DEF Submit, With, NewRow
<1>2. CASE (\E k \in Key, b \in Body, i \in Job : SubmitReuse(k, b, i)) \/ (\E p \in BOOLEAN : SetPaused(p))
           \/ UNCHANGED storeVars \/ Recover
  BY <1>2 DEF SubmitReuse, SetPaused, Recover, storeVars
<1>3. ASSUME NEW i \in Job, Cancel(i) \/ Claim(i) \/ Remove(i) \/ \E t \in 0 .. MaxClock : Retry(i, t)
      PROVE  FALSE
  BY <1>3, <1>a DEF Cancel, Claim, Remove, Retry, Without, Restrict
<1>4. ASSUME NEW i \in Job, NEW a \in Attempt, Report(i, a) PROVE FALSE
  BY <1>4, <1>a DEF Report, Progress, Complete, CompleteRecovered, Step, Fail
<1> QED BY <1>1, <1>2, <1>3, <1>4 DEF Next

\* While the queue worker holds an attempt nothing is claimed.
LEMMA OnlyIdleClaims ==
  ASSUME TypeOK, AgentTyped, AgentNext, loop.pc # "idle", NEW j \in DOMAIN jobs
  PROVE  ~ Claim(j)
<1> SUFFICES ASSUME Claim(j) PROVE FALSE
  OBVIOUS
<1>0. \A i \in DOMAIN jobs : jobs[i] \in Row
  BY DEF TypeOK
<1>1. j \in DOMAIN jobs' /\ jobs[j].status = "queued" /\ jobs'[j].status = "running"
  BY <1>0 DEF Claim, Queued, SetRow, Row
<1>s. ~ UNCHANGED jobs
  BY <1>1
<1>a. ASSUME NEW i \in DOMAIN jobs, NEW row, SetRow(i, row), row.status # "running" \/ jobs[i].status = "running"
      PROVE  FALSE
  BY <1>1, <1>a DEF SetRow
<1>f. ASSUME NEW r \in BOOLEAN, FailAttempt(r) PROVE FALSE
  BY <1>0, <1>a, <1>f, <1>s DEF FailAttempt, Fail, Running, storeVars
<1>2. ~ Handlers /\ ~ Threads
  BY <1>1, QuietTable
<1>3. ASSUME NEW i \in Job, ClaimJob(i) PROVE FALSE
  BY <1>3 DEF ClaimJob
<1>4. ~ Register /\ ~ Finalize /\ ~ Reconciled /\ ~ LoopExits
  BY <1>s DEF Register, Finalize, Reconciled, LoopExits, storeVars
<1>5. ~ Judge
  <2>1. ~ Cancel(Me)
    BY <1>0, <1>a DEF Cancel, Active, Row
  <2> QED BY <2>1, <1>f, <1>s DEF Judge, Keep, storeVars
<1>6. ~ Finish
  <2>1. ~ Complete(Me, MyAttempt)
    BY <1>0, <1>a DEF Complete, Running, Row
  <2> QED BY <2>1, <1>f DEF Finish
<1>7. ~ RecoverRows
  BY <1>0, <1>1 DEF RecoverRows, Recover, Row
<1>8. ~ Launch /\ ~ SupervisorAsks /\ ~ SupervisorForces /\ ~ SupervisorMourns
  BY <1>s DEF Launch, SupervisorAsks, SupervisorForces, SupervisorMourns, storeVars
<1>9. ~ SupervisorReads
  BY <1>a, <1>s DEF SupervisorReads, CommitProgress, Progress, Step, Running, storeVars
<1>10. ~ Start /\ ~ SupervisorTimesOut /\ ~ StoreBreaks /\ ~ TroubleAgain /\ ~ Stop /\ ~ Crash
  BY <1>s DEF Start, SupervisorTimesOut, StoreBreaks, TroubleAgain, Stop, Crash, storeVars
<1>11. ASSUME NEW w \in Id, Work(w) \/ WorkerDies(w) \/ \E m \in Terminal : WorkerErrs(w, m) PROVE FALSE
  BY <1>11, <1>s, ProcessMoves DEF processVars, storeVars
<1> QED BY <1>2, <1>3, <1>4, <1>5, <1>6, <1>7, <1>8, <1>9, <1>10, <1>11
       DEF AgentNext, Loop, Supervisor, Mishap

\* What the step of a worker does to its attempt and to the fence.
LEMMA WorkerKeeps ==
  ASSUME AgentTyped, CraigFenced, NEW w \in Id,
         Work(w) \/ WorkerDies(w) \/ \E m \in Terminal : WorkerErrs(w, m)
  PROVE  /\ worker'[w].kind = worker[w].kind /\ worker'[w].pc # "none"
         /\ worker'[w].pc \in Written => worker[w].kind = "craig"
         /\ \A v \in Id : \/ fence'[v] = fence[v]
                          \/ v = w /\ fence'[w] = "commit" /\ fence[w] # "cancel" /\ worker[w].kind = "craig"
<1> DEFINE Fenced == \A v \in Id :
                       \/ fence'[v] = fence[v]
                       \/ v = w /\ fence'[w] = "commit" /\ fence[w] # "cancel" /\ worker[w].kind = "craig"
           Kept == worker'[w].kind = worker[w].kind /\ worker'[w].pc # "none"
           Paged == worker'[w].pc \in Written => worker[w].kind = "craig"
<1>0. worker \in [Id -> [pc : WorkerPc, kind : Kind \cup {Nil}, left : Nat, doomed : SUBSET Id]]
  BY DEF AgentTyped, ProcessTyped
<1>s. fence \in [Id -> {"none", "cancel", "commit"}]
  BY DEF AgentTyped, ProcessTyped
<1>c. worker[w].pc \in Written => worker[w].kind = "craig"
  BY DEF CraigFenced
<1>a. ASSUME NEW pc, Becomes(w, pc), pc # "none", pc \in Written => worker[w].kind = "craig" PROVE Kept /\ Paged
  BY <1>0, <1>a DEF Becomes
<1>b. ASSUME NEW m, Emits(w, m, "gone") PROVE Kept /\ Paged
  BY <1>a, <1>b DEF Emits, Written
<1>u. UNCHANGED fence => Fenced
  OBVIOUS
<1>1. CASE WorkerStarts(w)
  BY <1>0, <1>1 DEF WorkerStarts, Written
<1>2. CASE WorkerCleans(w)
  BY <1>0, <1>2 DEF WorkerCleans, Written
<1>3. CASE WorkerProgresses(w)
  <2>1. CASE worker' = [worker EXCEPT ![w].left = @ - 1]
    BY <1>0, <1>3, <2>1 DEF WorkerProgresses, Written
  <2> QED BY <1>3, <1>a, <2>1 DEF WorkerProgresses, Written
<1>4. CASE WorkerObeys(w) \/ WorkerReports(w)
  BY <1>4, <1>b DEF WorkerObeys, WorkerReports
<1>5. CASE WorkerWrites(w)
  BY <1>5, <1>a DEF WorkerWrites
<1>6. CASE WorkerReserves(w)
  <2>0. worker[w].kind = "craig"
    BY <1>6, <1>c DEF WorkerReserves, Written
  <2>1. Fenced
    BY <1>s, <1>6, <2>0 DEF WorkerReserves
  <2> QED BY <1>6, <1>a, <1>b, <2>0, <2>1 DEF WorkerReserves
<1>7. CASE WorkerAnnounces(w)
  BY <1>7, <1>a, <1>c DEF WorkerAnnounces, Written
<1>8. CASE WorkerSeals(w)
  BY <1>8, <1>a, <1>b, <1>c DEF WorkerSeals, Written
<1>9. CASE WorkerDies(w)
  BY <1>9, <1>a DEF WorkerDies, Written
<1>10. ASSUME NEW m \in Terminal, WorkerErrs(w, m) PROVE Kept /\ Paged /\ Fenced
  BY <1>10, <1>b DEF WorkerErrs
<1> QED BY <1>1, <1>2, <1>3, <1>4, <1>5, <1>6, <1>7, <1>8, <1>9, <1>10 DEF Work

\* A worker tells of a cancellation if it was asked for or if the fence says so.
LEMMA WorkerTells ==
  ASSUME AgentTyped, NEW w \in Id,
         Work(w) \/ WorkerDies(w) \/ \E m \in Terminal : WorkerErrs(w, m),
         NEW i \in 1 .. Len(pipe'), pipe'[i] = "cancelled"
  PROVE  \/ i \in 1 .. Len(pipe) /\ pipe[i] = "cancelled"
         \/ Linked(w) /\ (asked \/ fence[w] = "cancel")
<1> DEFINE Old == i \in 1 .. Len(pipe) /\ pipe[i] = "cancelled"
<1>0. pipe \in Seq(Message)
  BY DEF AgentTyped, ProcessTyped, Message
<1>u. UNCHANGED pipe => Old
  OBVIOUS
<1>a. ASSUME NEW m \in Message, pipe' = Append(pipe, m), m # "cancelled" PROVE Old
  BY <1>0, <1>a
<1>b. ASSUME NEW m \in Message, Emits(w, m, "gone"), m # "cancelled" PROVE Old
  BY <1>a, <1>b DEF Emits
<1>1. CASE WorkerStarts(w) \/ WorkerCleans(w) \/ WorkerWrites(w) \/ WorkerAnnounces(w) \/ WorkerDies(w)
  BY <1>1, <1>u DEF WorkerStarts, WorkerCleans, WorkerWrites, WorkerAnnounces, WorkerDies
<1>2. CASE WorkerProgresses(w)
  BY <1>2, <1>a, <1>u DEF WorkerProgresses, Message
<1>3. CASE WorkerObeys(w)
  BY <1>3 DEF WorkerObeys
<1>4. CASE WorkerReserves(w)
  BY <1>4, <1>b, <1>u DEF WorkerReserves, Message, Terminal, Emits
<1>5. CASE WorkerSeals(w)
  BY <1>5, <1>b, <1>u DEF WorkerSeals, Message, Terminal
<1>6. CASE WorkerReports(w)
  BY <1>6, <1>b DEF WorkerReports, Message, Terminal
<1>7. ASSUME NEW m \in Terminal, WorkerErrs(w, m) PROVE Old
  BY <1>7, <1>b DEF WorkerErrs, Message
<1> QED BY <1>1, <1>2, <1>3, <1>4, <1>5, <1>6, <1>7 DEF Work

ArbInv ==
  Tried /\ WorkersKnown /\ CraigFenced /\ HeldKnown /\ HandlersFenced
  /\ SignalTrue /\ AskedTrue /\ ToldTrue /\ OutTrue

\* A cancellation that has won the fence has won it for good.
LEMMA FenceMoves ==
  ASSUME AgentTyped, CraigFenced, AgentNext, NEW v \in Id
  PROVE  /\ fence[v] = "cancel" => fence'[v] = "cancel"
         /\ fence'[v] = "commit" => fence[v] = "commit" \/ (worker[v].pc # "none" /\ worker[v].kind = "craig")
<1> DEFINE Goal == /\ fence[v] = "cancel" => fence'[v] = "cancel"
                   /\ fence'[v] = "commit" => fence[v] = "commit" \/ (worker[v].pc # "none" /\ worker[v].kind = "craig")
<1>s. fence \in [Id -> {"none", "cancel", "commit"}]
  BY DEF AgentTyped, ProcessTyped
<1>u. UNCHANGED fence => Goal
  OBVIOUS
<1>1. CASE Handlers
  BY <1>1, <1>u DEF Handlers, SubmitJob, CancelQueued, CancelRunning, Delete, RetryBegin, RetryFixture,
     Pause, agentVars, workerVars
<1>2. CASE Threads
  <2>1. ASSUME NEW j \in Job, CancelFence(j) PROVE Goal
    BY <1>s, <2>1 DEF CancelFence
  <2>2. CASE ~ \E j \in Job : CancelFence(j)
    BY <1>2, <2>2, <1>u DEF Threads, Pass, Scan, Settle, CancelThread, CancelAct, RetryReturns, RetryAct,
       workerVars
  <2> QED BY <2>1, <2>2
<1>3. CASE Loop
  BY <1>3, <1>u DEF Loop, ClaimJob, Register, Judge, Finalize, Finish, Reconciled, RecoverRows, LoopExits,
     workerVars
<1>4. CASE Supervisor
  BY <1>4, <1>u DEF Supervisor, Launch, SupervisorAsks, SupervisorForces, SupervisorReads, SupervisorMourns
<1>5. CASE Start \/ SupervisorTimesOut \/ StoreBreaks \/ TroubleAgain \/ Stop \/ Crash
  BY <1>5, <1>u DEF Start, SupervisorTimesOut, StoreBreaks, TroubleAgain, Stop, Crash, workerVars
<1>6. ASSUME NEW w \in Id, Work(w) \/ WorkerDies(w) \/ \E m \in Terminal : WorkerErrs(w, m) PROVE Goal
  BY <1>6, WorkerKeeps, ProcessMoves DEF Live
<1> QED BY <1>1, <1>2, <1>3, <1>4, <1>5, <1>6 DEF AgentNext, Mishap

\* An attempt gets its worker from Launch, and none but that one.
LEMMA WorkersMove ==
  ASSUME AgentTyped, CraigFenced, HeldKnown, AgentNext, NEW w \in Id
  PROVE  \/ /\ worker[w].pc # "none" <=> worker'[w].pc # "none"
            /\ worker'[w].pc # "none" => worker'[w].kind = worker[w].kind
            /\ worker'[w].pc \in Written => worker[w].kind = "craig"
         \/ /\ Launch /\ w = loop.id /\ loop'.pc = "supervising"
            /\ worker[w].pc = "none"
            /\ worker'[w].pc = "starting" /\ worker'[w].kind = jobs[Me].body.kind
<1> DEFINE Same == /\ worker[w].pc # "none" <=> worker'[w].pc # "none"
                   /\ worker'[w].pc # "none" => worker'[w].kind = worker[w].kind
                   /\ worker'[w].pc \in Written => worker[w].kind = "craig"
<1>0. worker \in [Id -> [pc : WorkerPc, kind : Kind \cup {Nil}, left : Nat, doomed : SUBSET Id]]
  BY DEF AgentTyped, ProcessTyped
<1>1. loop \in [pc : LoopPc, id : Id \cup {Nil}, out : Terminal \cup {Nil}]
  BY DEF AgentTyped, LoopTyped
<1>c. worker[w].pc \in Written => worker[w].kind = "craig"
  BY DEF CraigFenced
<1>u. UNCHANGED worker => Same
  BY <1>c
<1>e. ASSUME NEW out, Ended(out), loop.pc = "supervising" PROVE Same
  <2>1. loop.id \in Id /\ worker[loop.id].pc # "none"
    BY <1>e DEF HeldKnown, AgentTyped, LoopTyped, Holding
  <2> QED BY <1>0, <1>c, <1>e, <2>1 DEF Ended, Written
<1>2. CASE Handlers \/ Threads
  BY <1>2, <1>u DEF Handlers, SubmitJob, CancelQueued, CancelRunning, Delete, RetryBegin,
     RetryFixture, Pause, Threads, Pass, Scan, Settle, CancelThread, CancelFence, CancelAct,
     RetryReturns, RetryAct, agentVars, workerVars
<1>3. CASE Loop
  BY <1>3, <1>u DEF Loop, ClaimJob, Register, Judge, Finalize, Finish, Reconciled, RecoverRows, LoopExits,
     workerVars
<1>4. CASE Launch
  <2>1. loop.pc = "dispatching" /\ loop.id \in Id /\ worker[loop.id].pc = "none"
    BY <1>4 DEF Launch, HeldKnown, AgentTyped, LoopTyped, Holding
  <2>2. CASE w = loop.id /\ ~ UNCHANGED worker
    <3>1. loop' = [loop EXCEPT !.pc = "supervising"]
          /\ worker' = [worker EXCEPT ![loop.id] =
                [pc |-> "starting", kind |-> jobs[Me].body.kind,
                 left |-> jobs[Me].body.units - jobs[Me].completed, doomed |-> {}]]
      BY <1>4, <2>2 DEF Launch
    <3>2. loop'.pc = "supervising"
      BY <1>1, <3>1
    <3> QED BY <1>0, <1>4, <2>1, <2>2, <3>1, <3>2
  <2>3. CASE w # loop.id
    <3>1. worker'[w] = worker[w]
      BY <1>0, <1>4, <2>3 DEF Launch
    <3> QED BY <1>c, <3>1
  <2> QED BY <2>2, <2>3, <1>u
<1>5. CASE SupervisorAsks \/ Start \/ StoreBreaks \/ TroubleAgain \/ Stop
  BY <1>5, <1>u DEF SupervisorAsks, Start, StoreBreaks, TroubleAgain, Stop, workerVars
<1>6. CASE SupervisorForces \/ SupervisorTimesOut \/ SupervisorMourns
  BY <1>6, <1>e DEF SupervisorForces, SupervisorTimesOut, SupervisorMourns
<1>7. CASE SupervisorReads
  BY <1>7, <1>e, <1>u DEF SupervisorReads, CommitProgress
<1>8. CASE Crash
  <2>1. worker'[w] = worker[w] \/ (worker'[w] = [worker[w] EXCEPT !.pc = "gone"] /\ Live(w))
    BY <1>8 DEF Crash
  <2>2. worker[w] \in [pc : WorkerPc, kind : Kind \cup {Nil}, left : Nat, doomed : SUBSET Id]
    BY <1>0
  <2> QED BY <1>c, <2>1, <2>2 DEF Live, Written
<1>9. ASSUME NEW v \in Id, Work(v) \/ WorkerDies(v) \/ \E m \in Terminal : WorkerErrs(v, m) PROVE Same
  <2>1. CASE w = v
    BY <1>9, <2>1, WorkerKeeps, ProcessMoves DEF Live
  <2>2. CASE w # v
    BY <1>9, <2>2, <1>c, ProcessMoves
  <2> QED BY <2>1, <2>2
<1> QED BY <1>2, <1>3, <1>4, <1>5, <1>6, <1>7, <1>8, <1>9 DEF AgentNext, Supervisor, Mishap

\* Every step keeps what is known of attempts, workers, their fences and handlers.
LEMMA KnownStep ==
  ASSUME TypeOK, [Next]_storeVars, AgentTyped, ActiveRow, ArbInv, AgentNext
  PROVE  Tried' /\ WorkersKnown' /\ CraigFenced' /\ HandlersFenced'
<1>1. Tried'
  <2> SUFFICES ASSUME NEW j \in DOMAIN jobs', jobs'[j].status = "running" PROVE jobs'[j].attempt \in Attempt
    BY DEF Tried
  <2>1. j \in DOMAIN jobs
    BY NewRowsWait
  <2>2. CASE Claim(j)
    <3>1. jobs[j] \in Row /\ jobs[j].attempt \in 0 .. MaxAttempt
      BY <2>1 DEF TypeOK, Row
    <3>2. jobs'[j].attempt = jobs[j].attempt + 1 /\ jobs[j].attempt < MaxAttempt
      BY <2>1, <2>2, <3>1 DEF Claim, SetRow, Row
    <3> QED BY <3>1, <3>2, BoundAssumption DEF Attempt
  <2>3. CASE ~ Claim(j)
    BY <2>1, <2>3, ClaimStarts DEF ArbInv, Tried
  <2> QED BY <2>2, <2>3
<1>2. WorkersKnown'
  <2> SUFFICES ASSUME NEW w \in Id, worker'[w].pc # "none"
               PROVE  Known(w)' /\ (w[1] \in DOMAIN jobs' => worker'[w].kind = jobs'[w[1]].body.kind)
    BY DEF WorkersKnown
  <2>1. CASE worker[w].pc # "none" /\ worker'[w].kind = worker[w].kind
    BY <2>1, KnownStays DEF ArbInv, WorkersKnown
  <2>2. CASE Launch /\ w = loop.id /\ worker'[w].kind = jobs[Me].body.kind
    <3>1. loop.pc \in Holding
      BY <2>2 DEF Launch, Holding
    <3>2. Known(w) /\ UNCHANGED storeVars
      BY <2>2, <3>1 DEF Launch, ArbInv, HeldKnown
    <3> QED BY <2>2, <3>2, KnownStays DEF Me
  <2> QED BY <2>1, <2>2, WorkersMove DEF ArbInv
<1>3. CraigFenced'
  <2> SUFFICES ASSUME NEW w \in Id, worker'[w].pc \in Written \/ fence'[w] = "commit"
               PROVE  worker'[w].pc # "none" /\ worker'[w].kind = "craig"
    BY DEF CraigFenced
  <2>1. worker[w].pc # "none" /\ worker[w].kind = "craig"
    <3>1. CASE fence'[w] = "commit"
      BY <3>1, FenceMoves DEF ArbInv, CraigFenced
    <3>2. CASE worker'[w].pc \in Written
      BY <3>2, WorkersMove DEF ArbInv, Written
    <3> QED BY <3>1, <3>2
  <2> QED BY <2>1, WorkersMove DEF ArbInv
<1>4. HandlersFenced'
  <2> SUFFICES ASSUME NEW j \in Job
               PROVE  /\ cancelling'[j].pc # "none" => cancelling'[j].attempt \in Attempt
                      /\ cancelling'[j].pc = "acting" => fence'[<<j, cancelling'[j].attempt>>] = "cancel"
    BY DEF HandlersFenced
  <2> DEFINE Goal == /\ cancelling'[j].pc # "none" => cancelling'[j].attempt \in Attempt
                     /\ cancelling'[j].pc = "acting" => fence'[<<j, cancelling'[j].attempt>>] = "cancel"
  <2>0. cancelling \in [Job -> [pc : {"none", "claiming", "acting"}, attempt : 0 .. MaxAttempt]]
    BY DEF AgentTyped, BooksTyped
  <2>a. ASSUME cancelling'[j] = cancelling[j] PROVE Goal
    <3>1. ASSUME cancelling[j].pc = "acting" PROVE <<j, cancelling[j].attempt>> \in Id
      BY <3>1 DEF ArbInv, HandlersFenced, Id
    <3> QED BY <2>a, <3>1, FenceMoves DEF ArbInv, HandlersFenced
  <2>b. ASSUME cancelling'[j] = NoCancel PROVE Goal
    BY <2>b DEF NoCancel
  <2>1. CASE Handlers
    <3>1. ASSUME NEW i \in Job, CancelRunning(i) PROVE Goal
      <4>1. CASE i = j
        BY <2>0, <3>1, <4>1 DEF CancelRunning, ArbInv, Tried
      <4>2. CASE i # j
        BY <2>0, <2>a, <3>1, <4>2 DEF CancelRunning
      <4> QED BY <4>1, <4>2
    <3>2. CASE ~ \E i \in Job : CancelRunning(i)
      BY <2>1, <2>a, <3>2 DEF Handlers, SubmitJob, CancelQueued, Delete, RetryBegin, RetryFixture,
         Pause, agentVars, handlerVars
    <3> QED BY <3>1, <3>2
  <2>2. CASE Threads
    <3>1. ASSUME NEW i \in Job, CancelThread(i), i # j PROVE Goal
      BY <2>0, <2>a, <3>1 DEF CancelThread, CancelFence, CancelAct
    <3>2. CASE CancelFence(j)
      <4>1. cancelling[j].attempt \in Attempt /\ <<j, cancelling[j].attempt>> \in Id
        BY <3>2 DEF CancelFence, ArbInv, HandlersFenced, Id
      <4>2. CASE cancelling' = [cancelling EXCEPT ![j] = [@ EXCEPT !.pc = "acting"]]
                 /\ fence' = [fence EXCEPT ![<<j, cancelling[j].attempt>>] = "cancel"]
        <5>1. cancelling'[j].attempt = cancelling[j].attempt
          BY <2>0, <4>2
        <5>2. fence'[<<j, cancelling[j].attempt>>] = "cancel"
          BY <4>1, <4>2 DEF AgentTyped, ProcessTyped
        <5> QED BY <4>1, <5>1, <5>2
      <4>3. CASE cancelling' = [cancelling EXCEPT ![j] = NoCancel]
        BY <2>0, <2>b, <4>3
      <4> QED BY <3>2, <4>2, <4>3 DEF CancelFence
    <3>3. CASE CancelAct(j)
      BY <2>0, <2>b, <3>3 DEF CancelAct
    <3>4. CASE ~ \E i \in Job : CancelThread(i)
      BY <2>2, <2>a, <3>4 DEF Threads, Pass, Scan, Settle, RetryReturns, RetryAct, handlerVars
    <3> QED BY <3>1, <3>2, <3>3, <3>4 DEF CancelThread
  <2>3. CASE Loop
    BY <2>3, <2>a DEF Loop, ClaimJob, Register, Judge, Finalize, Finish, Reconciled, RecoverRows, LoopExits,
       handlerVars
  <2>4. CASE Supervisor
    BY <2>4, <2>a DEF Supervisor, Launch, SupervisorAsks, SupervisorForces, SupervisorReads, SupervisorMourns,
       handlerVars
  <2>5. CASE Start \/ SupervisorTimesOut \/ StoreBreaks \/ TroubleAgain \/ Stop
    BY <2>5, <2>a DEF Start, SupervisorTimesOut, StoreBreaks, TroubleAgain, Stop, handlerVars
  <2>6. CASE Crash
    BY <2>6, <2>b DEF Crash
  <2>7. ASSUME NEW w \in Id, Work(w) \/ WorkerDies(w) \/ \E m \in Terminal : WorkerErrs(w, m) PROVE Goal
    BY <2>7, <2>a, ProcessMoves DEF processVars, handlerVars
  <2> QED BY <2>1, <2>2, <2>3, <2>4, <2>5, <2>6, <2>7 DEF AgentNext, Mishap
<1> QED BY <1>1, <1>2, <1>3, <1>4

\* How an attempt goes through the hands of the queue worker.
Kept == loop'.pc = loop.pc /\ loop'.out = loop.out
Past == {"judging", "finalizing", "completing", "reconciling"}

\* How a step may change what the loop supervises.
LEMMA LoopMoves ==
  ASSUME AgentTyped, AgentNext, loop'.pc \in Holding, ~ \E j \in Job : ClaimJob(j)
  PROVE  /\ loop'.id = loop.id
         /\ \/ Kept /\ ~ Launch /\ asked' = asked
            \/ Kept /\ SupervisorAsks
            \/ Register /\ loop'.pc = "dispatching" /\ active'.cancel = FALSE
            \/ Launch /\ loop'.pc = "supervising" /\ asked' = FALSE /\ pipe' = << >>
            \/ Launch /\ loop'.pc = "judging" /\ (loop'.out = "cancelled" => IsCancelled)
            \/ /\ loop.pc = "supervising" /\ loop'.pc = "judging" /\ UNCHANGED <<stopping, active, fence>>
               /\ loop'.out = "cancelled" => asked \/ (pipe # << >> /\ Head(pipe) = "cancelled")
            \/ loop.pc \in Past /\ loop'.pc \in Past /\ ~ (loop'.pc = "judging" /\ loop'.out = "cancelled")
<1> DEFINE Goal == /\ loop'.id = loop.id
         /\ \/ Kept /\ ~ Launch /\ asked' = asked
            \/ Kept /\ SupervisorAsks
            \/ Register /\ loop'.pc = "dispatching" /\ active'.cancel = FALSE
            \/ Launch /\ loop'.pc = "supervising" /\ asked' = FALSE /\ pipe' = << >>
            \/ Launch /\ loop'.pc = "judging" /\ (loop'.out = "cancelled" => IsCancelled)
            \/ /\ loop.pc = "supervising" /\ loop'.pc = "judging" /\ UNCHANGED <<stopping, active, fence>>
               /\ loop'.out = "cancelled" => asked \/ (pipe # << >> /\ Head(pipe) = "cancelled")
            \/ loop.pc \in Past /\ loop'.pc \in Past /\ ~ (loop'.pc = "judging" /\ loop'.out = "cancelled")
<1>0. loop \in [pc : LoopPc, id : Id \cup {Nil}, out : Terminal \cup {Nil}]
  BY DEF AgentTyped, LoopTyped
<1>b. ~ Trouble /\ ~ Release /\ loop' # Resting("halting") /\ loop' # Resting("down") /\ loop' # Resting("booting")
  BY DEF Trouble, Release, Resting, Holding
<1>e. ASSUME NEW out, Ended(out) PROVE loop'.pc = "judging" /\ loop'.out = out /\ loop'.id = loop.id
  BY <1>0, <1>e DEF Ended
<1>f. ASSUME NEW r \in BOOLEAN, FailAttempt(r) PROVE loop'.pc = "reconciling" /\ loop'.id = loop.id
  BY <1>0, <1>b, <1>f DEF FailAttempt
<1>1. CASE LoopStands
  <2>1. loop' = loop /\ (asked' = asked \/ SupervisorAsks)
    BY <1>1, LoopStandsStill DEF SupervisorAsks
  <2>2. ~ Launch
    BY <1>0, <2>1 DEF Launch
  <2> QED BY <2>1, <2>2 DEF Kept
<1>2. CASE Register
  <2>1. loop' = [loop EXCEPT !.pc = "dispatching"] /\ active' = [job |-> Me, cancel |-> FALSE]
    BY <1>2, <1>b DEF Register
  <2> QED BY <1>0, <1>2, <2>1
<1>3. CASE Launch
  <2>1. \/ loop' = [loop EXCEPT !.pc = "judging", !.out = "cancelled"] /\ IsCancelled
        \/ loop' = [loop EXCEPT !.pc = "judging", !.out = "failed"]
        \/ loop' = [loop EXCEPT !.pc = "supervising"] /\ pipe' = << >> /\ asked' = FALSE
    BY <1>3 DEF Launch
  <2>2. /\ loop'.id = loop.id
        /\ \/ loop'.pc = "judging" /\ (loop'.out = "cancelled" => IsCancelled)
           \/ loop'.pc = "supervising" /\ pipe' = << >> /\ asked' = FALSE
    BY <1>0, <2>1
  <2> QED BY <1>3, <2>2
<1>4. CASE SupervisorForces \/ SupervisorTimesOut \/ SupervisorMourns
  BY <1>4, <1>e DEF SupervisorForces, SupervisorTimesOut, SupervisorMourns
<1>5. CASE SupervisorReads
  <2>1. loop.pc = "supervising" /\ pipe # << >> /\ UNCHANGED <<stopping, active, fence, asked>>
    BY <1>5 DEF SupervisorReads
  <2>2. CASE Ended(Head(pipe)) \/ Ended("failed") \/ Ended("broken")
    BY <1>e, <2>1, <2>2
  <2>3. CASE UNCHANGED loop
    BY <2>1, <2>3 DEF Kept, Launch
  <2> QED BY <1>5, <2>2, <2>3 DEF SupervisorReads, CommitProgress
<1>6. CASE Judge
  <2>1. loop.pc = "judging"
    BY <1>6 DEF Judge
  <2>2. CASE loop' = [loop EXCEPT !.pc = "finalizing"]
    <3>1. loop'.pc = "finalizing" /\ loop'.id = loop.id
      BY <1>0, <2>2
    <3> QED BY <2>1, <3>1 DEF Past
  <2>3. ASSUME NEW r \in BOOLEAN, FailAttempt(r) PROVE Goal
    BY <2>1, <2>3, <1>f DEF Past
  <2> QED BY <1>6, <1>b, <2>2, <2>3 DEF Judge, Keep
<1>7. CASE Finalize
  <2>1. loop'.id = loop.id /\ (loop'.pc = "completing" \/ (loop'.pc = "judging" /\ loop'.out \in {"failed", "broken"}))
    BY <1>0, <1>7 DEF Finalize
  <2> QED BY <1>7, <2>1 DEF Finalize, Past
<1>8. CASE Finish
  <2>1. loop'.pc = "reconciling" /\ loop'.id = loop.id
    BY <1>8, <1>b, <1>f DEF Finish
  <2> QED BY <1>8, <2>1 DEF Finish, Past
<1>9. ~ Reconciled /\ ~ StoreBreaks /\ ~ RecoverRows /\ ~ TroubleAgain /\ ~ LoopExits /\ ~ Crash /\ ~ Start
  BY <1>b DEF Reconciled, StoreBreaks, RecoverRows, TroubleAgain, LoopExits, Crash, Start
<1> QED BY <1>1, <1>2, <1>3, <1>4, <1>5, <1>6, <1>7, <1>8, <1>9
       DEF AgentNext, LoopStands, Loop, Supervisor, Mishap

\* A signal stays until the attempt is released.
LEMMA SignalMoves ==
  ASSUME AgentTyped, AgentNext, loop.pc \in Registered, loop'.pc \in Registered
  PROVE  /\ stopping => stopping'
         /\ active' = active \/ \E j \in Job : CancelAndSignal(j)
<1> DEFINE Goal == /\ stopping => stopping'
                   /\ active' = active \/ \E j \in Job : CancelAndSignal(j)
<1>b. ~ Trouble /\ ~ Release /\ loop' # Resting("halting") /\ loop' # Resting("down") /\ loop' # Resting("booting")
  BY DEF Trouble, Release, Resting, Registered, Holding
<1>f. ASSUME NEW r \in BOOLEAN, FailAttempt(r) PROVE active' = active
  BY <1>b, <1>f DEF FailAttempt
<1>1. CASE Handlers
  <2>1. stopping' = stopping
    BY <1>1 DEF Handlers, SubmitJob, CancelQueued, CancelRunning, Delete, RetryBegin, RetryFixture,
       Pause, agentVars
  <2>2. active' = active \/ \E j \in Job : CancelQueued(j)
    BY <1>1 DEF Handlers, SubmitJob, CancelRunning, Delete, RetryBegin, RetryFixture, Pause, agentVars
  <2> QED BY <2>1, <2>2 DEF CancelQueued
<1>2. CASE Threads
  <2>1. stopping' = stopping
    BY <1>2 DEF Threads, Pass, Scan, Settle, CancelThread, CancelFence, CancelAct, RetryReturns, RetryAct
  <2>2. active' = active \/ \E j \in Job : CancelAct(j)
    BY <1>2 DEF Threads, Pass, Scan, Settle, CancelThread, CancelFence, RetryReturns, RetryAct
  <2> QED BY <2>1, <2>2 DEF CancelAct
<1>3. ASSUME NEW j \in Job, ClaimJob(j) PROVE FALSE
  BY <1>3 DEF ClaimJob, Registered, Holding
<1>4. ~ Register
  BY DEF Register, Registered
<1>5. CASE Judge
  BY <1>5, <1>b, <1>f DEF Judge, Keep
<1>6. CASE Finalize \/ Supervisor \/ SupervisorTimesOut
  BY <1>6 DEF Finalize, Supervisor, Launch, SupervisorAsks, SupervisorForces, SupervisorReads,
     SupervisorMourns, SupervisorTimesOut
<1>7. CASE Finish
  BY <1>7, <1>b, <1>f DEF Finish
<1>8. ~ Reconciled /\ ~ StoreBreaks /\ ~ RecoverRows /\ ~ TroubleAgain /\ ~ LoopExits /\ ~ Crash /\ ~ Start
  BY <1>b DEF Reconciled, StoreBreaks, RecoverRows, TroubleAgain, LoopExits, Crash, Start
<1>9. CASE Stop
  BY <1>9 DEF Stop
<1>10. ASSUME NEW w \in Id, Work(w) \/ WorkerDies(w) \/ \E m \in Terminal : WorkerErrs(w, m) PROVE Goal
  BY <1>10, ProcessMoves DEF processVars
<1> QED BY <1>1, <1>2, <1>3, <1>4, <1>5, <1>6, <1>7, <1>8, <1>9, <1>10 DEF AgentNext, Loop, Mishap

\* Every step keeps what the loop knows of the attempt in its hands.
LEMMA HeldStep ==
  ASSUME StoreInv, [Next]_storeVars, AgentTyped, ArbInv, AgentNext
  PROVE  HeldKnown'
<1> USE DEF StoreInv
<1>1. CASE \E j \in Job : ClaimJob(j)
  <2>1. PICK j \in Job : ClaimJob(j)
    BY <1>1
  <2> DEFINE a == jobs[j].attempt + 1
  <2>2. /\ Claim(j) /\ j \in DOMAIN jobs /\ jobs[j].attempt \in 0 .. MaxAttempt /\ jobs[j].attempt < MaxAttempt
        /\ loop' = [pc |-> "claimed", id |-> <<j, a>>, out |-> Nil] /\ worker' = worker
    BY <2>1 DEF ClaimJob, Claim, Queued, TypeOK, Row, workerVars
  <2>3. jobs'[j].attempt = a /\ j \in DOMAIN jobs'
    <3>1. jobs[j] \in Row
      BY <2>2 DEF TypeOK
    <3> QED BY <2>2, <3>1 DEF Claim, SetRow, Row
  <2>4. a \in Attempt /\ a =< a /\ ~ (a =< jobs[j].attempt)
    BY <2>2, BoundAssumption DEF Attempt
  <2>5. <<j, a>> \in Id
    BY <2>4 DEF Id
  <2>6. worker[<<j, a>>].pc = "none"
    <3>1. ~ Known(<<j, a>>)
      BY <2>2, <2>4 DEF Known, AliasResolves
    <3> QED BY <2>5, <3>1 DEF ArbInv, WorkersKnown
  <2> QED BY <2>2, <2>3, <2>4, <2>6 DEF HeldKnown, Known, Me, MyAttempt
<1>2. CASE ~ \E j \in Job : ClaimJob(j)
  <2> SUFFICES ASSUME loop'.pc \in Holding
               PROVE  /\ Known(loop.id)' /\ (Me' \in DOMAIN jobs' => jobs'[Me'].attempt = MyAttempt')
                      /\ loop'.pc \in {"claimed", "dispatching"} => worker'[loop'.id].pc = "none"
                      /\ loop'.pc = "supervising" => worker'[loop'.id].pc # "none"
    BY DEF HeldKnown, Holding
  <2>1. loop.pc \in Holding /\ loop'.id = loop.id
    BY <1>2, LoopMoves DEF Kept, SupervisorAsks, Register, Launch, Past, Holding
  <2>2. loop.id \in Id /\ Me' = Me /\ MyAttempt' = MyAttempt
    BY <2>1 DEF AgentTyped, LoopTyped, Me, MyAttempt
  <2>3. Known(loop.id) /\ (Me \in DOMAIN jobs => jobs[Me].attempt = MyAttempt)
    BY <2>1 DEF ArbInv, HeldKnown
  <2>4. Known(loop.id)'
    <3>1. \A w \in Id : Known(w) => Known(w)'
      BY KnownStays
    <3>2. loop'.id = loop.id /\ Known(loop.id)
      BY <2>1, <2>3
    <3> QED BY <2>2, <3>1, <3>2 DEF Known
  <2>5. Me' \in DOMAIN jobs' => jobs'[Me'].attempt = MyAttempt'
    <3>1. ASSUME Me \in DOMAIN jobs' PROVE jobs'[Me].attempt = MyAttempt
      <4>1. Me \in DOMAIN jobs
        BY <2>2, <2>3, <3>1, KnownStays DEF Me
      <4>2. ~ Claim(Me)
        BY <2>1, <4>1, OnlyIdleClaims DEF Holding
      <4> QED BY <2>3, <3>1, <4>1, <4>2, ClaimStarts
    <3> QED BY <2>2, <3>1
  <2>6. loop'.pc \in {"claimed", "dispatching"} => worker'[loop'.id].pc = "none"
    <3> SUFFICES ASSUME loop'.pc \in {"claimed", "dispatching"} PROVE worker'[loop.id].pc = "none"
      BY <2>1
    <3>1. loop.pc \in {"claimed", "dispatching"} /\ ~ (Launch /\ loop'.pc = "supervising")
      BY <1>2, LoopMoves DEF Kept, SupervisorAsks, Register, Past
    <3> QED BY <2>2, <3>1, WorkersMove DEF ArbInv, HeldKnown
  <2>7. loop'.pc = "supervising" => worker'[loop'.id].pc # "none"
    <3> SUFFICES ASSUME loop'.pc = "supervising" PROVE worker'[loop.id].pc # "none"
      BY <2>1
    <3>1. CASE Launch
      <4>1. worker' = [worker EXCEPT ![loop.id] =
                [pc |-> "starting", kind |-> jobs[Me].body.kind,
                 left |-> jobs[Me].body.units - jobs[Me].completed, doomed |-> {}]]
        BY <3>1 DEF Launch, AgentTyped, LoopTyped
      <4> QED BY <2>2, <4>1 DEF AgentTyped, ProcessTyped
    <3>2. CASE ~ Launch
      <4>1. loop.pc = "supervising"
        BY <1>2, <3>2, LoopMoves DEF Kept, SupervisorAsks, Past
      <4> QED BY <2>2, <3>2, <4>1, WorkersMove DEF ArbInv, HeldKnown
    <3> QED BY <3>1, <3>2
  <2> QED BY <2>4, <2>5, <2>6, <2>7
<1> QED BY <1>1, <1>2

\* Whoever says that an attempt was cancelled was told so, by every step.
LEMMA SignalStep ==
  ASSUME StoreInv, [Next]_storeVars, AgentTyped, ActiveRow, ActiveRow', ArbInv, AgentNext
  PROVE  SignalTrue' /\ AskedTrue' /\ ToldTrue' /\ OutTrue'
<1> USE DEF StoreInv
<1>0. active \in [job : Job \cup {Nil}, cancel : BOOLEAN]
  BY DEF AgentTyped, BooksTyped
<1>c. \A j \in Job : ClaimJob(j) => loop'.pc = "claimed"
  BY DEF ClaimJob
<1>s. ASSUME loop.pc \in Registered, loop'.pc \in Registered, IsCancelled PROVE IsCancelled'
  <2>1. ASSUME NEW j \in Job, CancelAndSignal(j) PROVE active.cancel => active'.cancel
    BY <1>0, <2>1 DEF CancelAndSignal
  <2>2. (stopping => stopping') /\ (active' = active \/ \E j \in Job : CancelAndSignal(j))
    BY <1>s, SignalMoves
  <2> QED BY <1>s, <2>1, <2>2 DEF IsCancelled
<1>f. ASSUME loop.pc \in Holding, fence[loop.id] = "cancel" PROVE fence'[loop.id] = "cancel"
  <2>1. loop.id \in Id
    BY <1>f DEF AgentTyped, LoopTyped
  <2> QED BY <1>f, <2>1, FenceMoves DEF ArbInv
<1>1. SignalTrue'
  <2> SUFFICES ASSUME loop'.pc \in Registered, active'.cancel, jobs'[Me'].status = "running" PROVE FALSE
    BY DEF SignalTrue
  <2>1. loop'.id = loop.id /\ loop.pc \in Registered
    BY <1>c, LoopMoves DEF Kept, Register, Launch, SupervisorAsks, Past, Registered, Holding
  <2>2. Me' = Me /\ Me \in DOMAIN jobs /\ Me \in DOMAIN jobs' /\ active.job = Me
    BY <2>1 DEF ActiveRow, Me
  <2>3. ~ Claim(Me)
    BY <2>1, <2>2, OnlyIdleClaims DEF Registered, Holding
  <2>4. jobs[Me].status = "running"
    BY <2>2, <2>3, ClaimStarts
  <2>5. ~ active.cancel
    BY <2>1, <2>4 DEF ArbInv, SignalTrue
  <2>6. PICK j \in Job : CancelAndSignal(j)
    BY <2>1, <2>5, SignalMoves
  <2>7. j = Me
    BY <1>0, <2>2, <2>5, <2>6 DEF CancelAndSignal
  <2>8. jobs[Me] \in Row
    BY <2>2 DEF TypeOK
  <2> QED BY <2>2, <2>6, <2>7, <2>8 DEF CancelAndSignal, Cancel, SetRow, Row
<1>2. AskedTrue'
  <2> SUFFICES ASSUME loop'.pc = "supervising", asked' PROVE IsCancelled'
    BY DEF AskedTrue
  <2>1. CASE SupervisorAsks
    BY <2>1 DEF SupervisorAsks, IsCancelled
  <2>2. CASE ~ SupervisorAsks
    <3>1. loop.pc = "supervising" /\ asked
      BY <1>c, <2>2, LoopMoves DEF Kept, Past, Holding
    <3> QED BY <3>1, <1>s DEF ArbInv, AskedTrue, Registered, Holding
  <2> QED BY <2>1, <2>2
<1>3. ToldTrue'
  <2> SUFFICES ASSUME loop'.pc = "supervising", NEW i \in 1 .. Len(pipe'), pipe'[i] = "cancelled"
               PROVE  asked' \/ fence'[loop'.id] = "cancel"
    BY DEF ToldTrue
  <2>1. \/ /\ loop'.id = loop.id /\ loop.pc = "supervising"
           /\ asked' = asked \/ SupervisorAsks
        \/ Launch /\ pipe' = << >>
    BY <1>c, LoopMoves DEF Kept, Past, Holding, SupervisorAsks
  <2>2. pipe' # << >>
    OBVIOUS
  <2>3. loop'.id = loop.id /\ loop.pc = "supervising" /\ loop.id \in Id /\ (asked => asked')
    BY <2>1, <2>2 DEF SupervisorAsks, AgentTyped, LoopTyped, Holding
  <2>a. ASSUME asked \/ fence[loop.id] = "cancel" PROVE asked' \/ fence'[loop'.id] = "cancel"
    BY <2>3, <2>a, <1>f DEF Holding
  <2>b. ASSUME NEW k \in 1 .. Len(pipe), pipe[k] = "cancelled" PROVE asked' \/ fence'[loop'.id] = "cancel"
    BY <2>3, <2>a, <2>b DEF ArbInv, ToldTrue
  <2>4. CASE Handlers \/ Threads \/ SupervisorAsks \/ Stop
    <3>1. pipe' = pipe
      BY <2>4 DEF Handlers, SubmitJob, CancelQueued, CancelRunning, Delete, RetryBegin,
             RetryFixture, Pause, Threads, Pass, Scan, Settle, CancelThread, CancelFence, CancelAct,
             RetryReturns, RetryAct, SupervisorAsks, Stop, agentVars, workerVars
    <3> QED BY <2>b, <3>1
  <2>5. ASSUME NEW w \in Id, Work(w) \/ WorkerDies(w) \/ \E m \in Terminal : WorkerErrs(w, m)
        PROVE  asked' \/ fence'[loop'.id] = "cancel"
    BY <2>5, <2>a, <2>b, WorkerTells DEF Linked
  <2>6. ~ Launch
    BY <2>3 DEF Launch
  <2>7. CASE SupervisorReads /\ CommitProgress /\ UNCHANGED <<loop, worker>>
    <3>1. ASSUME NEW out, Ended(out) PROVE FALSE
      BY <2>3, <2>7, <3>1 DEF Ended, AgentTyped, LoopTyped
    <3>2. pipe' = Tail(pipe) /\ pipe # << >>
      BY <2>7, <3>1 DEF SupervisorReads, CommitProgress
    <3>3. pipe \in Seq(Message)
      BY DEF AgentTyped, ProcessTyped, Message
    <3>4. i + 1 \in 1 .. Len(pipe) /\ pipe[i + 1] = "cancelled"
      BY <3>2, <3>3
    <3> QED BY <2>b, <3>4
  <2> QED BY <2>4, <2>5, <2>6, <2>7, SupervisionStep DEF LoopStands
<1>4. OutTrue'
  <2> SUFFICES ASSUME loop'.pc = "judging", loop'.out = "cancelled"
               PROVE  IsCancelled' \/ fence'[loop'.id] = "cancel"
    BY DEF OutTrue
  <2>1. \/ Kept /\ ~ Launch
        \/ Launch /\ IsCancelled
        \/ /\ loop.pc = "supervising" /\ UNCHANGED <<stopping, active, fence>>
           /\ asked \/ (pipe # << >> /\ Head(pipe) = "cancelled")
    BY <1>c, LoopMoves DEF Kept, SupervisorAsks, Holding
  <2>2. loop'.id = loop.id
    BY <1>c, LoopMoves DEF Holding
  <2>3. CASE Kept
    <3>1. IsCancelled \/ fence[loop.id] = "cancel"
      BY <2>3 DEF Kept, ArbInv, OutTrue
    <3> QED BY <2>2, <2>3, <3>1, <1>s, <1>f DEF Kept, Registered, Holding
  <2>4. CASE Launch /\ IsCancelled
    BY <2>4 DEF Launch, IsCancelled
  <2>5. CASE /\ loop.pc = "supervising" /\ UNCHANGED <<stopping, active, fence>>
             /\ asked \/ (pipe # << >> /\ Head(pipe) = "cancelled")
    <3>1. pipe \in Seq(Message)
      BY DEF AgentTyped, ProcessTyped, Message
    <3>2. CASE asked
      BY <2>5, <3>2 DEF ArbInv, AskedTrue, IsCancelled
    <3>3. CASE pipe # << >> /\ Head(pipe) = "cancelled"
      <4>1. 1 \in 1 .. Len(pipe) /\ pipe[1] = "cancelled"
        BY <3>1, <3>3
      <4>2. asked \/ fence[loop.id] = "cancel"
        BY <2>5, <4>1 DEF ArbInv, ToldTrue
      <4> QED BY <2>2, <2>5, <3>2, <4>2
    <3> QED BY <2>5, <3>2, <3>3
  <2> QED BY <2>1, <2>3, <2>4, <2>5
<1> QED BY <1>1, <1>2, <1>3, <1>4

\* The invariant is preserved by every step.
LEMMA ArbInvStep == AgentInv /\ ArbInv /\ [AgentNext]_vars => ArbInv'
<1> SUFFICES ASSUME AgentInv, ArbInv, [AgentNext]_vars PROVE ArbInv'
  OBVIOUS
<1>1. AgentInv' /\ [Next]_storeVars
  BY AgentInvStep, UsesStore DEF AgentInv, StoreInv
<1>2. CASE AgentNext
  BY <1>1, <1>2, KnownStep, HeldStep, SignalStep DEF AgentInv, StoreInv, ArbInv
<1>3. CASE UNCHANGED vars
  <2>1. UNCHANGED <<jobs, aliases, receipts, paused, loop, stopping, active, gate, retrying, todo, cancelling,
                    worker, pipe, asked, fence, run>>
    BY <1>3 DEF vars, agentVars, storeVars
  <2>2. (Tried /\ WorkersKnown /\ CraigFenced /\ HandlersFenced)'
    BY <2>1 DEF ArbInv, Tried, WorkersKnown, Known, CraigFenced, HandlersFenced
  <2>3. (HeldKnown /\ SignalTrue /\ AskedTrue /\ ToldTrue /\ OutTrue)'
    BY <2>1 DEF ArbInv, HeldKnown, Known, Me, MyAttempt, SignalTrue, AskedTrue, ToldTrue, OutTrue, IsCancelled
  <2> QED BY <2>2, <2>3 DEF ArbInv
<1> QED BY <1>2, <1>3

\* The step property, of one row.
LEMMA FenceArbitratesStep ==
  ASSUME AgentInv, ArbInv, AgentNext,
         NEW j \in DOMAIN jobs \cap DOMAIN jobs',
         jobs[j].status = "running",
         fence[<<j, jobs[j].attempt>>] = "commit",
         cancelling[j].attempt \in {0, jobs[j].attempt}
  PROVE  jobs'[j].status # "cancelled"
<1> SUFFICES ASSUME jobs'[j].status = "cancelled" PROVE FALSE
  OBVIOUS
<1>0. \A i \in DOMAIN jobs : jobs[i] \in Row
  BY DEF AgentInv, StoreInv, TypeOK
<1>1. j \in Job /\ <<j, jobs[j].attempt>> \in Id
  BY DEF AgentInv, StoreInv, TypeOK, ArbInv, Tried, Id
<1>2. worker[<<j, jobs[j].attempt>>].pc # "none" /\ IsCraig(j)
  BY <1>1 DEF ArbInv, CraigFenced, WorkersKnown, IsCraig
<1>s. ~ UNCHANGED jobs
  OBVIOUS
<1>a. ASSUME NEW i, NEW row, SetRow(i, row), i # j \/ row.status # "cancelled" PROVE FALSE
  BY <1>a DEF SetRow
<1>c. ASSUME NEW i, CancelAndSignal(i) PROVE i = j
  BY <1>a, <1>c DEF CancelAndSignal, Cancel
<1>f. ASSUME NEW r \in BOOLEAN, FailAttempt(r) PROVE FALSE
  BY <1>0, <1>a, <1>f, <1>s DEF FailAttempt, Fail, Running, Row, storeVars
<1>3. CASE Handlers
  <2>1. ASSUME NEW k \in Key, NEW b \in Body, NEW i \in Job, NEW t \in 0 .. MaxClock, SubmitJob(k, b, i, t)
        PROVE  FALSE
    BY <2>1, <1>s DEF SubmitJob, Submit, SubmitReuse, With
  <2>2. ASSUME NEW i \in Job, CancelQueued(i) PROVE FALSE
    <3>1. i = j
      BY <2>2, <1>c DEF CancelQueued
    <3>2. loop.pc = "claimed" /\ loop.id = <<j, jobs[j].attempt>>
      BY <2>2, <3>1, <1>2 DEF CancelQueued
    <3> QED BY <3>2, <1>2 DEF ArbInv, HeldKnown
  <2>3. ASSUME NEW i \in Job, CancelRunning(i) \/ RetryBegin(i) PROVE FALSE
    BY <2>3, <1>s DEF CancelRunning, RetryBegin, storeVars
  <2>4. ASSUME NEW i \in Job, Delete(i) PROVE FALSE
    BY <2>4 DEF Delete, Remove, Without, Restrict
  <2>5. ASSUME NEW i \in Job, NEW t \in 0 .. MaxClock, Retry(i, t) PROVE FALSE
    BY <1>0, <2>5, <1>a DEF Retry, Retriable, Row
  <2>6. ASSUME NEW p \in BOOLEAN, Pause(p) PROVE FALSE
    BY <2>6, <1>s DEF Pause, SetPaused
  <2> QED BY <1>3, <2>1, <2>2, <2>3, <2>4, <2>5, <2>6 DEF Handlers, RetryFixture
<1>4. CASE Threads
  <2>1. ASSUME NEW i \in Job, CancelThread(i) PROVE FALSE
    <3>1. CancelAct(i) /\ CancelAndSignal(i)
      BY <2>1, <1>s DEF CancelThread, CancelFence, CancelAct, storeVars
    <3>2. i = j /\ cancelling[j].pc = "acting"
      BY <3>1, <1>c DEF CancelAct
    <3>3. cancelling[j].attempt \in Attempt /\ fence[<<j, cancelling[j].attempt>>] = "cancel"
      BY <3>2, <1>1 DEF ArbInv, HandlersFenced
    <3>4. cancelling[j].attempt = jobs[j].attempt
      BY <3>3 DEF Attempt
    <3> QED BY <3>3, <3>4
  <2>2. ASSUME NEW who \in Reconciler, NEW i \in Job, NEW a \in Attempt, Settle(who, i, a) PROVE FALSE
    BY <1>0, <2>2, <1>a, <1>s DEF Settle, CompleteRecovered, Unsettled, Row, storeVars
  <2>3. ASSUME NEW who \in Reconciler, Scan(who) PROVE FALSE
    BY <2>3, <1>s DEF Scan, storeVars
  <2>4. ~ RetryReturns
    <3>1. ASSUME NEW t \in 0 .. MaxClock, Retry(retrying, t) PROVE FALSE
      BY <1>0, <3>1, <1>a DEF Retry, Retriable, Row
    <3> QED BY <3>1, <1>s DEF RetryReturns, RetryAct, storeVars
  <2> QED BY <1>4, <2>1, <2>2, <2>3, <2>4 DEF Threads, Pass
<1>5. CASE Loop
  <2>1. ASSUME NEW i \in Job, ClaimJob(i) PROVE FALSE
    BY <1>0, <2>1, <1>a DEF ClaimJob, Claim, Queued, Row
  <2>2. CASE Judge /\ Cancel(Me)
    <3>1. Me = j
      BY <2>2, <1>a DEF Cancel
    <3>2. loop.pc = "judging" /\ loop.out = "cancelled" /\ ~ stopping
      BY <2>2, <1>f, <1>s DEF Judge, Keep, storeVars
    <3>3. loop.id = <<j, jobs[j].attempt>>
      <4>1. loop.id = <<Me, MyAttempt>>
        BY <3>2, MineIsAnAttempt DEF AgentInv, Holding
      <4> QED BY <3>1, <3>2, <4>1 DEF ArbInv, HeldKnown, Holding
    <3>4. active.cancel
      BY <3>2, <3>3 DEF ArbInv, OutTrue, IsCancelled
    <3> QED BY <3>1, <3>2, <3>4 DEF ArbInv, SignalTrue, Registered, Holding
  <2>3. CASE Judge /\ ~ Cancel(Me)
    BY <2>3, <1>f, <1>s DEF Judge, Keep, storeVars
  <2>4. ~ Finish
    <3>1. ~ Complete(Me, MyAttempt)
      BY <1>0, <1>a DEF Complete, Running, Row
    <3> QED BY <3>1, <1>f DEF Finish
  <2>5. ~ Register /\ ~ Finalize /\ ~ Reconciled /\ ~ LoopExits
    BY <1>s DEF Register, Finalize, Reconciled, LoopExits, storeVars
  <2>6. ~ RecoverRows
    BY <1>0 DEF RecoverRows, Recover, Row
  <2> QED BY <1>5, <2>1, <2>2, <2>3, <2>4, <2>5, <2>6 DEF Loop
<1>6. CASE Supervisor
  <2>1. ~ Launch /\ ~ SupervisorAsks /\ ~ SupervisorForces /\ ~ SupervisorMourns
    BY <1>s DEF Launch, SupervisorAsks, SupervisorForces, SupervisorMourns, storeVars
  <2>2. ASSUME Running(Me, MyAttempt), NEW c, NEW n, Progress(Me, MyAttempt, c, n) PROVE FALSE
    BY <1>0, <2>2, <1>a DEF Progress, Running, Row
  <2>3. ~ Step(Me, MyAttempt)
    BY <1>0, <1>a DEF Step, Running, Row
  <2> QED BY <1>6, <1>s, <2>1, <2>2, <2>3 DEF Supervisor, SupervisorReads, CommitProgress, storeVars
<1>7. ~ Start /\ ~ SupervisorTimesOut /\ ~ StoreBreaks /\ ~ TroubleAgain /\ ~ Stop /\ ~ Crash
  BY <1>s DEF Start, SupervisorTimesOut, StoreBreaks, TroubleAgain, Stop, Crash, storeVars
<1>8. ASSUME NEW w \in Id, Work(w) \/ WorkerDies(w) \/ \E m \in Terminal : WorkerErrs(w, m) PROVE FALSE
  BY <1>8, <1>s, ProcessMoves DEF AgentInv, processVars, storeVars
<1> QED BY <1>3, <1>4, <1>5, <1>6, <1>7, <1>8 DEF AgentNext, Mishap

\* At first nothing is decided and nobody has asked.
LEMMA InitArbInv == AgentInit => ArbInv
<1> SUFFICES ASSUME AgentInit PROVE ArbInv
  OBVIOUS
<1>1. Tried /\ WorkersKnown /\ CraigFenced /\ HandlersFenced
  BY DEF AgentInit, Init, NoWorker, NoCancel, Tried, WorkersKnown, CraigFenced, Written, HandlersFenced
<1>2. HeldKnown /\ SignalTrue /\ AskedTrue /\ ToldTrue /\ OutTrue
  BY DEF AgentInit, Resting, HeldKnown, Holding, Registered, SignalTrue, AskedTrue, ToldTrue, OutTrue
<1> QED BY <1>1, <1>2 DEF ArbInv

\* The invariant: no attempt has two workers, and every cancellation in flight
\* has the fence or a signal behind it.
THEOREM AgentArbitration == AgentSpec => []ArbInv
BY InitArbInv, ArbInvStep, AgentInvariant, PTL DEF AgentSpec

\* Whatever else happens, a running attempt that has won the fence is never
\* cancelled by a handler that asked about that attempt, nor by the queue
\* worker; only a handler that asked about an earlier attempt can do it.
THEOREM AgentFenceArbitrates == AgentSpec => FenceArbitrates
<1>1. AgentInv /\ ArbInv /\ [AgentNext]_vars =>
        [\A j \in DOMAIN jobs \cap DOMAIN jobs' :
           /\ jobs[j].status = "running"
           /\ fence[<<j, jobs[j].attempt>>] = "commit"
           /\ cancelling[j].attempt \in {0, jobs[j].attempt}
           => jobs'[j].status # "cancelled"]_vars
  BY FenceArbitratesStep
<1> QED BY <1>1, AgentArbitration, AgentInvariant, PTL DEF AgentSpec, FenceArbitrates

-----------------------------------------------------------------------------
(***************************************************************************)
(* Proofs about the immutable runs and the rows that tell of them, for an  *)
(* Agent whose worker processes end with it: a committed run stays, what   *)
(* the queue calls a success is listed, and (if no file or table fails) no *)
(* committed run is forgotten behind a row that could be retried.          *)
(***************************************************************************)

\* The only worker that is alive removes no run that may still be sealed: what
\* it removes it has listed before it wrote anything itself.
DoomedOpen ==
  \A w \in Id : Live(w) =>
    \A r \in worker[w].doomed : worker[w].pc = "cleaning" /\ run[r] # "committed"

\* A run is only sealed or written by its worker, and never removed once sealed.
LEMMA RunMoves ==
  ASSUME AgentTyped, DoomedOpen, AgentNext, NEW r \in Id
  PROVE  /\ run[r] = "committed" => run'[r] = "committed"
         /\ run'[r] = "committed" => run[r] = "committed" \/ WorkerSeals(r)
         /\ run'[r] # "none" => run[r] # "none" \/ WorkerWrites(r)
<1> DEFINE Goal == /\ run[r] = "committed" => run'[r] = "committed"
                   /\ run'[r] = "committed" => run[r] = "committed" \/ WorkerSeals(r)
                   /\ run'[r] # "none" => run[r] # "none" \/ WorkerWrites(r)
<1>s. run \in [Id -> {"none", "partial", "committed"}]
  BY DEF AgentTyped, ProcessTyped
<1>u. UNCHANGED run => Goal
  OBVIOUS
<1>d. ASSUME NEW w \in Id, run' = Dropped(w) PROVE Goal
  BY <1>s, <1>d DEF Dropped
<1>1. CASE Handlers \/ Threads
  BY <1>1, <1>u DEF Handlers, SubmitJob, CancelQueued, CancelRunning, Delete, RetryBegin,
     RetryFixture, Pause, Threads, Pass, Scan, Settle, CancelThread, CancelFence, CancelAct,
     RetryReturns, RetryAct, agentVars, workerVars
<1>2. CASE Loop
  BY <1>2, <1>u DEF Loop, ClaimJob, Register, Judge, Finalize, Finish, Reconciled, RecoverRows, LoopExits,
     workerVars
<1>3. CASE Supervisor
  BY <1>3, <1>u DEF Supervisor, Launch, SupervisorAsks, SupervisorForces, SupervisorReads, SupervisorMourns
<1>4. CASE Start \/ SupervisorTimesOut \/ StoreBreaks \/ TroubleAgain \/ Stop \/ Crash
  BY <1>4, <1>u DEF Start, SupervisorTimesOut, StoreBreaks, TroubleAgain, Stop, Crash, workerVars
<1>5. ASSUME NEW w \in Id, Work(w) \/ WorkerDies(w) \/ \E m \in Terminal : WorkerErrs(w, m) PROVE Goal
  <2>1. CASE WorkerStarts(w) \/ WorkerProgresses(w) \/ WorkerObeys(w) \/ WorkerReports(w) \/ WorkerDies(w)
    BY <2>1, <1>u DEF WorkerStarts, WorkerProgresses, WorkerObeys, WorkerReports, WorkerDies
  <2>2. CASE WorkerCleans(w)
    <3>1. \A v \in worker[w].doomed : run[v] # "committed"
      BY <2>2 DEF WorkerCleans, DoomedOpen, Live
    <3> QED BY <1>s, <2>2, <3>1 DEF WorkerCleans
  <2>3. CASE WorkerWrites(w)
    BY <1>s, <2>3 DEF WorkerWrites
  <2>4. CASE WorkerReserves(w)
    BY <2>4, <1>d, <1>u DEF WorkerReserves
  <2>5. CASE WorkerAnnounces(w)
    BY <2>5, <1>d, <1>u DEF WorkerAnnounces
  <2>6. CASE WorkerSeals(w)
    <3>1. run' = run \/ (run[w] = "partial" /\ \E s \in {"none", "partial", "committed"} : run' = [run EXCEPT ![w] = s])
      BY <2>6 DEF WorkerSeals
    <3> QED BY <1>s, <2>6, <3>1
  <2>7. ASSUME NEW m \in Terminal, WorkerErrs(w, m) PROVE Goal
    BY <2>7, <1>d DEF WorkerErrs
  <2> QED BY <1>5, <2>1, <2>2, <2>3, <2>4, <2>5, <2>6, <2>7 DEF Work
<1> QED BY <1>1, <1>2, <1>3, <1>4, <1>5 DEF AgentNext, Mishap

\* What a live worker is to remove was not sealed since it listed it.
LEMMA DoomedStep ==
  ASSUME "orphan" \notin Fault, AgentInv, AliveLinked, DoomedOpen, AgentNext
  PROVE  DoomedOpen'
<1> SUFFICES ASSUME NEW w \in Id, Live(w)', NEW r \in worker'[w].doomed
             PROVE  worker'[w].pc = "cleaning" /\ run'[r] # "committed"
  BY DEF DoomedOpen
<1> USE DEF AgentInv
<1>0. worker \in [Id -> [pc : WorkerPc, kind : Kind \cup {Nil}, left : Nat, doomed : SUBSET Id]]
  BY DEF AgentTyped, ProcessTyped
<1>1. AliveLinked' /\ ProcessTyped'
  BY AliveStep, ProcessStep DEF StoreInv
<1>2. r \in Id
  BY <1>1 DEF ProcessTyped
<1>a. ASSUME Live(w), worker'[w].doomed = worker[w].doomed, worker'[w].pc = worker[w].pc, UNCHANGED run
      PROVE  worker'[w].pc = "cleaning" /\ run'[r] # "committed"
  BY <1>a DEF DoomedOpen
<1>u. ASSUME UNCHANGED <<worker, run>> PROVE worker'[w].pc = "cleaning" /\ run'[r] # "committed"
  BY <1>a, <1>u DEF Live
<1>e. ASSUME NEW out, Ended(out), loop.pc \in Holding PROVE FALSE
  <2>1. loop.id \in Id /\ loop'.pc = "judging"
    BY <1>e DEF Ended, AgentTyped, LoopTyped
  <2> QED BY <1>1, <2>1 DEF AliveLinked, Linked
<1>3. CASE Handlers \/ Threads
  BY <1>3, <1>u DEF Handlers, SubmitJob, CancelQueued, CancelRunning, Delete, RetryBegin,
     RetryFixture, Pause, Threads, Pass, Scan, Settle, CancelThread, CancelFence, CancelAct,
     RetryReturns, RetryAct, agentVars, workerVars
<1>4. CASE Loop
  BY <1>4, <1>u DEF Loop, ClaimJob, Register, Judge, Finalize, Finish, Reconciled, RecoverRows, LoopExits,
     workerVars
<1>5. CASE Launch
  <2>1. UNCHANGED run /\ loop.pc = "dispatching" /\ loop.id \in Id
    BY <1>5 DEF Launch, AgentTyped, LoopTyped, Holding
  <2>2. CASE UNCHANGED worker
    BY <2>1, <2>2, <1>u
  <2>3. CASE ~ UNCHANGED worker
    <3>1. worker' = [worker EXCEPT ![loop.id] =
                [pc |-> "starting", kind |-> jobs[Me].body.kind,
                 left |-> jobs[Me].body.units - jobs[Me].completed, doomed |-> {}]]
      BY <1>5, <2>3 DEF Launch
    <3>2. w # loop.id
      BY <1>0, <2>1, <3>1
    <3>3. worker'[w] = worker[w]
      BY <1>0, <3>1, <3>2
    <3> QED BY <2>1, <3>3, <1>a DEF Live
  <2> QED BY <2>2, <2>3
<1>6. CASE SupervisorForces \/ SupervisorTimesOut \/ SupervisorMourns
  BY <1>6, <1>e DEF SupervisorForces, SupervisorTimesOut, SupervisorMourns, Holding
<1>7. CASE SupervisorReads
  BY <1>7, <1>e, <1>u DEF SupervisorReads, CommitProgress, Holding
<1>8. CASE SupervisorAsks \/ Start \/ StoreBreaks \/ TroubleAgain \/ Stop
  BY <1>8, <1>u DEF SupervisorAsks, Start, StoreBreaks, TroubleAgain, Stop, workerVars
<1>9. CASE Crash
  BY <1>0, <1>9 DEF Crash, Live
<1>10. ASSUME NEW v \in Id, Work(v) \/ WorkerDies(v) \/ \E m \in Terminal : WorkerErrs(v, m)
       PROVE  worker'[w].pc = "cleaning" /\ run'[r] # "committed"
  <2>1. v = w
    BY <1>10, <1>1, ProcessMoves DEF AliveLinked, Linked, processVars
  <2>2. worker[w] \in [pc : WorkerPc, kind : Kind \cup {Nil}, left : Nat, doomed : SUBSET Id]
    BY <1>0
  <2>3. worker'[w].pc # "gone"
    BY DEF Live
  <2>4. Live(w)
    BY <1>10, <2>1, ProcessMoves
  <2>5. r \in worker[w].doomed => worker[w].pc = "cleaning"
    BY <2>4 DEF DoomedOpen
  <2>a. ASSUME NEW m, Emits(w, m, "gone") PROVE FALSE
    BY <1>0, <2>3, <2>a DEF Emits, Becomes
  <2>b. ASSUME NEW pc, Becomes(w, pc), worker[w].pc # "cleaning" \/ pc = "gone" PROVE FALSE
    BY <1>0, <2>3, <2>5, <2>b DEF Becomes
  <2>6. CASE WorkerStarts(w)
    <3>1. worker[w].pc = "starting" /\ Linked(w) /\ UNCHANGED run
      BY <1>0, <2>3, <2>6 DEF WorkerStarts
    <3>2. CASE worker[w].kind = "craig"
      <4>1. worker'[w].pc = "cleaning" /\ worker'[w].doomed = {x \in Id : run[x] = "partial"}
        BY <1>0, <2>2, <2>6, <3>1, <3>2 DEF WorkerStarts
      <4> QED BY <3>1, <4>1
    <3>3. CASE worker[w].kind # "craig"
      <4>1. worker'[w].doomed = worker[w].doomed
        BY <1>0, <2>2, <2>6, <3>1, <3>3 DEF WorkerStarts
      <4> QED BY <2>5, <3>1, <4>1
    <3> QED BY <3>2, <3>3
  <2>7. ~ WorkerCleans(w)
    <3> SUFFICES ASSUME WorkerCleans(w) PROVE FALSE
      OBVIOUS
    <3>1. PICK pc : worker' = [worker EXCEPT ![w] = [@ EXCEPT !.pc = pc, !.doomed = {}]]
      BY DEF WorkerCleans
    <3>2. worker'[w] = [worker[w] EXCEPT !.pc = pc, !.doomed = {}]
      BY <1>0, <3>1
    <3>3. worker'[w].doomed = {}
      BY <2>2, <3>2
    <3> QED BY <3>3
  <2>8. ~ WorkerProgresses(w)
    <3>1. CASE WorkerProgresses(w) /\ worker' = [worker EXCEPT ![w].left = @ - 1]
      <4>1. worker'[w].doomed = worker[w].doomed
        BY <1>0, <2>2, <3>1
      <4> QED BY <2>5, <3>1, <4>1 DEF WorkerProgresses
    <3> QED BY <2>b, <3>1 DEF WorkerProgresses
  <2>9. ~ WorkerObeys(w) /\ ~ WorkerReports(w) /\ \A m \in Terminal : ~ WorkerErrs(w, m)
    BY <2>a DEF WorkerObeys, WorkerReports, WorkerErrs
  <2>10. ~ WorkerWrites(w) /\ ~ WorkerDies(w) /\ ~ WorkerAnnounces(w)
    BY <2>b DEF WorkerWrites, WorkerDies, WorkerAnnounces
  <2>11. ~ WorkerReserves(w) /\ ~ WorkerSeals(w)
    BY <2>a, <2>b DEF WorkerReserves, WorkerSeals
  <2> QED BY <1>10, <2>1, <2>6, <2>7, <2>8, <2>9, <2>10, <2>11 DEF Work
<1> QED BY <1>3, <1>4, <1>5, <1>6, <1>7, <1>8, <1>9, <1>10 DEF AgentNext, Supervisor, Mishap

\* Without orphans a worker is alone, and so is what it removes.
Alone == AliveLinked /\ DoomedOpen

\* The invariant is preserved by every step.
LEMMA AloneStep ==
  ASSUME "orphan" \notin Fault
  PROVE  AgentInv /\ Alone /\ [AgentNext]_vars => Alone'
<1> SUFFICES ASSUME AgentInv, Alone, [AgentNext]_vars PROVE Alone'
  OBVIOUS
<1>1. CASE AgentNext
  BY <1>1, AliveStep, DoomedStep DEF Alone, AgentInv
<1>2. CASE UNCHANGED vars
  BY <1>2 DEF Alone, AliveLinked, DoomedOpen, Live, Linked, vars, agentVars
<1> QED BY <1>1, <1>2

\* Without orphans a worker is alone with the runs of its job, in every state.
THEOREM AgentAlone == "orphan" \notin Fault /\ AgentSpec => []Alone
<1> SUFFICES ASSUME "orphan" \notin Fault PROVE AgentSpec => []Alone
  OBVIOUS
<1>1. AgentInit => Alone
  BY DEF AgentInit, Alone, AliveLinked, DoomedOpen, NoWorker, Live
<1>2. AgentInv /\ Alone /\ [AgentNext]_vars => Alone'
  BY AloneStep
<1> QED BY <1>1, <1>2, AgentInvariant, PTL DEF AgentSpec

\* A committed run is never removed if no worker outlives its Agent: the orphan
\* that the run orphan shows is the only way to lose one.
THEOREM AgentCommittedStays == "orphan" \notin Fault /\ AgentSpec => CommittedStays
<1> SUFFICES ASSUME "orphan" \notin Fault PROVE AgentSpec => CommittedStays
  OBVIOUS
<1>1. AgentInv /\ Alone /\ [AgentNext]_vars =>
        [\A w \in Id : run[w] = "committed" => run'[w] = "committed"]_vars
  BY RunMoves DEF AgentInv, Alone
<1> QED BY <1>1, AgentAlone, AgentInvariant, PTL DEF AgentSpec, CommittedStays
-----------------------------------------------------------------------------
\* What has succeeded has the committed run of its attempt: on the row ...
RowsSealed ==
  \A j \in DOMAIN jobs :
    IsCraig(j) /\ jobs[j].status = "succeeded" => run[<<j, jobs[j].attempt>>] = "committed"

\* ... on the receipt of a row that was removed, and before store.complete.
Sealed(j, receipt) ==
  receipt.status = "succeeded" => receipt.attempt \in Attempt /\ run[<<j, receipt.attempt>>] = "committed"
ReceiptsSealed ==
  \A k \in DOMAIN aliases :
    aliases[k].body.kind = "craig" /\ aliases[k].job \in DOMAIN receipts =>
      Sealed(aliases[k].job, receipts[aliases[k].job])
FinishSealed == loop.pc = "completing" => run[loop.id] = "committed"
SealInv == RowsSealed /\ ReceiptsSealed /\ FinishSealed

\* The rows that succeeded, and the three ways to become one of them.
LEMMA SuccessMoves ==
  ASSUME TypeOK, AgentTyped, FinishSealed, AgentNext,
         NEW j \in DOMAIN jobs', jobs'[j].status = "succeeded", jobs'[j].body.kind = "craig"
  PROVE  \/ j \in DOMAIN jobs /\ jobs'[j] = jobs[j]
         \/ jobs'[j].attempt \in Attempt /\ run[<<j, jobs'[j].attempt>>] = "committed"
<1> DEFINE Goal == \/ j \in DOMAIN jobs /\ jobs'[j] = jobs[j]
                   \/ jobs'[j].attempt \in Attempt /\ run[<<j, jobs'[j].attempt>>] = "committed"
<1>0. \A i \in DOMAIN jobs : jobs[i] \in Row
  BY DEF TypeOK
<1>u. UNCHANGED jobs => Goal
  OBVIOUS
<1>a. ASSUME NEW i \in DOMAIN jobs, NEW row, SetRow(i, row), row.status # "succeeded" \/ row.body.kind # "craig"
      PROVE  Goal
  BY <1>a DEF SetRow
<1>c. ASSUME NEW i, Cancel(i) PROVE Goal
  BY <1>0, <1>c, <1>a DEF Cancel, Active, Row
<1>t. ASSUME NEW i, NEW t, Retry(i, t) PROVE Goal
  BY <1>0, <1>t, <1>a DEF Retry, Retriable, Row
<1>f. ASSUME NEW r \in BOOLEAN, FailAttempt(r) PROVE Goal
  <2>1. CASE Fail(Me, MyAttempt, r)
    BY <1>0, <1>a, <2>1 DEF Fail, Running, Row
  <2> QED BY <1>f, <1>u, <2>1 DEF FailAttempt, storeVars
<1>1. CASE Handlers
  <2>1. ASSUME NEW k \in Key, NEW b \in Body, NEW i \in Job, NEW t \in 0 .. MaxClock, Submit(k, b, i, t)
        PROVE  Goal
    BY <2>1 DEF Submit, With, NewRow
  <2>2. ASSUME NEW k \in Key, NEW b \in Body, NEW i \in Job, SubmitReuse(k, b, i) PROVE Goal
    BY <2>2, <1>u DEF SubmitReuse
  <2>3. ASSUME NEW i \in Job, Remove(i) PROVE Goal
    BY <2>3 DEF Remove, Without, Restrict
  <2>4. ASSUME NEW i \in Job, CancelQueued(i) PROVE Goal
    BY <2>4, <1>c DEF CancelQueued, CancelAndSignal
  <2>5. ASSUME NEW i \in Job, CancelRunning(i) \/ RetryBegin(i) PROVE Goal
    BY <2>5, <1>u DEF CancelRunning, RetryBegin, storeVars
  <2>6. ASSUME NEW p \in BOOLEAN, Pause(p) PROVE Goal
    BY <2>6, <1>u DEF Pause, SetPaused
  <2> QED BY <1>1, <1>t, <2>1, <2>2, <2>3, <2>4, <2>5, <2>6 DEF Handlers, SubmitJob, Delete, RetryFixture
<1>2. CASE Threads
  <2>1. ASSUME NEW who \in Reconciler, NEW i \in Job, NEW a \in Attempt, Settle(who, i, a) PROVE Goal
    <3>1. CASE run[<<i, a>>] = "committed" /\ CompleteRecovered(i, a)
      <4>1. \E row : SetRow(i, row) /\ row.attempt = a /\ i \in DOMAIN jobs
        BY <1>0, <3>1 DEF CompleteRecovered, Unsettled, Row
      <4> QED BY <2>1, <3>1, <4>1 DEF SetRow
    <3> QED BY <2>1, <3>1, <1>u DEF Settle, storeVars
  <2>2. ASSUME NEW who \in Reconciler, Scan(who) PROVE Goal
    BY <2>2, <1>u DEF Scan, storeVars
  <2>3. ASSUME NEW i \in Job, CancelThread(i) PROVE Goal
    BY <2>3, <1>u, <1>c DEF CancelThread, CancelFence, CancelAct, CancelAndSignal, storeVars
  <2>4. CASE RetryReturns
    BY <2>4, <1>u, <1>t DEF RetryReturns, RetryAct, storeVars
  <2> QED BY <1>2, <2>1, <2>2, <2>3, <2>4 DEF Threads, Pass
<1>3. CASE Loop
  <2>1. ASSUME NEW i \in Job, ClaimJob(i) PROVE Goal
    BY <1>0, <2>1, <1>a DEF ClaimJob, Claim, Queued, Row
  <2>2. CASE Register \/ Finalize \/ Reconciled \/ LoopExits
    BY <2>2, <1>u DEF Register, Finalize, Reconciled, LoopExits, storeVars
  <2>3. CASE Judge
    BY <2>3, <1>c, <1>f, <1>u DEF Judge, Keep, storeVars
  <2>4. CASE Finish
    <3>1. CASE Complete(Me, MyAttempt)
      <4>1. MyAttempt \in Attempt /\ run[<<Me, MyAttempt>>] = "committed"
        BY <2>4, MineIsAnAttempt DEF Finish, FinishSealed, Holding
      <4>2. \E row : SetRow(Me, row) /\ row.attempt = MyAttempt /\ Me \in DOMAIN jobs
        BY <1>0, <3>1 DEF Complete, Running, Row
      <4> QED BY <4>1, <4>2 DEF SetRow
    <3> QED BY <2>4, <3>1, <1>f DEF Finish
  <2>5. CASE RecoverRows
    BY <1>0, <2>5 DEF RecoverRows, Recover, Row
  <2> QED BY <1>3, <2>1, <2>2, <2>3, <2>4, <2>5 DEF Loop
<1>4. CASE Supervisor
  <2>1. CASE Launch \/ SupervisorAsks \/ SupervisorForces \/ SupervisorMourns
    BY <2>1, <1>u DEF Launch, SupervisorAsks, SupervisorForces, SupervisorMourns, storeVars
  <2>2. CASE SupervisorReads
    <3>1. ASSUME NEW c, NEW n, Progress(Me, MyAttempt, c, n) PROVE Goal
      BY <1>0, <3>1, <1>a DEF Progress, Running, Row
    <3>2. CASE Step(Me, MyAttempt)
      BY <1>0, <3>2, <1>a DEF Step, Running, Row
    <3> QED BY <2>2, <1>u, <3>1, <3>2 DEF SupervisorReads, CommitProgress, storeVars
  <2> QED BY <1>4, <2>1, <2>2 DEF Supervisor
<1>5. CASE Start \/ SupervisorTimesOut \/ StoreBreaks \/ TroubleAgain \/ Stop \/ Crash
  BY <1>5, <1>u DEF Start, SupervisorTimesOut, StoreBreaks, TroubleAgain, Stop, Crash, storeVars
<1>6. ASSUME NEW w \in Id, Work(w) \/ WorkerDies(w) \/ \E m \in Terminal : WorkerErrs(w, m) PROVE Goal
  BY <1>6, <1>u, ProcessMoves DEF processVars, storeVars
<1> QED BY <1>1, <1>2, <1>3, <1>4, <1>5, <1>6 DEF AgentNext, Mishap

\* A key and a receipt come only from these operations of the table.
LEMMA PapersMove ==
  ASSUME [Next]_storeVars
  PROVE  \/ UNCHANGED <<aliases, receipts>>
         \/ \E k \in Key, b \in Body, j \in Job, t \in 0 .. MaxClock : Submit(k, b, j, t)
         \/ \E k \in Key, b \in Body, j \in Job : SubmitReuse(k, b, j)
         \/ \E j \in Job : Remove(j)
BY DEF Next, storeVars, Cancel, Claim, Retry, Report, Progress, Complete, CompleteRecovered, Step, Fail,
   Recover, SetPaused

\* The loop only completes an attempt whose run was sealed.
LEMMA FinishSealedStep ==
  ASSUME AgentTyped, DoomedOpen, FinishSealed, AgentNext
  PROVE  FinishSealed'
<1> SUFFICES ASSUME loop'.pc = "completing" PROVE run'[loop'.id] = "committed"
  BY DEF FinishSealed
<1>0. loop \in [pc : LoopPc, id : Id \cup {Nil}, out : Terminal \cup {Nil}]
  BY DEF AgentTyped, LoopTyped
<1>1. loop'.pc \in Holding /\ ~ \E j \in Job : ClaimJob(j)
  BY DEF Holding, ClaimJob
<1>2. loop'.id = loop.id
  BY <1>1, LoopMoves
<1>b. ~ Trouble /\ ~ Release
  BY DEF Trouble, Release, Resting
<1>f. ASSUME NEW r \in BOOLEAN, FailAttempt(r) PROVE FALSE
  BY <1>0, <1>b, <1>f DEF FailAttempt
<1>3. loop.pc = "completing" \/ (run[loop.id] = "committed" /\ loop.pc = "finalizing")
  <2>1. CASE Kept
    BY <2>1 DEF Kept
  <2>2. CASE ~ Kept
    <3>1. loop.pc \in Past
      BY <1>1, <2>2, LoopMoves
    <3>2. CASE Loop
      <4>1. ~ Judge
        BY <1>0, <1>b, <1>f DEF Judge, Keep
      <4>2. ~ Finish
        BY <1>b, <1>f DEF Finish
      <4>3. ~ Register /\ ~ Reconciled /\ ~ RecoverRows /\ ~ LoopExits
        BY <1>b, <3>1 DEF Register, Reconciled, RecoverRows, LoopExits, Resting, Past
      <4>4. Finalize
        BY <1>1, <3>2, <4>1, <4>2, <4>3 DEF Loop
      <4> QED BY <1>0, <4>4 DEF Finalize
    <3>3. CASE ~ Loop
      <4>1. LoopStands => UNCHANGED loop
        BY LoopStandsStill DEF SupervisorAsks
      <4>2. ~ Launch /\ ~ SupervisorForces /\ ~ SupervisorTimesOut /\ ~ SupervisorMourns /\ ~ SupervisorReads
        BY <3>1 DEF Launch, SupervisorForces, SupervisorTimesOut, SupervisorMourns, SupervisorReads, Past
      <4>3. ~ Start /\ ~ Crash /\ ~ StoreBreaks /\ ~ TroubleAgain
        BY <1>b DEF Start, Crash, StoreBreaks, TroubleAgain, Resting
      <4> QED BY <2>2, <3>3, <4>1, <4>2, <4>3 DEF AgentNext, Mishap, Supervisor, LoopStands, Kept
    <3> QED BY <3>2, <3>3
  <2> QED BY <2>1, <2>2
<1>4. loop.id \in Id /\ run[loop.id] = "committed"
  BY <1>3 DEF AgentTyped, LoopTyped, Holding, FinishSealed
<1> QED BY <1>2, <1>4, RunMoves

\* Rows and receipts of successes keep the runs they tell of.
LEMMA SealStep ==
  ASSUME "orphan" \notin Fault
  PROVE  AgentInv /\ Alone /\ SealInv /\ [AgentNext]_vars => SealInv'
<1> SUFFICES ASSUME AgentInv, Alone, SealInv, AgentNext PROVE SealInv'
  BY DEF SealInv, RowsSealed, ReceiptsSealed, Sealed, FinishSealed, IsCraig, vars, storeVars, agentVars
<1> USE DEF AgentInv, SealInv, StoreInv
<1>0. \A j \in DOMAIN jobs : jobs[j] \in Row /\ j \in Job
  BY DEF TypeOK
<1>r. ASSUME NEW j \in Job, NEW a \in Attempt, run[<<j, a>>] = "committed" PROVE run'[<<j, a>>] = "committed"
  BY <1>r, RunMoves DEF Alone, Id
<1>t. ASSUME NEW j \in DOMAIN jobs, jobs[j].status = "succeeded" PROVE jobs[j].attempt \in Attempt
  BY <1>0, <1>t DEF ResultIsCurrent, Row
<1>s. [Next]_storeVars
  BY UsesStore DEF vars
<1>1. TypeOK'
  BY <1>s, TypeStep
<1>2. RowsSealed'
  <2> SUFFICES ASSUME NEW j \in DOMAIN jobs', jobs'[j].status = "succeeded", jobs'[j].body.kind = "craig"
               PROVE  run'[<<j, jobs'[j].attempt>>] = "committed"
    BY DEF RowsSealed, IsCraig
  <2>1. CASE j \in DOMAIN jobs /\ jobs'[j] = jobs[j]
    BY <1>0, <1>r, <1>t, <2>1 DEF RowsSealed, IsCraig
  <2>2. j \in Job
    BY <1>1 DEF TypeOK
  <2> QED BY <1>r, <2>1, <2>2, SuccessMoves
<1>3. ReceiptsSealed'
  <2>1. ASSUME NEW j \in Job, NEW receipt, Sealed(j, receipt)
        PROVE  receipt.status = "succeeded" => receipt.attempt \in Attempt /\ run'[<<j, receipt.attempt>>] = "committed"
    BY <1>r, <2>1 DEF Sealed
  <2>2. ASSUME NEW k \in DOMAIN aliases, aliases[k].body.kind = "craig", aliases[k].job \in DOMAIN receipts
        PROVE  Sealed(aliases[k].job, receipts[aliases[k].job])'
    <3>1. aliases[k].job \in Job
      BY DEF TypeOK
    <3>2. aliases'[k] = aliases[k] /\ receipts'[aliases[k].job] = receipts[aliases[k].job]
      <4>1. ASSUME NEW j \in Job, Remove(j) PROVE UNCHANGED aliases /\ j # aliases[k].job
                                                /\ receipts'[aliases[k].job] = receipts[aliases[k].job]
        BY <2>2, <4>1 DEF Remove, With, AliasResolves
      <4> QED BY <1>s, <4>1, PapersMove DEF Submit, SubmitReuse, With
    <3> QED BY <2>1, <2>2, <3>1, <3>2 DEF Sealed, ReceiptsSealed
  <2> SUFFICES ASSUME NEW k \in DOMAIN aliases', aliases'[k].body.kind = "craig",
                      aliases'[k].job \in DOMAIN receipts'
               PROVE  Sealed(aliases[k].job, receipts[aliases[k].job])'
    BY DEF ReceiptsSealed
  <2>3. CASE UNCHANGED <<aliases, receipts>>
    BY <2>2, <2>3
  <2>4. ASSUME NEW l \in Key, NEW b \in Body, NEW j \in Job, NEW t \in 0 .. MaxClock, Submit(l, b, j, t)
        PROVE  k \in DOMAIN aliases /\ aliases[k].job \in DOMAIN receipts /\ aliases[k] = aliases'[k]
    BY <2>4 DEF Submit, With
  <2>5. ASSUME NEW l \in Key, NEW b \in Body, NEW j \in Job, SubmitReuse(l, b, j)
        PROVE  k \in DOMAIN aliases /\ aliases[k].job \in DOMAIN receipts /\ aliases[k] = aliases'[k]
    BY <2>5 DEF SubmitReuse, With, Active, AliasResolves
  <2>6. ASSUME NEW j \in Job, Remove(j) PROVE Sealed(aliases[k].job, receipts[aliases[k].job])'
    <3>1. k \in DOMAIN aliases /\ aliases[k] = aliases'[k]
      BY <2>6 DEF Remove
    <3>2. CASE aliases[k].job # j
      BY <2>2, <2>6, <3>1, <3>2 DEF Remove, With
    <3>3. CASE aliases[k].job = j
      <4>1. j \in DOMAIN jobs /\ jobs[j].body.kind = "craig"
        BY <2>6, <3>1, <3>3 DEF Remove, AliasResolves
      <4>2. receipts'[j].status = jobs[j].status /\ receipts'[j].attempt = jobs[j].attempt
        BY <2>6 DEF Remove, With
      <4> QED BY <1>r, <1>t, <3>1, <3>3, <4>1, <4>2 DEF Sealed, RowsSealed, IsCraig
    <3> QED BY <3>2, <3>3
  <2> QED BY <1>s, <2>2, <2>3, <2>4, <2>5, <2>6, PapersMove
<1>4. FinishSealed'
  BY FinishSealedStep DEF Alone
<1> QED BY <1>2, <1>3, <1>4

\* What the queue calls a success is listed, on the row and after its removal,
\* if no worker outlives its Agent.
THEOREM AgentSuccessIsVisible == "orphan" \notin Fault /\ AgentSpec => []SuccessIsVisible
<1> SUFFICES ASSUME "orphan" \notin Fault PROVE AgentSpec => []SuccessIsVisible
  OBVIOUS
<1>1. AgentInit => SealInv
  BY DEF AgentInit, Init, Resting, SealInv, RowsSealed, ReceiptsSealed, FinishSealed
<1>2. AgentInv /\ Alone /\ SealInv /\ [AgentNext]_vars => SealInv'
  BY SealStep
<1>3. AgentInv /\ SealInv /\ RunHasFence => SuccessIsVisible
  <2> SUFFICES ASSUME AgentInv, SealInv, RunHasFence PROVE SuccessIsVisible
    OBVIOUS
  <2>1. ASSUME NEW j \in DOMAIN jobs, IsCraig(j), jobs[j].status = "succeeded"
        PROVE  Visible(j, jobs[j].attempt)
    <3>1. <<j, jobs[j].attempt>> \in Id
      BY <2>1 DEF AgentInv, StoreInv, TypeOK, Row, ResultIsCurrent, Id
    <3> QED BY <2>1, <3>1 DEF SealInv, RowsSealed, RunHasFence, Visible
  <2>2. ASSUME NEW k \in DOMAIN aliases, aliases[k].body.kind = "craig",
               aliases[k].job \in DOMAIN receipts \ DOMAIN jobs, receipts[aliases[k].job].status = "succeeded"
        PROVE  Visible(aliases[k].job, receipts[aliases[k].job].attempt)
    <3>1. <<aliases[k].job, receipts[aliases[k].job].attempt>> \in Id
      BY <2>2 DEF AgentInv, StoreInv, TypeOK, SealInv, ReceiptsSealed, Sealed, Id
    <3> QED BY <2>2, <3>1 DEF SealInv, ReceiptsSealed, Sealed, RunHasFence, Visible
  <2> QED BY <2>1, <2>2 DEF SuccessIsVisible
<1> QED BY <1>1, <1>2, <1>3, AgentAlone, AgentRunHasFence, AgentInvariant, PTL DEF AgentSpec
-----------------------------------------------------------------------------
\* What a row may be in the hands of the queue worker, until that fails it.
OnItsWay == {"running", "cancelled", "succeeded"}
HeldOnItsWay == loop.pc \in Ending /\ Me \in DOMAIN jobs => jobs[Me].status \in OnItsWay

\* A row fails, or is interrupted, in the hands of a loop that lets go of it.
LEMMA RowFails ==
  ASSUME TypeOK, AgentTyped, AgentNext, NEW j \in DOMAIN jobs \cap DOMAIN jobs',
         jobs[j].status \in OnItsWay, loop'.pc \in Ending
  PROVE  jobs'[j].status \in OnItsWay
<1> DEFINE Goal == jobs'[j].status \in OnItsWay
<1>0. \A i \in DOMAIN jobs : jobs[i] \in Row
  BY DEF TypeOK
<1>l. loop \in [pc : LoopPc, id : Id \cup {Nil}, out : Terminal \cup {Nil}]
  BY DEF AgentTyped, LoopTyped
<1>u. UNCHANGED jobs => Goal
  OBVIOUS
<1>b. ~ Trouble /\ ~ Release /\ loop' # Resting("halting") /\ loop' # Resting("down") /\ loop' # Resting("booting")
  BY DEF Trouble, Release, Resting, Ending, Holding
<1>a. ASSUME NEW i \in DOMAIN jobs, NEW row, SetRow(i, row), jobs[i].status \in OnItsWay => row.status \in OnItsWay
      PROVE  Goal
  BY <1>a DEF SetRow
<1>c. ASSUME NEW i, Cancel(i) PROVE Goal
  BY <1>0, <1>c, <1>a DEF Cancel, Active, Row, OnItsWay
<1>t. ASSUME NEW i, NEW t, Retry(i, t) PROVE Goal
  BY <1>0, <1>t, <1>a DEF Retry, Retriable, Row, OnItsWay
<1>f. ASSUME NEW r \in BOOLEAN, FailAttempt(r) PROVE FALSE
  BY <1>l, <1>b, <1>f DEF FailAttempt, Ending
<1>1. CASE Handlers
  <2>1. ASSUME NEW k \in Key, NEW b \in Body, NEW i \in Job, NEW t \in 0 .. MaxClock, Submit(k, b, i, t)
        PROVE  Goal
    BY <2>1 DEF Submit, With
  <2>2. ASSUME NEW k \in Key, NEW b \in Body, NEW i \in Job, SubmitReuse(k, b, i) PROVE Goal
    BY <2>2, <1>u DEF SubmitReuse
  <2>3. ASSUME NEW i \in Job, Remove(i) PROVE Goal
    BY <2>3 DEF Remove, Without, Restrict
  <2>4. ASSUME NEW i \in Job, CancelQueued(i) PROVE Goal
    BY <2>4, <1>c DEF CancelQueued, CancelAndSignal
  <2>5. ASSUME NEW i \in Job, CancelRunning(i) \/ RetryBegin(i) PROVE Goal
    BY <2>5, <1>u DEF CancelRunning, RetryBegin, storeVars
  <2>6. ASSUME NEW p \in BOOLEAN, Pause(p) PROVE Goal
    BY <2>6, <1>u DEF Pause, SetPaused
  <2> QED BY <1>1, <1>t, <2>1, <2>2, <2>3, <2>4, <2>5, <2>6 DEF Handlers, SubmitJob, Delete, RetryFixture
<1>2. CASE Threads
  <2>1. ASSUME NEW who \in Reconciler, NEW i \in Job, NEW a \in Attempt, Settle(who, i, a) PROVE Goal
    <3>1. CASE CompleteRecovered(i, a)
      BY <1>0, <1>a, <3>1 DEF CompleteRecovered, Unsettled, Row, OnItsWay
    <3> QED BY <2>1, <3>1, <1>u DEF Settle, storeVars
  <2>2. ASSUME NEW who \in Reconciler, Scan(who) PROVE Goal
    BY <2>2, <1>u DEF Scan, storeVars
  <2>3. ASSUME NEW i \in Job, CancelThread(i) PROVE Goal
    BY <2>3, <1>u, <1>c DEF CancelThread, CancelFence, CancelAct, CancelAndSignal, storeVars
  <2>4. CASE RetryReturns
    BY <2>4, <1>u, <1>t DEF RetryReturns, RetryAct, storeVars
  <2> QED BY <1>2, <2>1, <2>2, <2>3, <2>4 DEF Threads, Pass
<1>3. CASE Loop
  <2>1. ASSUME NEW i \in Job, ClaimJob(i) PROVE Goal
    BY <1>0, <2>1, <1>a DEF ClaimJob, Claim, Queued, Row, OnItsWay
  <2>2. CASE Register \/ Finalize \/ Reconciled \/ LoopExits
    BY <2>2, <1>u DEF Register, Finalize, Reconciled, LoopExits, storeVars
  <2>3. CASE Judge
    BY <2>3, <1>c, <1>f, <1>u DEF Judge, Keep, storeVars
  <2>4. ~ Finish
    BY <1>b, <1>f DEF Finish
  <2>5. ~ RecoverRows
    BY <1>b DEF RecoverRows
  <2> QED BY <1>3, <2>1, <2>2, <2>3, <2>4, <2>5 DEF Loop
<1>4. CASE Supervisor
  <2>1. CASE Launch \/ SupervisorAsks \/ SupervisorForces \/ SupervisorMourns
    BY <2>1, <1>u DEF Launch, SupervisorAsks, SupervisorForces, SupervisorMourns, storeVars
  <2>2. CASE SupervisorReads
    <3>1. ASSUME NEW c, NEW n, Progress(Me, MyAttempt, c, n) PROVE Goal
      BY <1>0, <3>1, <1>a DEF Progress, Running, Row
    <3>2. CASE Step(Me, MyAttempt)
      BY <1>0, <3>2, <1>a DEF Step, Running, Row, OnItsWay
    <3> QED BY <2>2, <1>u, <3>1, <3>2 DEF SupervisorReads, CommitProgress, storeVars
  <2> QED BY <1>4, <2>1, <2>2 DEF Supervisor
<1>5. CASE Start \/ SupervisorTimesOut \/ StoreBreaks \/ TroubleAgain \/ Stop \/ Crash
  BY <1>5, <1>u DEF Start, SupervisorTimesOut, StoreBreaks, TroubleAgain, Stop, Crash, storeVars
<1>6. ASSUME NEW w \in Id, Work(w) \/ WorkerDies(w) \/ \E m \in Terminal : WorkerErrs(w, m) PROVE Goal
  BY <1>6, <1>u, ProcessMoves DEF processVars, storeVars
<1> QED BY <1>1, <1>2, <1>3, <1>4, <1>5, <1>6 DEF AgentNext, Mishap

\* The row in the hands of the loop fails only when the loop lets go of it.
LEMMA HeldOnItsWayStep ==
  ASSUME AgentInv, HeldKnown, HeldOnItsWay, AgentNext
  PROVE  HeldOnItsWay'
<1> SUFFICES ASSUME loop'.pc \in Ending, loop'.id[1] \in DOMAIN jobs'
             PROVE  jobs'[loop'.id[1]].status \in OnItsWay
  BY DEF HeldOnItsWay, Me
<1> USE DEF AgentInv, StoreInv
<1>0. loop \in [pc : LoopPc, id : Id \cup {Nil}, out : Terminal \cup {Nil}]
  BY DEF AgentTyped, LoopTyped
<1>1. ASSUME NEW j \in Job, ClaimJob(j) PROVE jobs'[loop'.id[1]].status \in OnItsWay
  <2>1. loop'.id[1] = j /\ j \in DOMAIN jobs /\ jobs[j] \in Row
    BY <1>1 DEF ClaimJob, Claim, Queued, TypeOK
  <2> QED BY <1>1, <2>1 DEF ClaimJob, Claim, SetRow, Row, OnItsWay
<1>2. CASE ~ \E j \in Job : ClaimJob(j)
  <2>1. loop'.id = loop.id /\ loop'.pc \in Holding
    BY <1>2, LoopMoves DEF Ending
  <2>2. loop.pc \in Ending
    <3>1. CASE Kept
      BY <3>1 DEF Kept
    <3>2. CASE loop.pc = "reconciling" /\ ~ Kept
      <4>1. LoopStands => Kept
        BY LoopStandsStill DEF SupervisorAsks, Kept
      <4>2. loop' # Resting("idle") /\ loop' # Resting("halting") /\ loop' # Resting("down")
            /\ loop' # Resting("booting") /\ loop' # Resting("trouble")
        BY DEF Resting, Ending, Holding
      <4>3. ~ Register /\ ~ Judge /\ ~ Finalize /\ ~ Finish /\ (~ Supervisor \/ LoopStands)
        BY <3>2 DEF Register, Judge, Finalize, Finish, Supervisor, Launch, SupervisorForces, SupervisorReads,
           SupervisorMourns, LoopStands
      <4>4. ~ Reconciled /\ ~ RecoverRows /\ ~ LoopExits /\ ~ Start /\ ~ StoreBreaks /\ ~ TroubleAgain /\ ~ Crash
        BY <4>2 DEF Reconciled, RecoverRows, LoopExits, Start, StoreBreaks, TroubleAgain, Crash, Trouble, Release
      <4>5. ~ SupervisorTimesOut
        BY <3>2 DEF SupervisorTimesOut
      <4> QED BY <1>2, <3>2, <4>1, <4>3, <4>4, <4>5 DEF AgentNext, Loop, Mishap, LoopStands
    <3>3. CASE loop.pc # "reconciling" /\ ~ Kept
      <4>1. loop.pc \in {"claimed", "dispatching", "supervising"} \cup Past
        BY <1>2, <2>1, <3>3, LoopMoves DEF Register, Launch
      <4> QED BY <3>3, <4>1 DEF Ending, Holding, Past
    <3> QED BY <3>1, <3>2, <3>3
  <2>3. Known(loop.id) /\ loop.id \in Id /\ [Next]_storeVars
    BY <2>2, UsesStore DEF HeldKnown, AgentTyped, LoopTyped, Ending, vars
  <2>4. Me \in DOMAIN jobs \cap DOMAIN jobs'
    BY <2>1, <2>3, KnownStays DEF Me
  <2> QED BY <2>1, <2>2, <2>4, RowFails DEF HeldOnItsWay, Me
<1> QED BY <1>1, <1>2

\* A row is stopped where it was stopped already, or from running.
LEMMA RowStops ==
  ASSUME TypeOK, [Next]_storeVars, NEW j \in DOMAIN jobs', jobs'[j].status \in {"running", "interrupted", "failed"}
  PROVE  /\ j \in DOMAIN jobs
         /\ \/ Claim(j)
            \/ jobs'[j] = jobs[j]
            \/ jobs[j].status = "running" /\ jobs'[j].attempt = jobs[j].attempt /\ jobs'[j].body = jobs[j].body
<1> DEFINE Goal == /\ j \in DOMAIN jobs
                   /\ \/ Claim(j)
                      \/ jobs'[j] = jobs[j]
                      \/ jobs[j].status = "running" /\ jobs'[j].attempt = jobs[j].attempt /\ jobs'[j].body = jobs[j].body
<1>0. \A i \in DOMAIN jobs : jobs[i] \in Row
  BY DEF TypeOK
<1>u. UNCHANGED jobs => Goal
  OBVIOUS
<1>a. ASSUME NEW i \in DOMAIN jobs, NEW row, SetRow(i, row),
             \/ row.status \notin {"running", "interrupted", "failed"}
             \/ jobs[i].status = "running" /\ row.attempt = jobs[i].attempt /\ row.body = jobs[i].body
      PROVE  Goal
  BY <1>a DEF SetRow
<1>1. ASSUME NEW k \in Key, NEW b \in Body, NEW i \in Job, NEW t \in 0 .. MaxClock, Submit(k, b, i, t)
      PROVE  Goal
  BY <1>1 DEF Submit, With, NewRow
<1>2. CASE (\E k \in Key, b \in Body, i \in Job : SubmitReuse(k, b, i)) \/ (\E p \in BOOLEAN : SetPaused(p))
           \/ UNCHANGED storeVars
  BY <1>2, <1>u DEF SubmitReuse, SetPaused, storeVars
<1>3. ASSUME NEW i \in Job, Cancel(i) PROVE Goal
  BY <1>0, <1>3, <1>a DEF Cancel, Active, Row
<1>4. ASSUME NEW i \in Job, Claim(i) PROVE Goal
  BY <1>4 DEF Claim, SetRow
<1>5. ASSUME NEW i \in Job, Remove(i) PROVE Goal
  BY <1>5 DEF Remove, Without, Restrict
<1>6. ASSUME NEW i \in Job, NEW t \in 0 .. MaxClock, Retry(i, t) PROVE Goal
  BY <1>0, <1>6, <1>a DEF Retry, Retriable, Row
<1>7. ASSUME NEW i \in Job, NEW a \in Attempt, Report(i, a) PROVE Goal
  <2>1. ASSUME NEW completed, NEW total, Progress(i, a, completed, total) PROVE Goal
    BY <1>0, <2>1, <1>a DEF Progress, Running, Row
  <2>2. CASE Complete(i, a)
    BY <1>0, <2>2, <1>a DEF Complete, Running, Row
  <2>3. CASE CompleteRecovered(i, a)
    BY <1>0, <2>3, <1>a DEF CompleteRecovered, Unsettled, Row
  <2>4. CASE Step(i, a)
    BY <1>0, <2>4, <1>a DEF Step, Running, Row
  <2>5. ASSUME NEW r \in BOOLEAN, Fail(i, a, r) PROVE Goal
    BY <1>0, <2>5, <1>a DEF Fail, Running, Row
  <2> QED BY <1>7, <2>1, <2>2, <2>3, <2>4, <2>5 DEF Report
<1>8. CASE Recover
  BY <1>0, <1>8 DEF Recover, Row
<1> QED BY <1>1, <1>2, <1>3, <1>4, <1>5, <1>6, <1>7, <1>8 DEF Next

\* A committed run of a row that is not settled: its attempt is in the hands of
\* the queue worker, or a pass has still to look at it.
Late == {"supervising", "judging", "finalizing", "completing"}
Minded(w) ==
  \/ loop.pc = "down" \/ stopping
  \/ loop.pc \in Late /\ loop.id = w
  \/ loop.pc \in Reconciling /\ (todo["loop"] = Unread \/ w \in todo["loop"])
Remembered == \A w \in Candidates : run[w] = "committed" => Minded(w)

\* Who has a committed run and is not settled was so before, or seals it now.
LEMMA CandidateMoves ==
  ASSUME "orphan" \notin Fault, AgentInv, ArbInv, RunHasFence, Alone, AgentNext,
         NEW w \in Candidates', w \in Id, run'[w] = "committed"
  PROVE  (w \in Candidates /\ run[w] = "committed") \/ WorkerSeals(w)
<1> SUFFICES ASSUME run[w] = "committed" PROVE w \in Candidates
  BY RunMoves DEF AgentInv, Alone
<1> USE DEF AgentInv, StoreInv
<1>1. PICK j \in DOMAIN jobs' : /\ w = <<j, jobs'[j].attempt>>
                                /\ jobs'[j].status \in {"running", "interrupted", "failed"}
                                /\ jobs'[j] = jobs[j] => w \in Candidates \/ j \notin DOMAIN jobs
                                /\ jobs'[j].attempt > 0
                                /\ jobs'[j].body.kind = "craig"
  BY DEF Candidates, IsCraig
<1>2. [Next]_storeVars
  BY UsesStore DEF vars
<1>3. Known(w)
  <2>1. worker[w].pc # "none"
    BY DEF RunHasFence, ArbInv, CraigFenced
  <2> QED BY <2>1 DEF ArbInv, WorkersKnown
<1>m. \/ Claim(j)
      \/ jobs'[j] = jobs[j]
      \/ jobs[j].status = "running" /\ jobs'[j].attempt = jobs[j].attempt /\ jobs'[j].body = jobs[j].body
  BY <1>1, <1>2, RowStops
<1>4. j \in DOMAIN jobs
  BY <1>1, <1>2, RowStops
<1>r. jobs[j] \in Row /\ j \notin DOMAIN receipts
  BY <1>4 DEF TypeOK, AliasResolves
<1>5. ~ Claim(j)
  <2>1. Claim(j) => jobs'[j].attempt = jobs[j].attempt + 1
    BY <1>4, <1>r DEF Claim, SetRow, Row
  <2>2. jobs'[j].attempt =< jobs[j].attempt
    BY <1>1, <1>3, <1>r DEF Known
  <2> QED BY <1>r, <2>1, <2>2 DEF Row
<1>6. CASE jobs'[j] = jobs[j]
  BY <1>1, <1>4, <1>6
<1>7. CASE jobs[j].status = "running" /\ jobs'[j].attempt = jobs[j].attempt /\ jobs'[j].body = jobs[j].body
  <2>1. jobs[j].result = Nil
    BY <1>4, <1>7 DEF ResultIsCurrent
  <2>2. jobs[j].status = "running" /\ jobs[j].attempt > 0 /\ jobs[j].body.kind = "craig"
        /\ w = <<j, jobs[j].attempt>>
    BY <1>1, <1>7
  <2> QED BY <1>4, <2>1, <2>2 DEF Candidates, IsCraig
<1> QED BY <1>5, <1>6, <1>7, <1>m

\* Somebody keeps minding a sealed run until its row shows it.
LEMMA MindedStep ==
  ASSUME "io" \notin Fault, AgentInv, ArbInv, HeldOnItsWay, AgentNext, NEW w \in Id,
         w \in Candidates, w \in Candidates', run[w] = "committed", RunHasFence, Minded(w)
  PROVE  Minded(w)'
<1> USE DEF AgentInv, StoreInv
<1>0. /\ loop \in [pc : LoopPc, id : Id \cup {Nil}, out : Terminal \cup {Nil}]
      /\ todo \in [Reconciler -> {Nil} \cup SUBSET Id]
  BY DEF AgentTyped, LoopTyped, BooksTyped
<1>1. PICK j \in DOMAIN jobs : /\ w = <<j, jobs[j].attempt>>
                              /\ jobs[j].status \in {"running", "interrupted", "failed"}
                              /\ jobs[j].result = Nil
                              /\ jobs[j].body.kind = "craig"
  BY DEF Candidates, IsCraig
<1>2. j \in DOMAIN jobs' => jobs'[j].status \in {"running", "interrupted", "failed"}
  BY <1>1 DEF Candidates
<1>j. j \in Job /\ jobs[j] \in Row
  BY <1>1 DEF TypeOK
<1>3. loop.pc \in {"claimed", "dispatching"} => loop.id # w
  BY DEF ArbInv, HeldKnown, RunHasFence, CraigFenced
<1>g. ASSUME UNCHANGED <<loop, stopping>>, todo'["loop"] = todo["loop"] PROVE Minded(w)'
  BY <1>g DEF Minded
<1>m. ASSUME loop.pc \in Late \cup {"dispatching", "claimed"}, ~ stopping
      PROVE  loop.pc \in Late /\ Me = j /\ loop.id = w /\ IsCraig(Me) /\ jobs[Me].status = "running"
  <2>1. loop.id = w /\ loop.pc \in Late
    BY <1>m DEF Minded, Late, Reconciling
  <2>2. Me = j
    BY <1>1, <2>1 DEF Me
  <2>3. jobs[Me].status \in OnItsWay
    BY <1>1, <2>1, <2>2 DEF HeldOnItsWay, Late, Ending, Holding
  <2> QED BY <1>1, <2>1, <2>2, <2>3 DEF OnItsWay, IsCraig
<1>l. ASSUME loop'.id = w, loop'.pc \in Late PROVE Minded(w)'
  BY <1>l DEF Minded
<1>q. ASSUME loop'.pc \in Reconciling, todo'["loop"] = Unread PROVE Minded(w)'
  BY <1>q DEF Minded
<1>s. ASSUME stopping' PROVE Minded(w)'
  BY <1>s DEF Minded
<1>e. ASSUME NEW out, Ended(out), loop.pc \in Late, ~ stopping PROVE Minded(w)'
  <2>1. loop'.id = loop.id /\ loop'.pc = "judging"
    BY <1>0, <1>e DEF Ended
  <2> QED BY <1>e, <1>m, <1>l, <2>1 DEF Late
<1>f. ASSUME NEW r \in BOOLEAN, FailAttempt(r), loop.pc \in Late, ~ stopping PROVE Minded(w)'
  <2>1. loop'.pc = "reconciling" /\ todo'["loop"] = Unread
    BY <1>0, <1>f, <1>m DEF FailAttempt, Reconciler
  <2> QED BY <2>1, <1>q DEF Reconciling
<1>4. CASE Handlers
  <2>1. ASSUME NEW i \in Job, RetryBegin(i) PROVE Minded(w)'
    BY <1>0, <2>1, <1>g DEF RetryBegin
  <2> QED BY <1>4, <1>g, <2>1 DEF Handlers, SubmitJob, CancelQueued, CancelRunning, Delete, RetryFixture,
         Pause, agentVars
<1>5. CASE Threads
  <2>1. ASSUME NEW i \in Job, NEW a \in Attempt, Settle("loop", i, a) PROVE Minded(w)'
    <3>1. ASSUME <<i, a>> = w PROVE FALSE
      <4>1. i = j /\ a = jobs[j].attempt
        BY <1>1, <3>1
      <4>2. Unsettled(i, a)
        BY <1>1, <4>1 DEF Unsettled
      <4>3. CompleteRecovered(i, a)
        BY <2>1, <3>1, <4>2 DEF Settle
      <4>4. j \in DOMAIN jobs' /\ jobs'[j].status = "succeeded"
        BY <1>1, <1>j, <4>1, <4>3 DEF CompleteRecovered, SetRow, Row
      <4> QED BY <1>2, <4>4
    <3>2. todo["loop"] # Unread /\ todo'["loop"] = todo["loop"] \ {<<i, a>>} /\ UNCHANGED <<loop, stopping>>
      BY <1>0, <2>1 DEF Settle, Reconciler
    <3> QED BY <3>1, <3>2 DEF Minded
  <2>2. ASSUME NEW i \in Job, NEW a \in Attempt, Settle("retry", i, a) PROVE Minded(w)'
    BY <1>0, <2>2, <1>g DEF Settle
  <2>3. CASE Scan("loop")
    <3>1. loop.pc \in Reconciling /\ todo'["loop"] = Candidates /\ loop' = loop
      BY <1>0, <2>3 DEF Scan, Reconciler
    <3> QED BY <3>1 DEF Minded
  <2>4. CASE Scan("retry")
    BY <1>0, <2>4, <1>g DEF Scan
  <2>5. ASSUME NEW i \in Job, CancelThread(i) PROVE Minded(w)'
    BY <2>5, <1>g DEF CancelThread, CancelFence, CancelAct
  <2>6. CASE RetryReturns
    BY <1>0, <2>6, <1>g DEF RetryReturns, RetryAct
  <2> QED BY <1>5, <2>1, <2>2, <2>3, <2>4, <2>5, <2>6 DEF Threads, Pass, Reconciler
<1>6. CASE Loop /\ stopping
  <2>1. stopping'
    BY <1>6 DEF Loop, ClaimJob, Register, Judge, Finalize, Finish, Reconciled, RecoverRows, LoopExits
  <2> QED BY <2>1, <1>s
<1>7. CASE Loop /\ ~ stopping
  <2>1. ASSUME NEW i \in Job, ClaimJob(i) PROVE FALSE
    BY <1>7, <2>1 DEF ClaimJob, Minded, Late, Reconciling
  <2>2. ~ Register
    BY <1>7, <1>m DEF Register, Late
  <2>3. CASE Judge
    <3>1. loop.pc \in Late /\ Me = j /\ loop.id = w /\ IsCraig(Me) /\ jobs[Me].status = "running"
      BY <1>7, <1>m, <2>3 DEF Judge, Late
    <3>2. CASE loop' = [loop EXCEPT !.pc = "finalizing"]
      <4>1. loop'.pc = "finalizing" /\ loop'.id = w
        BY <1>0, <3>1, <3>2
      <4> QED BY <4>1, <1>l DEF Late
    <3>3. CASE Cancel(Me)
      BY <1>1, <1>2, <1>j, <3>1, <3>3 DEF Cancel, SetRow, Row
    <3> QED BY <1>7, <1>f, <2>3, <3>1, <3>2, <3>3 DEF Judge
  <2>4. CASE Finalize
    <3>1. loop.id = w
      BY <1>7, <1>m, <2>4 DEF Finalize, Late
    <3>2. loop'.pc \in {"completing", "judging"} /\ loop'.id = w
      BY <1>0, <2>4, <3>1 DEF Finalize
    <3> QED BY <3>2, <1>l DEF Late
  <2>5. CASE Finish
    <3>1. loop.pc \in Late /\ Me = j
      BY <1>7, <1>m, <2>5 DEF Finish, Late
    <3>2. CASE Complete(Me, MyAttempt)
      BY <1>1, <1>2, <1>j, <3>1, <3>2 DEF Complete, SetRow, Row
    <3> QED BY <1>7, <1>f, <2>5, <3>1, <3>2 DEF Finish
  <2>6. ~ Reconciled /\ ~ RecoverRows
    BY <1>7, UnreadAssumption DEF Reconciled, RecoverRows, Minded, Late, Reconciling
  <2>7. ~ LoopExits
    BY <1>7 DEF LoopExits
  <2> QED BY <1>7, <2>1, <2>2, <2>3, <2>4, <2>5, <2>6, <2>7 DEF Loop
<1>8. CASE (Supervisor \/ SupervisorTimesOut) /\ stopping
  BY <1>8, <1>s DEF Supervisor, Launch, SupervisorAsks, SupervisorForces, SupervisorReads,
     SupervisorMourns, SupervisorTimesOut
<1>9. CASE (Supervisor \/ SupervisorTimesOut) /\ ~ stopping
  <2>1. ~ Launch
    BY <1>9, <1>m DEF Launch, Late
  <2>2. CASE SupervisorAsks
    BY <2>2, <1>g DEF SupervisorAsks
  <2>3. CASE SupervisorForces \/ SupervisorMourns \/ SupervisorTimesOut
    BY <1>9, <2>3, <1>e DEF SupervisorForces, SupervisorMourns, SupervisorTimesOut, Late
  <2>4. CASE SupervisorReads
    BY <1>9, <2>4, <1>e, <1>g DEF SupervisorReads, CommitProgress, Late
  <2> QED BY <1>9, <2>1, <2>2, <2>3, <2>4 DEF Supervisor
<1>10. CASE Start
  <2>1. loop'.pc = "booting" /\ todo'["loop"] = Unread
    BY <1>0, <1>10 DEF Start, Resting, Reconciler
  <2> QED BY <2>1, <1>q DEF Reconciling
<1>11. CASE Stop
  BY <1>11, <1>s DEF Stop
<1>12. CASE Crash
  BY <1>12 DEF Crash, Resting, Minded
<1>13. ~ StoreBreaks /\ ~ TroubleAgain
  BY DEF StoreBreaks, TroubleAgain
<1>14. ASSUME NEW v \in Id, Work(v) \/ WorkerDies(v) \/ \E m \in Terminal : WorkerErrs(v, m) PROVE Minded(w)'
  BY <1>14, <1>g, ProcessMoves DEF processVars
<1> QED BY <1>4, <1>5, <1>6, <1>7, <1>8, <1>9, <1>10, <1>11, <1>12, <1>13, <1>14 DEF AgentNext, Mishap

RememberInv == HeldOnItsWay /\ Remembered

\* The invariant is preserved by every step.
LEMMA RememberStep ==
  ASSUME "io" \notin Fault, "orphan" \notin Fault
  PROVE  AgentInv /\ ArbInv /\ RunHasFence /\ Alone /\ RememberInv /\ [AgentNext]_vars => RememberInv'
<1> SUFFICES ASSUME AgentInv, ArbInv, RunHasFence, Alone, RememberInv, AgentNext PROVE RememberInv'
  BY DEF RememberInv, HeldOnItsWay, Remembered, Minded, Candidates, IsCraig, Me, vars, storeVars, agentVars
<1>1. HeldOnItsWay'
  BY HeldOnItsWayStep DEF RememberInv, ArbInv
<1>2. ASSUME NEW w \in Candidates', run'[w] = "committed" PROVE Minded(w)'
  <2>1. w \in Id
    <3>1. TypeOK'
      BY TypeStep, UsesStore DEF AgentInv, StoreInv, vars
    <3>2. PICK j \in DOMAIN jobs' : w = <<j, jobs'[j].attempt>> /\ jobs'[j].attempt > 0
      BY <1>2 DEF Candidates
    <3>3. j \in Job /\ jobs'[j].attempt \in 0 .. MaxAttempt
      BY <3>1, <3>2 DEF TypeOK, Row
    <3>4. jobs'[j].attempt \in Attempt
      BY <3>2, <3>3, BoundAssumption DEF Attempt
    <3> QED BY <3>2, <3>3, <3>4 DEF Id
  <2>2. CASE WorkerSeals(w)
    <3>1. loop.pc = "supervising" /\ loop.id = w
      BY <2>1, <2>2 DEF WorkerSeals, Alone, AliveLinked, Live, Linked
    <3>2. loop' = loop
      BY <2>2 DEF WorkerSeals, processVars
    <3> QED BY <3>1, <3>2 DEF Minded, Late
  <2>3. CASE w \in Candidates /\ run[w] = "committed"
    BY <1>2, <2>1, <2>3, MindedStep DEF RememberInv, Remembered
  <2> QED BY <1>2, <2>1, <2>2, <2>3, CandidateMoves
<1> QED BY <1>1, <1>2 DEF RememberInv, Remembered

\* If no file or table fails and no worker outlives its Agent, the queue worker
\* never rests while a failed or interrupted row hides a committed run.
THEOREM AgentNoForgottenRun == "io" \notin Fault /\ "orphan" \notin Fault /\ AgentSpec => []NoForgottenRun
<1> SUFFICES ASSUME "io" \notin Fault, "orphan" \notin Fault PROVE AgentSpec => []NoForgottenRun
  OBVIOUS
<1>1. AgentInit => RememberInv
  BY DEF AgentInit, Init, Resting, RememberInv, HeldOnItsWay, Ending, Holding, Remembered, Minded
<1>2. AgentInv /\ ArbInv /\ RunHasFence /\ Alone /\ RememberInv /\ [AgentNext]_vars => RememberInv'
  BY RememberStep
<1>3. RememberInv => NoForgottenRun
  BY DEF RememberInv, Remembered, Minded, Late, Reconciling, NoForgottenRun
<1> QED BY <1>1, <1>2, <1>3, AgentAlone, AgentRunHasFence, AgentArbitration, AgentInvariant, PTL DEF AgentSpec
=============================================================================

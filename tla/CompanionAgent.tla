--------------------------- MODULE CompanionAgent ---------------------------
(***************************************************************************)
(* The Agent of the Local Companion at work on its job table: the HTTP     *)
(* handlers and the queue worker of api.py (one event loop), the threads   *)
(* they await, the supervisor of the isolated ASR process                  *)
(* (worker_supervisor.py), that process (asr_worker.py), and the two       *)
(* things the processes share besides the table: the attempt fence         *)
(* (attempt_fence.py) and the immutable runs (transcription_runs.py).      *)
(*                                                                         *)
(* The table is JobStore.  Code of the event loop between two awaits is    *)
(* one action; the code of a thread is one action per transaction, file    *)
(* decision or message.  All jobs here are on one staged source.  Left     *)
(* out: profile preparation, authentication, logging, progress metrics.    *)
(***************************************************************************)
EXTENDS JobStore, Sequences

CONSTANT Fault  \* what may happen besides the work: a subset of FaultKind
FaultKind == {"pause",    \* the user pauses the queue and resumes it
              "crash",    \* the Agent process ends without its teardown
              "orphan",   \* ... and its worker process outlives it
              "stop",     \* the Agent is asked to stop
              "io"}       \* SQLite, the staged package or a state file fails
ASSUME FaultAssumption == Fault \subseteq FaultKind

VARIABLES
  loop,       \* the queue worker coroutine: where it is, and its claimed attempt
  stopping,   \* worker_stop
  active,     \* active_worker["job_id"], and job_cancel of its registration
  gate,       \* dispatch_gate: who holds it
  retrying,   \* the job the retry handler that holds the gate is about
  todo,       \* the rows each reconciliation pass has still to look at
  cancelling, \* the cancel handler of each job, and the attempt it has read
  worker,     \* the worker process of each attempt
  pipe,       \* stdout of the supervised worker: the messages not read yet
  asked,      \* the supervisor has written the cancel command
  fence,      \* .attempt-fences: the decision of each attempt
  run         \* runs/run-<job>-a<attempt>: absent, partial, or with run.json

agentVars == <<loop, stopping, active, gate, retrying, todo, cancelling,
               worker, pipe, asked, fence, run>>
handlerVars == <<retrying, cancelling>>
workerVars == <<worker, pipe, asked, fence, run>>
vars == <<storeVars, agentVars>>

Id == Job \X Attempt           \* an attempt of a job
Unread == Nil                  \* a pass that has not read its candidates yet
ASSUME UnreadAssumption == Unread # {}
Terminal == {"result", "cancelled", "failed", "broken"}  \* broken: not recoverable
Reconciler == {"loop", "retry"}
Reconciling == {"booting", "reconciling", "trouble", "halting"}
LoopPc == {"down", "idle", "claimed", "dispatching", "supervising", "judging",
           "finalizing", "completing"} \cup Reconciling

Resting(pc) == [pc |-> pc, id |-> Nil, out |-> Nil]
NoActive == [job |-> Nil, cancel |-> FALSE]
NoCancel == [pc |-> "none", attempt |-> 0]
NoWorker == [pc |-> "none", kind |-> Nil, left |-> 0, doomed |-> {}]

Serving == loop.pc \notin {"down", "booting", "halting"} /\ ~ stopping
IsCraig(j) == jobs[j].body.kind = "craig"
Live(w) == worker[w].pc \notin {"none", "gone"}
Linked(w) == loop.pc = "supervising" /\ loop.id = w
\* Mutant: the supervisor looks at the cancel signal of the job only.
IsSignalled == active.cancel
IsCancelled == stopping \/ active.cancel
-----------------------------------------------------------------------------
(* Reconciliation of durable runs: reconcile_completed_transcription_runs. *)

Candidates ==
  {<<j, jobs[j].attempt>> : j \in
     {i \in DOMAIN jobs :
        /\ \/ jobs[i].status \in {"running", "interrupted"}
           \/ jobs[i].status = "failed" /\ jobs[i].recoverable
        /\ jobs[i].result = Nil
        /\ jobs[i].attempt > 0
        /\ IsCraig(i)}}

Scan(who) ==
  /\ todo[who] = Unread
  /\ who = "loop" => loop.pc \in Reconciling
  /\ who = "retry" => retrying # Nil
  /\ todo' = [todo EXCEPT ![who] = Candidates]
  /\ UNCHANGED <<storeVars, loop, stopping, active, gate, handlerVars, workerVars>>

\* Mutant: the row is settled without its run.
SettleUnchecked(who, j, a) ==
  /\ todo[who] # Unread
  /\ <<j, a>> \in todo[who]
  /\ todo' = [todo EXCEPT ![who] = @ \ {<<j, a>>}]
  /\ CompleteRecovered(j, a) \/ UNCHANGED storeVars
  /\ UNCHANGED <<loop, stopping, active, gate, handlerVars, workerVars>>

\* A row whose run cannot be loaded or bound to its target is passed over.
Settle(who, j, a) ==
  /\ todo[who] # Unread
  /\ <<j, a>> \in todo[who]
  /\ todo' = [todo EXCEPT ![who] = @ \ {<<j, a>>}]
  /\ \/ run[<<j, a>>] = "committed" /\ CompleteRecovered(j, a)
     \/ /\ run[<<j, a>>] # "committed" \/ ~ Unsettled(j, a) \/ "io" \in Fault
        /\ UNCHANGED storeVars
  /\ UNCHANGED <<loop, stopping, active, gate, handlerVars, workerVars>>
-----------------------------------------------------------------------------
(* The HTTP handlers. *)

\* A transcription is submitted under the dispatch gate.
SubmitJob(k, b, j, t) ==
  /\ Serving
  /\ b.kind = "craig" => gate = "free"
  /\ Submit(k, b, j, t) \/ SubmitReuse(k, b, j)
  /\ UNCHANGED agentVars

Pause(p) == "pause" \in Fault /\ Serving /\ SetPaused(p) /\ UNCHANGED agentVars

\* store.action("cancel") and signal_active_worker_cancel.
CancelAndSignal(j) ==
  /\ Cancel(j)
  /\ active' = [active EXCEPT !.cancel = @ \/ active.job = j]

\* Mutant: no active row needs the fence.
CancelAnyActive(j) ==
  /\ Serving
  /\ CancelAndSignal(j)
  /\ UNCHANGED <<loop, stopping, gate, todo, handlerVars, workerVars>>

\* No fence for a row the handler has read as queued, nor for a fixture.  The
\* claim thread may commit between that read and the write.
CancelQueued(j) ==
  /\ Serving
  /\ j \in DOMAIN jobs
  /\ \/ jobs[j].status = "queued"
     \/ jobs[j].status = "running" /\ ~ IsCraig(j)
     \/ loop.pc = "claimed" /\ loop.id = <<j, jobs[j].attempt>>
  /\ CancelAndSignal(j)
  /\ UNCHANGED <<loop, stopping, gate, todo, handlerVars, workerVars>>

CancelRunning(j) ==
  /\ Serving
  /\ cancelling[j] = NoCancel
  /\ j \in DOMAIN jobs
  /\ jobs[j].status = "running"
  /\ IsCraig(j)
  /\ cancelling' = [cancelling EXCEPT ![j] = [pc |-> "claiming", attempt |-> jobs[j].attempt]]
  /\ UNCHANGED <<storeVars, loop, stopping, active, gate, todo, retrying, workerVars>>

\* Mutant: the marker is overwritten.
CancelFenceOverwritten(j) ==
  /\ cancelling[j].pc = "claiming"
  /\ fence' = [fence EXCEPT ![<<j, cancelling[j].attempt>>] = "cancel"]
  /\ cancelling' = [cancelling EXCEPT ![j].pc = "acting"]
  /\ UNCHANGED <<storeVars, loop, stopping, active, gate, todo, retrying,
                 worker, pipe, asked, run>>

\* claim_cancel_under_source_gate, in a thread, for the attempt read before.
CancelFence(j) ==
  LET w == <<j, cancelling[j].attempt>>
      wins == fence[w] # "commit"
  IN  /\ cancelling[j].pc = "claiming"
      /\ \/ /\ fence' = [fence EXCEPT ![w] = IF wins THEN "cancel" ELSE @]
            /\ cancelling' = [cancelling EXCEPT ![j] =
                                IF wins THEN [@ EXCEPT !.pc = "acting"] ELSE NoCancel]
         \/ /\ "io" \in Fault
            /\ cancelling' = [cancelling EXCEPT ![j] = NoCancel]
            /\ UNCHANGED fence
      /\ UNCHANGED <<storeVars, loop, stopping, active, gate, todo, retrying,
                     worker, pipe, asked, run>>

\* Back in the event loop: the row is cancelled whatever attempt it is at now.
CancelAct(j) ==
  /\ cancelling[j].pc = "acting"
  /\ cancelling' = [cancelling EXCEPT ![j] = NoCancel]
  /\ \/ CancelAndSignal(j)
     \/ j \notin Active /\ UNCHANGED <<storeVars, active>>
  /\ UNCHANGED <<loop, stopping, gate, todo, retrying, workerVars>>

\* Mutant: the row of the active worker may go.
DeleteUnguarded(j) ==
  /\ Serving
  /\ j \in DOMAIN jobs
  /\ jobs[j].status = "succeeded" /\ IsCraig(j) => run[<<j, jobs[j].attempt>>] = "committed"
  /\ Remove(j)
  /\ UNCHANGED agentVars

\* A succeeded transcription is removed only if its run is still there to keep.
Delete(j) ==
  /\ Serving
  /\ active.job # j
  /\ j \in DOMAIN jobs
  /\ jobs[j].status = "succeeded" /\ IsCraig(j) =>
       run[<<j, jobs[j].attempt>>] = "committed" /\ fence[<<j, jobs[j].attempt>>] # "cancel"
  /\ Remove(j)
  /\ UNCHANGED agentVars

RetryFixture(j, t) ==
  /\ Serving
  /\ j \in DOMAIN jobs /\ ~ IsCraig(j)
  /\ Retry(j, t)
  /\ UNCHANGED agentVars

\* A transcription is retried under the gate, after a reconciliation pass.
RetryBegin(j) ==
  /\ Serving
  /\ j \in DOMAIN jobs /\ IsCraig(j)
  /\ gate = "free"
  /\ gate' = "retry"
  /\ retrying' = j
  /\ todo' = [todo EXCEPT !["retry"] = Unread]
  /\ UNCHANGED <<storeVars, loop, stopping, active, cancelling, workerVars>>

RetryAct(t) ==
  /\ gate = "retry"
  /\ \/ todo["retry"] = {} /\ Retry(retrying, t)
     \/ todo["retry"] = {} /\ ~ Retriable(retrying) /\ UNCHANGED storeVars
     \/ "io" \in Fault /\ UNCHANGED storeVars
  /\ gate' = "free"
  /\ retrying' = Nil
  /\ todo' = [todo EXCEPT !["retry"] = {}]
  /\ UNCHANGED <<loop, stopping, active, cancelling, workerVars>>
-----------------------------------------------------------------------------
(* The queue worker: worker() of api.py. *)

Me == loop.id[1]     \* the claimed job, and its attempt
MyAttempt == loop.id[2]

\* claim_under_source_gate, in a thread, under the gate.
ClaimJob(j) ==
  /\ loop.pc = "idle"
  /\ ~ stopping
  /\ gate = "free"
  /\ Claim(j)
  /\ gate' = "loop"
  /\ loop' = [pc |-> "claimed", id |-> <<j, jobs[j].attempt + 1>>, out |-> Nil]
  /\ UNCHANGED <<stopping, active, todo, handlerVars, workerVars>>

Trouble == loop' = Resting("trouble") /\ active' = NoActive /\ todo' = [todo EXCEPT !["loop"] = Unread]
Release == loop' = Resting("idle") /\ active' = NoActive

\* register_active_worker, and the store.get that follows it without an await.
Register ==
  /\ loop.pc = "claimed"
  /\ gate' = "free"
  /\ \/ Me \notin DOMAIN jobs /\ Trouble
     \/ "io" \in Fault /\ Trouble
     \/ Me \in DOMAIN jobs /\ jobs[Me].status = "cancelled" /\ Release /\ UNCHANGED todo
     \/ /\ Me \in DOMAIN jobs /\ jobs[Me].status # "cancelled"
        /\ loop' = [loop EXCEPT !.pc = "dispatching"]
        /\ active' = [job |-> Me, cancel |-> FALSE]
        /\ UNCHANGED todo
  /\ UNCHANGED <<storeVars, stopping, handlerVars, workerVars>>

\* The head of run_craig and _run_command, in the supervisor thread.
Launch ==
  /\ loop.pc = "dispatching"
  /\ \/ /\ IsCancelled
        /\ loop' = [loop EXCEPT !.pc = "judging", !.out = "cancelled"]
        /\ UNCHANGED <<worker, pipe, asked>>
     \/ /\ "io" \in Fault  \* no runtime, no physical acceptance
        /\ loop' = [loop EXCEPT !.pc = "judging", !.out = "failed"]
        /\ UNCHANGED <<worker, pipe, asked>>
     \/ /\ ~ IsCancelled
        /\ loop' = [loop EXCEPT !.pc = "supervising"]
        /\ worker' = [worker EXCEPT ![loop.id] =
             [pc |-> "starting", kind |-> jobs[Me].body.kind,
              left |-> jobs[Me].body.units - jobs[Me].completed, doomed |-> {}]]
        /\ pipe' = << >>
        /\ asked' = FALSE
  /\ UNCHANGED <<storeVars, stopping, active, gate, todo, handlerVars, fence, run>>

\* Mutant: the worker process is not killed.
EndedAlone(out) ==
  /\ loop' = [loop EXCEPT !.pc = "judging", !.out = out]
  /\ pipe' = << >>
  /\ UNCHANGED worker

\* The supervisor thread ends once the worker process has; one that is killed
\* is taken to end.
Ended(out) ==
  /\ loop' = [loop EXCEPT !.pc = "judging", !.out = out]
  /\ worker' = [worker EXCEPT ![loop.id].pc = "gone"]
  /\ pipe' = << >>

SupervisorAsks ==
  /\ loop.pc = "supervising"
  /\ IsCancelled /\ ~ asked
  /\ asked' = TRUE
  /\ UNCHANGED <<storeVars, loop, stopping, active, gate, todo, handlerVars,
                 worker, pipe, fence, run>>

\* Mutant: the grace period is waited for, and then the worker is.
SupervisorWaits ==
  /\ loop.pc = "supervising"
  /\ asked /\ worker[loop.id].pc = "gone"
  /\ Ended("cancelled")
  /\ UNCHANGED <<storeVars, stopping, active, gate, todo, handlerVars, asked, fence, run>>

\* The grace period after the cancel command has passed.
SupervisorForces ==
  /\ loop.pc = "supervising"
  /\ asked
  /\ Ended("cancelled")
  /\ UNCHANGED <<storeVars, stopping, active, gate, todo, handlerVars, asked, fence, run>>

\* Start, bootstrap, model load or heartbeat timeout.
SupervisorTimesOut ==
  /\ loop.pc = "supervising"
  /\ ~ asked
  /\ Ended("failed")
  /\ UNCHANGED <<storeVars, stopping, active, gate, todo, handlerVars, asked, fence, run>>

\* commit_progress: what a progress message does to the row.
CommitProgress ==
  IF Running(Me, MyAttempt)
  THEN /\ \/ IsCraig(Me) /\ Progress(Me, MyAttempt, jobs[Me].completed + 1, jobs[Me].body.units)
          \/ Step(Me, MyAttempt)
       /\ pipe' = Tail(pipe)
       /\ UNCHANGED <<loop, worker>>
  ELSE /\ UNCHANGED storeVars
       /\ \/ /\ jobs[Me].status = "cancelled"
             /\ pipe' = Tail(pipe)
             /\ UNCHANGED <<loop, worker>>
          \/ jobs[Me].status # "cancelled" /\ Ended("broken")

SupervisorReads ==
  /\ loop.pc = "supervising"
  /\ pipe # << >>
  /\ \/ Head(pipe) = "progress" /\ CommitProgress
     \/ Head(pipe) \in Terminal /\ Ended(Head(pipe)) /\ UNCHANGED storeVars
     \/ Head(pipe) = "result" /\ Ended("failed") /\ UNCHANGED storeVars  \* nonzero exit
  /\ UNCHANGED <<stopping, active, gate, todo, handlerVars, asked, fence, run>>

\* Mutant: an end without a terminal is only noticed when it was asked for.
SupervisorMournsAsked ==
  /\ loop.pc = "supervising"
  /\ pipe = << >>
  /\ worker[loop.id].pc = "gone"
  /\ asked
  /\ Ended("cancelled")
  /\ UNCHANGED <<storeVars, stopping, active, gate, todo, handlerVars, asked, fence, run>>

\* The process is gone, everything it wrote is read, and no terminal was there.
SupervisorMourns ==
  /\ loop.pc = "supervising"
  /\ pipe = << >>
  /\ worker[loop.id].pc = "gone"
  /\ Ended(IF asked THEN "cancelled" ELSE "failed")
  /\ UNCHANGED <<storeVars, stopping, active, gate, todo, handlerVars, asked, fence, run>>

\* Mutant: the runs are not reconciled.
FailAttemptOnly(recoverable) ==
  /\ \/ Fail(Me, MyAttempt, recoverable)
     \/ ~ Running(Me, MyAttempt) /\ UNCHANGED storeVars
  /\ Release /\ UNCHANGED todo

\* The except branches: the row fails if it is still this attempt's, then a
\* transcription is reconciled before the worker is cleared.
FailAttempt(recoverable) ==
  /\ \/ Fail(Me, MyAttempt, recoverable)
     \/ ~ Running(Me, MyAttempt) /\ UNCHANGED storeVars
  /\ IF IsCraig(Me)
     THEN /\ loop' = [loop EXCEPT !.pc = "reconciling"]
          /\ todo' = [todo EXCEPT !["loop"] = Unread]
          /\ UNCHANGED active
     ELSE Release /\ UNCHANGED todo

Keep == Release /\ UNCHANGED <<storeVars, todo>>

\* Back in the event loop with the outcome of the supervisor.
Judge ==
  /\ loop.pc = "judging"
  /\ \/ /\ loop.out = "result" /\ IsCraig(Me)
        /\ IF jobs[Me].status = "cancelled"
           THEN Keep
           ELSE loop' = [loop EXCEPT !.pc = "finalizing"] /\ UNCHANGED <<storeVars, active, todo>>
     \/ /\ loop.out = "result" /\ ~ IsCraig(Me)
        /\ IF jobs[Me].status \in {"succeeded", "cancelled"} THEN Keep ELSE FailAttempt(TRUE)
     \/ /\ loop.out = "cancelled"
        /\ IF jobs[Me].status = "running" /\ ~ stopping
           THEN Cancel(Me) /\ Release /\ UNCHANGED todo
           ELSE Keep
     \/ loop.out = "failed" /\ FailAttempt(TRUE)
     \/ loop.out = "broken" /\ FailAttempt(FALSE)
  /\ UNCHANGED <<stopping, gate, handlerVars, workerVars>>

\* finalize_transcription_result, in a thread: the run and its target must hold.
Finalize ==
  /\ loop.pc = "finalizing"
  /\ \/ run[loop.id] = "committed" /\ loop' = [loop EXCEPT !.pc = "completing"]
     \/ run[loop.id] # "committed" /\ loop' = [loop EXCEPT !.pc = "judging", !.out = "broken"]
     \/ /\ "io" \in Fault
        /\ \E m \in {"failed", "broken"} : loop' = [loop EXCEPT !.pc = "judging", !.out = m]
  /\ UNCHANGED <<storeVars, stopping, active, gate, todo, handlerVars, workerVars>>

\* store.complete; a stale attempt or an unfinished count is a failure.
Finish ==
  /\ loop.pc = "completing"
  /\ \/ Complete(Me, MyAttempt) /\ Release /\ UNCHANGED todo
     \/ ~ (Running(Me, MyAttempt) /\ jobs[Me].completed = jobs[Me].body.units) /\ FailAttempt(TRUE)
  /\ UNCHANGED <<stopping, gate, handlerVars, workerVars>>

Reconciled ==
  /\ loop.pc = "reconciling"
  /\ todo["loop"] = {} \/ "io" \in Fault
  /\ Release
  /\ todo' = [todo EXCEPT !["loop"] = {}]
  /\ UNCHANGED <<storeVars, stopping, gate, handlerVars, workerVars>>

\* The table cannot be read or written: the outer except of the loop.
StoreBreaks ==
  /\ "io" \in Fault
  /\ loop.pc \in {"judging", "completing"}
  /\ Trouble
  /\ UNCHANGED <<storeVars, stopping, gate, handlerVars, workerVars>>

\* Mutant: the rows left running by the last Agent stay so.
RecoverNoRows ==
  /\ todo["loop"] = {}
  /\ \/ loop.pc \in {"booting", "trouble"} /\ Release
     \/ loop.pc = "halting" /\ loop' = Resting("down") /\ active' = NoActive
  /\ UNCHANGED <<storeVars, stopping, gate, todo, handlerVars, workerVars>>

\* store.recover after a pass: at the start, in trouble, at the end.
RecoverRows ==
  /\ todo["loop"] = {}
  /\ \/ loop.pc \in {"booting", "trouble"} /\ Release
     \/ loop.pc = "halting" /\ loop' = Resting("down") /\ active' = NoActive
  /\ Recover
  /\ UNCHANGED <<stopping, gate, todo, handlerVars, workerVars>>

\* The pass or recover fails too: the loop goes on without them.
TroubleAgain ==
  /\ "io" \in Fault
  /\ loop.pc = "trouble"
  /\ Release
  /\ todo' = [todo EXCEPT !["loop"] = {}]
  /\ UNCHANGED <<storeVars, stopping, gate, handlerVars, workerVars>>
-----------------------------------------------------------------------------
(* The life of the Agent: lifespan of api.py. *)

Start ==
  /\ loop.pc = "down"
  /\ loop' = Resting("booting")
  /\ stopping' = FALSE
  /\ todo' = [todo EXCEPT !["loop"] = Unread]
  /\ UNCHANGED <<storeVars, active, gate, handlerVars, workerVars>>

\* uvicorn lets the requests in flight finish before the lifespan ends.
Stop ==
  /\ "stop" \in Fault
  /\ Serving
  /\ gate # "retry"
  /\ \A j \in Job : cancelling[j] = NoCancel
  /\ stopping' = TRUE
  /\ UNCHANGED <<storeVars, loop, active, gate, todo, handlerVars, workerVars>>

LoopExits ==
  /\ loop.pc = "idle"
  /\ stopping
  /\ loop' = Resting("halting")
  /\ todo' = [todo EXCEPT !["loop"] = Unread]
  /\ UNCHANGED <<storeVars, stopping, active, gate, handlerVars, workerVars>>

\* Without an orphan the machine or the session ends, and the worker with it.
Crash ==
  /\ "crash" \in Fault
  /\ loop.pc # "down"
  /\ loop' = Resting("down")
  /\ stopping' = FALSE
  /\ active' = NoActive
  /\ gate' = "free"
  /\ retrying' = Nil
  /\ todo' = [who \in Reconciler |-> {}]
  /\ cancelling' = [j \in Job |-> NoCancel]
  /\ pipe' = << >>
  /\ asked' = FALSE
  /\ \/ worker' = [w \in Id |-> IF Live(w) THEN [worker[w] EXCEPT !.pc = "gone"] ELSE worker[w]]
     \/ "orphan" \in Fault /\ UNCHANGED worker
  /\ UNCHANGED <<storeVars, fence, run>>
-----------------------------------------------------------------------------
(* The worker process of an attempt: run_worker_stdio, _run_craig,         *)
(* _run_fixture and write_completed_run.                                   *)

processVars == <<storeVars, loop, stopping, active, gate, todo, handlerVars, asked>>

Becomes(w, pc) == worker' = [worker EXCEPT ![w].pc = pc]

\* A message reaches the supervisor, or the broken pipe ends the process.
Emits(w, m, pc) ==
  IF Linked(w) THEN pipe' = Append(pipe, m) /\ Becomes(w, pc)
               ELSE UNCHANGED pipe /\ Becomes(w, "gone")

Dropped(w) == [run EXCEPT ![w] = IF @ = "partial" THEN "none" ELSE @]

\* ready and the first stage are emitted; a transcription then lists the runs
\* without run.json (remove_incomplete_runs) ...
WorkerStarts(w) ==
  /\ worker[w].pc = "starting"
  /\ worker' = [worker EXCEPT ![w] =
       IF ~ Linked(w) THEN [@ EXCEPT !.pc = "gone"]
       ELSE IF worker[w].kind = "craig"
       THEN [@ EXCEPT !.pc = "cleaning", !.doomed = {r \in Id : run[r] = "partial"}]
       ELSE [@ EXCEPT !.pc = "working"]]
  /\ UNCHANGED <<processVars, pipe, fence, run>>

\* ... and removes them.
WorkerCleans(w) ==
  /\ worker[w].pc = "cleaning"
  /\ run' = [r \in Id |-> IF r \in worker[w].doomed THEN "none" ELSE run[r]]
  /\ worker' = [worker EXCEPT ![w] = [@ EXCEPT !.pc = IF Linked(w) THEN "working" ELSE "gone",
                                               !.doomed = {}]]
  /\ UNCHANGED <<processVars, pipe, fence>>

\* Mutant: a unit more than there are is reported.
WorkerProgressesOn(w) ==
  /\ worker[w].pc = "working"
  /\ Linked(w)
  /\ pipe' = Append(pipe, "progress")
  /\ worker' = [worker EXCEPT ![w].left = @ - 1]
  /\ UNCHANGED <<processVars, fence, run>>

WorkerProgresses(w) ==
  /\ worker[w].pc = "working"
  /\ worker[w].left > 0
  /\ IF Linked(w)
     THEN /\ pipe' = Append(pipe, "progress")
          /\ worker' = [worker EXCEPT ![w].left = @ - 1]
     ELSE UNCHANGED pipe /\ Becomes(w, "gone")
  /\ UNCHANGED <<processVars, fence, run>>

WorkerObeys(w) ==
  /\ worker[w].pc = "working"
  /\ Linked(w) /\ asked
  /\ Emits(w, "cancelled", "gone")
  /\ UNCHANGED <<processVars, fence, run>>

\* An error of the engine, the package or the validation; what it wrote goes.
WorkerErrs(w, m) ==
  /\ worker[w].pc \in {"cleaning", "working", "written"}
  /\ m \in {"failed", "broken"}
  /\ Emits(w, m, "gone")
  /\ run' = Dropped(w)
  /\ UNCHANGED <<processVars, fence>>

\* A native crash, or the end of an orphan.
WorkerDies(w) ==
  /\ Live(w)
  /\ Becomes(w, "gone")
  /\ UNCHANGED <<processVars, pipe, fence, run>>

WorkerWrites(w) ==
  /\ worker[w].pc = "working"
  /\ worker[w].left = 0
  /\ worker[w].kind = "craig"
  /\ run[w] = "none"
  /\ run' = [run EXCEPT ![w] = "partial"]
  /\ Becomes(w, "written")
  /\ UNCHANGED <<processVars, pipe, fence>>

\* reserve_run_commit: the fence ...
WorkerReserves(w) ==
  /\ worker[w].pc = "written"
  /\ \/ /\ fence[w] # "cancel"
        /\ fence' = [fence EXCEPT ![w] = "commit"]
        /\ Becomes(w, "fenced")
        /\ UNCHANGED <<pipe, run>>
     \/ /\ fence[w] = "cancel"
        /\ Emits(w, "cancelled", "gone")
        /\ run' = Dropped(w)
        /\ UNCHANGED fence
     \/ /\ "io" \in Fault  \* the fence is not confirmed: its marker may stay
        /\ fence' \in {fence, [fence EXCEPT ![w] = IF @ = "none" THEN "commit" ELSE @]}
        /\ Emits(w, "failed", "gone")
        /\ run' = Dropped(w)
  /\ UNCHANGED processVars

\* ... and the event that tells of it.
WorkerAnnounces(w) ==
  /\ worker[w].pc = "fenced"
  /\ IF Linked(w)
     THEN Becomes(w, "sealing") /\ UNCHANGED run
     ELSE Becomes(w, "gone") /\ run' = Dropped(w)
  /\ UNCHANGED <<processVars, pipe, fence>>

\* run.json is written, atomically; a failed write is ambiguous.
WorkerSeals(w) ==
  /\ worker[w].pc = "sealing"
  /\ \/ /\ run[w] = "partial"
        /\ run' = [run EXCEPT ![w] = "committed"]
        /\ Becomes(w, "sealed")
        /\ UNCHANGED pipe
     \/ /\ run[w] = "none"
        /\ Emits(w, "failed", "gone")
        /\ UNCHANGED run
     \/ /\ "io" \in Fault
        /\ run[w] = "partial"
        /\ \E s \in {"none", "partial", "committed"} : run' = [run EXCEPT ![w] = s]
        /\ Emits(w, "failed", "gone")
  /\ UNCHANGED <<processVars, fence>>

WorkerReports(w) ==
  /\ \/ worker[w].pc = "sealed"
     \/ /\ worker[w].pc = "working" /\ worker[w].left = 0
        /\ worker[w].kind = "fixture"
  /\ Emits(w, "result", "gone")
  /\ UNCHANGED <<processVars, fence, run>>
-----------------------------------------------------------------------------
AgentInit ==
  /\ Init
  /\ loop = Resting("down")
  /\ stopping = FALSE
  /\ active = NoActive
  /\ gate = "free"
  /\ retrying = Nil
  /\ todo = [who \in Reconciler |-> {}]
  /\ cancelling = [j \in Job |-> NoCancel]
  /\ worker = [w \in Id |-> NoWorker]
  /\ pipe = << >>
  /\ asked = FALSE
  /\ fence = [w \in Id |-> "none"]
  /\ run = [w \in Id |-> "none"]

Handlers ==
  \/ \E k \in Key, b \in Body, j \in Job, t \in 0 .. MaxClock : SubmitJob(k, b, j, t)
  \/ \E j \in Job : CancelQueued(j) \/ CancelRunning(j) \/ Delete(j) \/ RetryBegin(j)
  \/ \E j \in Job, t \in 0 .. MaxClock : RetryFixture(j, t)
  \/ \E p \in BOOLEAN : Pause(p)

Pass(who) == Scan(who) \/ \E j \in Job, a \in Attempt : Settle(who, j, a)
CancelThread(j) == CancelFence(j) \/ CancelAct(j)
RetryReturns == \E t \in 0 .. MaxClock : RetryAct(t)

Threads ==
  \/ \E who \in Reconciler : Pass(who)
  \/ \E j \in Job : CancelThread(j)
  \/ RetryReturns

Supervisor ==
  \/ Launch \/ SupervisorAsks \/ SupervisorForces \/ SupervisorReads \/ SupervisorMourns

Loop ==
  \/ \E j \in Job : ClaimJob(j)
  \/ Register \/ Judge \/ Finalize \/ Finish \/ Reconciled \/ RecoverRows \/ LoopExits

Work(w) ==
  \/ WorkerStarts(w) \/ WorkerCleans(w) \/ WorkerProgresses(w) \/ WorkerObeys(w)
  \/ WorkerWrites(w) \/ WorkerReserves(w) \/ WorkerAnnounces(w) \/ WorkerSeals(w)
  \/ WorkerReports(w)

Mishap ==
  \/ SupervisorTimesOut \/ StoreBreaks \/ TroubleAgain \/ Stop \/ Crash
  \/ \E w \in Id : WorkerDies(w) \/ \E m \in Terminal : WorkerErrs(w, m)

AgentNext ==
  Handlers \/ Threads \/ Loop \/ Supervisor \/ Start \/ Mishap \/ \E w \in Id : Work(w)

AgentSpec == AgentInit /\ [][AgentNext]_vars
-----------------------------------------------------------------------------
(* Fairness.  The event loop and its threads are scheduled, a timer ends the *)
(* grace period, and the Agent is started again.  Nothing is said of the      *)
(* engine of a worker, and no fault is ever bound to happen.                  *)

Fairness ==
  /\ WF_vars(Loop)
  /\ WF_vars(Supervisor)
  /\ \A who \in Reconciler : WF_vars(Pass(who))
  /\ \A j \in Job : WF_vars(CancelThread(j))
  /\ WF_vars(RetryReturns)
  /\ WF_vars(Start)

LoopSpec == AgentSpec /\ Fairness

\* What the Agent cannot know of the worker processes.
EnginesEnd == \A w \in Id : WF_vars(Work(w))
-----------------------------------------------------------------------------
\* The Agent's state outside the table has its types; in particular no worker
\* has reported more units than its job had left.
AgentTypeOK ==
  /\ loop \in [pc : LoopPc, id : Id \cup {Nil}, out : Terminal \cup {Nil}]
  /\ stopping \in BOOLEAN
  /\ active \in [job : Job \cup {Nil}, cancel : BOOLEAN]
  /\ gate \in {"free", "loop", "retry"}
  /\ retrying \in Job \cup {Nil}
  /\ \A who \in Reconciler : todo[who] = Unread \/ todo[who] \subseteq Id
  /\ cancelling \in [Job -> [pc : {"none", "claiming", "acting"}, attempt : 0 .. MaxAttempt]]
  /\ \A w \in Id : worker[w].left \in Nat /\ worker[w].doomed \subseteq Id
  /\ pipe \in Seq(Terminal \cup {"progress"})
  /\ asked \in BOOLEAN
  /\ fence \in [Id -> {"none", "cancel", "commit"}]
  /\ run \in [Id -> {"none", "partial", "committed"}]

\* A running row is the attempt the queue worker has in its hands, whatever was
\* cancelled, removed, retried or reconciled meanwhile: no row is left running
\* with nobody to end it, and no second one is claimed.
RunningIsOwned ==
  \A j \in DOMAIN jobs :
    jobs[j].status = "running" =>
      \/ loop.pc \in {"down", "booting"} \/ stopping
      \/ loop.id = <<j, jobs[j].attempt>>

\* A live worker is the one the loop supervises, and active_worker names its
\* job: its row cannot be deleted nor its source replaced under it, although
\* the row may be cancelled, or settled by a reconciliation, before it ends.
WorkerIsGuarded ==
  \A w \in Id : Live(w) => Linked(w) /\ active.job = w[1] /\ w[1] \in DOMAIN jobs

\* run.json exists only where commit won the fence of that attempt.
RunHasFence == \A w \in Id : run[w] = "committed" => fence[w] = "commit"

\* When the queue worker rests, no failed or interrupted row that could be
\* retried hides a committed run of its attempt.
NoForgottenRun ==
  loop.pc = "idle" /\ ~ stopping => \A w \in Candidates : run[w] # "committed"

\* transcription_run_visible: what the listing of runs shows.
Visible(j, a) ==
  /\ run[<<j, a>>] = "committed"
  /\ fence[<<j, a>>] # "cancel"
  /\ IF j \in DOMAIN jobs
     THEN \/ a < jobs[j].attempt /\ fence[<<j, a>>] = "commit"
          \/ a = jobs[j].attempt /\ jobs[j].status = "succeeded"
     ELSE IF j \in DOMAIN receipts
     THEN receipts[j].attempt = a /\ receipts[j].status = "succeeded"
     ELSE fence[<<j, a>>] = "commit"

\* What the queue calls a success is listed: the immutable run of that very
\* attempt is there and was not cancelled, on the row and after its removal.
SuccessIsVisible ==
  /\ \A j \in DOMAIN jobs :
       IsCraig(j) /\ jobs[j].status = "succeeded" => Visible(j, jobs[j].attempt)
  /\ \A k \in DOMAIN aliases :
       LET j == aliases[k].job
       IN  aliases[k].body.kind = "craig" /\ j \in DOMAIN receipts \ DOMAIN jobs
             /\ receipts[j].status = "succeeded" => Visible(j, receipts[j].attempt)

\* A running attempt that has won the fence is never cancelled by a handler
\* that asked about that attempt, nor by the queue worker.
FenceArbitrates ==
  [][\A j \in DOMAIN jobs \cap DOMAIN jobs' :
       /\ jobs[j].status = "running"
       /\ fence[<<j, jobs[j].attempt>>] = "commit"
       /\ cancelling[j].attempt \in {0, jobs[j].attempt}
       => jobs'[j].status # "cancelled"]_vars

\* A run that the listing shows stays shown: store.remove keeps a receipt "so
\* run visibility does not change merely because the row disappeared".  Not so:
\* the receipt names the last attempt only.
VisibleStays == [][\A w \in Id : Visible(w[1], w[2]) => Visible(w[1], w[2])']_vars

\* A run that has its run.json is never removed: remove_incomplete_runs removes
\* "only orphan run directories that never reached the run.json commit marker".
\* Not so: it lists them first, and an orphan worker may seal one meanwhile.
CommittedStays == [][\A w \in Id : run[w] = "committed" => run'[w] = "committed"]_vars

\* A running attempt that has won the fence is never cancelled: a late cancel
\* "does not reclassify the attempt".  Not so: a handler that won the fence of
\* an earlier attempt cancels the row at whatever attempt it is by then.
CommitIsFinal ==
  [][\A j \in DOMAIN jobs \cap DOMAIN jobs' :
       jobs[j].status = "running" /\ fence[<<j, jobs[j].attempt>>] = "commit" =>
         jobs'[j].status # "cancelled"]_vars

\* Every running attempt comes to an end if the engines do: whether a worker
\* ends with its result, with an error or without a word.
EveryAttemptSettles ==
  EnginesEnd => \A j \in Job :
    (j \in DOMAIN jobs /\ jobs[j].status = "running") ~>
      (j \notin DOMAIN jobs \/ jobs[j].status # "running")

\* After a cancel the queue worker is free again, even if the engine never ends
\* and the row succeeded, or was retried, in the meantime.
CancelFreesWorker ==
  \A j \in Job :
    (active.job = j /\ jobs[j].status = "cancelled") ~> (active.job # j)

\* An Agent that is asked to stop ends, even if the engine never does.
StopEnds == stopping ~> (loop.pc = "down")
=============================================================================

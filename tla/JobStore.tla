------------------------------ MODULE JobStore ------------------------------
(***************************************************************************)
(* The job table of the Local Companion (tda_companion/store.py, Store).   *)
(*                                                                         *)
(* Every operation of Store is one SQLite transaction (BEGIN IMMEDIATE),   *)
(* so every operation is one action here.  The module says nothing of who  *)
(* calls the operations: Next lets any caller invoke any of them at any    *)
(* time with any arguments, the stale ones included, which is how the HTTP *)
(* handlers, the queue worker and the reconciliation race on the table.    *)
(*                                                                         *)
(* A job row is a record; a table is a function whose domain is the set of *)
(* primary keys it holds.  Left out: events, activity metrics, stage names *)
(* and execution devices, which no other operation reads back.             *)
(***************************************************************************)
EXTENDS Integers, Functions

CONSTANTS
  Job,         \* job ids (uuid4: an id is never drawn twice)
  Key,         \* idempotency keys
  Body,        \* job bodies a client may submit
  Nil,         \* the NULL of a result column
  MaxAttempt,  \* bound: no job is claimed more often than this
  MaxClock     \* bound: the time stamps the model tells apart

Kind == {"craig", "fixture"}

\* target stands for (campaign_id, session_id); profile for profile_id,
\* glossary, context and cpu, which only ever travel together.
ASSUME BodyAssumption ==
  \A b \in Body : /\ DOMAIN b = {"kind", "target", "source", "profile", "units"}
                  /\ b.kind \in Kind
                  /\ b.units \in Int
ASSUME BoundAssumption == MaxAttempt \in Nat /\ MaxClock \in Nat
ASSUME NilAssumption == Nil \notin Nat

VARIABLES
  jobs,      \* table jobs: job id -> row
  aliases,   \* table idempotency_keys: key -> job id and body signature
  receipts,  \* table terminal_job_receipts: job id -> last terminal fact
  paused     \* settings.paused

storeVars == <<jobs, aliases, receipts, paused>>

Status == {"queued", "running", "succeeded", "failed", "interrupted", "cancelled"}
ActiveStatus == {"queued", "running"}
RemovableStatus == {"succeeded", "failed", "interrupted", "cancelled"}
Attempt == 1 .. MaxAttempt

Row == [body : Body, status : Status, attempt : 0 .. MaxAttempt, completed : Nat,
        recoverable : BOOLEAN, result : Attempt \cup {Nil}, updated : 0 .. MaxClock]
Receipt == [attempt : 0 .. MaxAttempt, status : RemovableStatus, resultAvailable : BOOLEAN]

With(f, x, v) == [y \in DOMAIN f \cup {x} |-> IF y = x THEN v ELSE f[y]]
Without(f, x) == Restrict(f, DOMAIN f \ {x})

Active == {j \in DOMAIN jobs : jobs[j].status \in ActiveStatus}
Queued == {j \in DOMAIN jobs : jobs[j].status = "queued"}
Running(j, a) == j \in DOMAIN jobs /\ jobs[j].status = "running" /\ jobs[j].attempt = a

\* _transcription_work_signature: the destination is not part of the work.
SameWork(b, c) ==
  /\ b.kind = "craig" /\ c.kind = "craig"
  /\ b.source = c.source /\ b.profile = c.profile /\ b.units = c.units

\* A row that enters the queue is stamped no earlier than the rows that wait
\* there already; two stamps may be equal (the clock ticks coarsely).
QueueStamp(t) == \A i \in Queued : jobs[i].updated =< t

NewRow(b, t) ==
  [body |-> b, status |-> "queued", attempt |-> 0, completed |-> 0,
   recoverable |-> TRUE, result |-> Nil, updated |-> t]

SetRow(j, row) == jobs' = [jobs EXCEPT ![j] = row]
-----------------------------------------------------------------------------
Init ==
  /\ jobs = [j \in {} |-> Nil]
  /\ aliases = [k \in {} |-> Nil]
  /\ receipts = [j \in {} |-> Nil]
  /\ paused = FALSE

\* submit of a key never seen: the row and its alias are inserted together.
Submit(k, b, j, t) ==
  /\ k \notin DOMAIN aliases
  /\ \A i \in Active : ~ SameWork(jobs[i].body, b)
  /\ b.units >= 1
  /\ j \notin DOMAIN jobs \cup DOMAIN receipts
  /\ \A l \in DOMAIN aliases : aliases[l].job # j
  /\ QueueStamp(t)
  /\ jobs' = With(jobs, j, NewRow(b, t))
  /\ aliases' = With(aliases, k, [job |-> j, body |-> b])
  /\ UNCHANGED <<receipts, paused>>

\* submit of a new key for a body that a live transcription already carries:
\* only an alias is written, the key now names the live job.
SubmitReuse(k, b, j) ==
  /\ k \notin DOMAIN aliases
  /\ b.kind = "craig"
  /\ j \in Active
  /\ jobs[j].body = b
  /\ aliases' = With(aliases, k, [job |-> j, body |-> b])
  /\ UNCHANGED <<jobs, receipts, paused>>

\* Mutant: anything but a success can be cancelled.
CancelLate(j) ==
  /\ j \in DOMAIN jobs /\ jobs[j].status # "succeeded"
  /\ SetRow(j, [jobs[j] EXCEPT !.status = "cancelled", !.recoverable = TRUE])
  /\ UNCHANGED <<aliases, receipts, paused>>

\* action("cancel"): not fenced by an attempt.
Cancel(j) ==
  /\ j \in Active
  /\ SetRow(j, [jobs[j] EXCEPT !.status = "cancelled", !.recoverable = TRUE])
  /\ UNCHANGED <<aliases, receipts, paused>>

\* Mutant: a row that waits in the queue is overlooked.
NoOtherRunningWork(j) ==
  \A i \in Active \ (Queued \cup {j}) : ~ SameWork(jobs[i].body, jobs[j].body)

\* The condition action("retry") puts on every other row.
NoOtherActiveWork(j) ==
  \A i \in Active \ {j} : ~ SameWork(jobs[i].body, jobs[j].body)

Retriable(j) ==
  /\ j \in DOMAIN jobs
  /\ jobs[j].status \in {"failed", "interrupted"}
  /\ jobs[j].recoverable
  /\ NoOtherActiveWork(j)

\* action("retry"): only a transcription starts again from zero.
Retry(j, t) ==
  /\ Retriable(j)
  /\ QueueStamp(t)
  /\ SetRow(j, [jobs[j] EXCEPT
        !.status = "queued",
        !.completed = IF jobs[j].body.kind = "craig" THEN 0 ELSE @,
        !.updated = t])
  /\ UNCHANGED <<aliases, receipts, paused>>

\* claim: the oldest queued row starts its next attempt.
Claim(j) ==
  /\ ~ paused
  /\ j \in Queued
  /\ \A i \in Queued : jobs[j].updated =< jobs[i].updated
  /\ jobs[j].attempt < MaxAttempt
  /\ SetRow(j, [jobs[j] EXCEPT !.status = "running", !.attempt = @ + 1])
  /\ UNCHANGED <<aliases, receipts, paused>>

\* progress: the caller's attempt must be the running one and its count the next.
Progress(j, a, completed, total) ==
  /\ Running(j, a)
  /\ total = jobs[j].body.units
  /\ completed = jobs[j].completed + 1
  /\ SetRow(j, [jobs[j] EXCEPT !.completed = completed])
  /\ UNCHANGED <<aliases, receipts, paused>>

\* complete: FALSE for a stale attempt, a Conflict for an unfinished one.
Complete(j, a) ==
  /\ Running(j, a)
  /\ jobs[j].completed = jobs[j].body.units
  /\ SetRow(j, [jobs[j] EXCEPT !.status = "succeeded", !.result = a])
  /\ UNCHANGED <<aliases, receipts, paused>>

\* Mutant: the attempt of the snapshot is not compared with the row's.
UnsettledAtAll(j, a) ==
  /\ j \in DOMAIN jobs
  /\ jobs[j].status \in {"running", "interrupted", "failed"}
  /\ jobs[j].result = Nil

Unsettled(j, a) ==
  /\ j \in DOMAIN jobs
  /\ jobs[j].status \in {"running", "interrupted", "failed"}
  /\ jobs[j].attempt = a
  /\ jobs[j].result = Nil

\* complete_recovered: a durable run found later settles the attempt it names.
CompleteRecovered(j, a) ==
  /\ Unsettled(j, a)
  /\ jobs[j].body.kind = "craig"
  /\ SetRow(j, [jobs[j] EXCEPT !.status = "succeeded", !.result = a, !.recoverable = TRUE,
                               !.completed = jobs[j].body.units])
  /\ UNCHANGED <<aliases, receipts, paused>>

\* step: one synthetic unit, and with the last unit the result.
Step(j, a) ==
  /\ Running(j, a)
  /\ jobs[j].body.kind = "fixture"
  /\ LET done == jobs[j].completed + 1 = jobs[j].body.units
     IN  SetRow(j, [jobs[j] EXCEPT !.completed = @ + 1,
                                   !.status = IF done THEN "succeeded" ELSE @,
                                   !.result = IF done THEN a ELSE Nil])
  /\ UNCHANGED <<aliases, receipts, paused>>

Fail(j, a, recoverable) ==
  /\ Running(j, a)
  /\ SetRow(j, [jobs[j] EXCEPT !.status = "failed", !.recoverable = recoverable])
  /\ UNCHANGED <<aliases, receipts, paused>>

\* Mutants: any row may go; no receipt stays.
RemoveLive(j) ==
  /\ j \in DOMAIN jobs
  /\ receipts' = With(receipts, j,
                      [attempt |-> jobs[j].attempt, status |-> jobs[j].status,
                       resultAvailable |-> jobs[j].result # Nil])
  /\ jobs' = Without(jobs, j)
  /\ UNCHANGED <<aliases, paused>>
RemoveUnreceipted(j) ==
  /\ j \in DOMAIN jobs
  /\ jobs[j].status \in RemovableStatus
  /\ jobs' = Without(jobs, j)
  /\ UNCHANGED <<aliases, receipts, paused>>

\* remove: the row goes, a receipt of its last fact stays, and so do its aliases.
Remove(j) ==
  /\ j \in DOMAIN jobs
  /\ jobs[j].status \in RemovableStatus
  /\ receipts' = With(receipts, j,
                      [attempt |-> jobs[j].attempt, status |-> jobs[j].status,
                       resultAvailable |-> jobs[j].result # Nil])
  /\ jobs' = Without(jobs, j)
  /\ UNCHANGED <<aliases, paused>>

\* recover: run when an Agent starts, stops, or lost its store for a moment.
Recover ==
  /\ jobs' = [j \in DOMAIN jobs |->
                IF jobs[j].status = "running"
                THEN [jobs[j] EXCEPT !.status = "interrupted", !.recoverable = TRUE]
                ELSE jobs[j]]
  /\ UNCHANGED <<aliases, receipts, paused>>

SetPaused(p) == paused' = p /\ UNCHANGED <<jobs, aliases, receipts>>
-----------------------------------------------------------------------------
\* The attempt-fenced operations, with whatever attempt their caller remembers.
\* The callers report progress only of transcriptions (api.py commit_progress)
\* and only counts within the total (worker_protocol.py).
Report(j, a) ==
  \/ /\ j \in DOMAIN jobs
     /\ jobs[j].body.kind = "craig"
     /\ \E total \in {b.units : b \in Body} :
          \E completed \in 1 .. total : Progress(j, a, completed, total)
  \/ Complete(j, a)
  \/ CompleteRecovered(j, a)
  \/ Step(j, a)
  \/ \E r \in BOOLEAN : Fail(j, a, r)

Next ==
  \/ \E k \in Key, b \in Body, j \in Job, t \in 0 .. MaxClock : Submit(k, b, j, t)
  \/ \E k \in Key, b \in Body, j \in Job : SubmitReuse(k, b, j)
  \/ \E j \in Job : Cancel(j) \/ Claim(j) \/ Remove(j)
  \/ \E j \in Job, t \in 0 .. MaxClock : Retry(j, t)
  \/ \E j \in Job, a \in Attempt : Report(j, a)
  \/ Recover
  \/ \E p \in BOOLEAN : SetPaused(p)

Spec == Init /\ [][Next]_storeVars
-----------------------------------------------------------------------------
\* The tables hold rows of their types, and a job never counts more units than
\* it has.
TypeOK ==
  /\ DOMAIN jobs \subseteq Job
  /\ \A j \in DOMAIN jobs : jobs[j] \in Row /\ jobs[j].completed =< jobs[j].body.units
  /\ DOMAIN aliases \subseteq Key
  /\ \A k \in DOMAIN aliases : aliases[k] \in [job : Job, body : Body]
  /\ DOMAIN receipts \subseteq Job
  /\ \A j \in DOMAIN receipts : receipts[j] \in Receipt
  /\ paused \in BOOLEAN

\* At most one live transcription does the same work, however submissions,
\* retries of old jobs and removals interleave (submit and action check this
\* against the table at two different places).
OneActivePerWork ==
  \A i, j \in Active : SameWork(jobs[i].body, jobs[j].body) => i = j

\* A key that was accepted always leads to the job it was accepted for, with
\* the same body, or to the receipt of its removal: submit never reaches
\* IDEMPOTENCY_STATE_INVALID, and no replay of a key makes a second operation.
AliasResolves ==
  /\ \A k \in DOMAIN aliases :
       LET j == aliases[k].job
       IN  \/ j \in DOMAIN jobs /\ jobs[j].body = aliases[k].body
           \/ j \in DOMAIN receipts
  /\ DOMAIN jobs \cap DOMAIN receipts = {}

\* A row has a result exactly when it succeeded, the result is of the attempt
\* the row is at, and every unit was counted: a stale attempt never leaves its
\* result on a later one.  A fixture that has not succeeded has units left, so
\* step always reaches the last one, retries included.
ResultIsCurrent ==
  \A j \in DOMAIN jobs :
    /\ jobs[j].result # Nil <=> jobs[j].status = "succeeded"
    /\ jobs[j].result # Nil => /\ jobs[j].result = jobs[j].attempt
                               /\ jobs[j].completed = jobs[j].body.units
    /\ jobs[j].body.kind = "fixture" /\ jobs[j].status # "succeeded" =>
         jobs[j].completed < jobs[j].body.units

\* The ledger a client may rely on (JobLedger): the fate of an operation, which
\* outlives the row that recorded it.
Fate(status) ==
  CASE status = "queued" -> "waiting"
    [] status \in {"failed", "interrupted"} -> "stopped"
    [] OTHER -> status
LedgerOwner == [k \in DOMAIN aliases |-> aliases[k].job]
LedgerFate ==
  [j \in Job |-> IF j \in DOMAIN jobs THEN Fate(jobs[j].status)
                 ELSE IF j \in DOMAIN receipts THEN Fate(receipts[j].status)
                 ELSE "none"]
LedgerTries ==
  [j \in Job |-> IF j \in DOMAIN jobs THEN jobs[j].attempt
                 ELSE IF j \in DOMAIN receipts THEN receipts[j].attempt
                 ELSE 0]
Ledger == INSTANCE JobLedger
            WITH owner <- LedgerOwner, fate <- LedgerFate, tries <- LedgerTries

\* Removing rows, reusing live jobs and late reports never change a settled
\* operation, never move a key to another operation and never start an attempt
\* number twice: the table implements the ledger.
ImplementsLedger == Ledger!Spec
=============================================================================

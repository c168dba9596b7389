------------------------- MODULE ProfilePreparation -------------------------
(***************************************************************************)
(* First use of a transcription profile: the Agent prepares one profile at *)
(* a time in a thread, its queue worker claims no job meanwhile, and the   *)
(* form of the page uploads, has the profile prepared and submits.  The    *)
(* form keeps what it showed when its button was pressed; another tab may  *)
(* start and cancel preparations too.  An installation is one step.        *)
(***************************************************************************)
EXTENDS Integers, Sequences, FiniteSets

CONSTANTS
  Profile,   \* the profiles; Qwen \in Profile needs the new runtime
  Qwen,
  Nil,       \* no value
  MaxOp,     \* bound on preparations
  MaxJob,    \* bound on jobs
  MaxFault   \* bound on restarts, failures and lost answers

VARIABLES
  prep,      \* the status the Agent keeps of the last preparation
  thread,    \* its thread: the operation it runs, how far, and its event
  host,      \* profiles installed, version of the runtime, operations started
  gate,      \* who holds the dispatch gate
  worker,    \* the queue worker
  jobs,      \* rows of the store, by number
  page,      \* the form
  other,     \* the request of another tab
  asked,     \* the operations somebody asked to cancel
  faults

vars == <<prep, thread, host, gate, worker, jobs, page, other, asked, faults>>

Op == 1 .. MaxOp
Idle == [op |-> Nil, profile |-> Nil, state |-> "idle", active |-> FALSE]
NoThread == [op |-> Nil, pc |-> "ended", cancel |-> FALSE]

Fresh ==
  [pc |-> "idle", profile |-> CHOOSE p \in Profile : TRUE, staged |-> FALSE, shown |-> Idle,
   observed |-> Idle, key |-> Nil, of |-> Nil, keys |-> 0, cancel |-> Nil]

Init ==
  /\ prep = Idle /\ thread = NoThread
  /\ host = [ready |-> {}, runtime |-> "old", ops |-> 0]
  /\ gate = Nil /\ worker = "idle" /\ jobs = <<>>
  /\ page = Fresh /\ other = Nil
  /\ asked = {} /\ faults = 0

Agent == <<prep, thread, host, gate, worker, jobs>>
Fault == faults < MaxFault /\ faults' = faults + 1

-----------------------------------------------------------------------------
(* The thread of a preparation: checks, installs, checks again, ends. *)
Ends(state) ==
  /\ prep' = [prep EXCEPT !.state = state, !.active = FALSE]
  /\ thread' = [thread EXCEPT !.pc = "unwinding"]

RunChecks ==
  /\ thread.pc = "checks"
  /\ IF thread.cancel THEN Ends("failed")
     ELSE IF prep.profile \in host.ready THEN Ends("completed")
     ELSE thread' = [thread EXCEPT !.pc = "installs"] /\ UNCHANGED prep
  /\ UNCHANGED <<host, gate, worker, jobs, page, other, asked, faults>>

RunInstalls ==
  /\ thread.pc = "installs"
  /\ host' = [host EXCEPT !.ready = @ \cup {prep.profile},
                          !.runtime = IF prep.profile = Qwen THEN "new" ELSE @]
  /\ IF thread.cancel THEN Ends("failed") ELSE Ends("completed")
  /\ UNCHANGED <<gate, worker, jobs, page, other, asked, faults>>

(* A download, a probe or the deadline fails it. *)
RunFails ==
  /\ thread.pc \in {"checks", "installs"}
  /\ thread.cancel \/ faults < MaxFault
  /\ faults' = IF thread.cancel THEN faults ELSE faults + 1
  /\ Ends("failed")
  /\ UNCHANGED <<host, gate, worker, jobs, page, other, asked>>

RunUnwinds ==
  /\ thread.pc = "unwinding"
  /\ thread' = NoThread
  /\ UNCHANGED <<prep, host, gate, worker, jobs, page, other, asked, faults>>

(* A receipt that says running is of an Agent that ended; the requests it *)
(* was handling end with it.                                              *)
Restart ==
  /\ Fault
  /\ prep' = [prep EXCEPT !.state = IF @ = "running" THEN "interrupted" ELSE @,
                          !.active = FALSE]
  /\ thread' = NoThread /\ gate' = Nil /\ worker' = "idle"
  /\ jobs' = [j \in DOMAIN jobs |->
       IF jobs[j].status = "running" THEN [jobs[j] EXCEPT !.status = "queued"] ELSE jobs[j]]
  /\ other' = Nil
  /\ page' = IF page.pc \in {"start", "resumes", "refused"} THEN [page EXCEPT !.pc = "idle"] ELSE page
  /\ UNCHANGED <<host, asked>>

(* Only the operation that the caller observed. *)
request_cancel(op) ==
  thread' = IF prep.active /\ prep.op = op THEN [thread EXCEPT !.cancel = TRUE] ELSE thread

-----------------------------------------------------------------------------
(* The dispatch gate. *)
(* Mutant: a preparation does not wait for it. *)
TakesNone(w) == IF w = "worker" THEN gate = Nil /\ gate' = w ELSE gate' = gate
Takes(w) == gate = Nil /\ gate' = w
Leaves(w) == gate' = IF gate = w THEN Nil ELSE gate

WorkerLooks ==
  /\ worker = "idle"
  /\ Takes("worker")
  /\ worker' = IF prep.active THEN "idle next" ELSE "claims"
  /\ UNCHANGED <<prep, thread, host, jobs, page, other, asked, faults>>

(* store.claim, while the gate is held. *)
WorkerClaims ==
  LET queued == {j \in DOMAIN jobs : jobs[j].status = "queued"}
  IN /\ worker \in {"claims", "idle next"}
     /\ Leaves("worker")
     /\ IF worker = "claims" /\ queued # {}
          THEN \E j \in queued :
                 /\ \A i \in queued : j <= i
                 /\ jobs' = [jobs EXCEPT ![j].status = "running"]
                 /\ worker' = "runs"
          ELSE worker' = "idle" /\ UNCHANGED jobs
     /\ UNCHANGED <<prep, thread, host, page, other, asked, faults>>

WorkerEnds ==
  /\ worker = "runs"
  /\ worker' = "idle"
  /\ jobs' = [j \in DOMAIN jobs |->
       IF jobs[j].status = "running" THEN [jobs[j] EXCEPT !.status = "ended"] ELSE jobs[j]]
  /\ UNCHANGED <<prep, thread, host, gate, page, other, asked, faults>>

ActiveJobs == {j \in DOMAIN jobs : jobs[j].status \in {"queued", "running"}}

(* start: the running one for the same profile, a new one, or a refusal. *)
Starts(profile) ==
  /\ host.ops < MaxOp
  /\ host' = [host EXCEPT !.ops = @ + 1]
  /\ prep' = [op |-> host.ops + 1, profile |-> profile, state |-> "running", active |-> TRUE]
  /\ thread' = [op |-> host.ops + 1, pc |-> "checks", cancel |-> FALSE]

Joins(profile) == prep.active /\ prep.profile = profile

start(profile) ==
  IF prep.active \/ thread.pc # "ended" THEN UNCHANGED <<prep, thread, host>>
  ELSE Starts(profile)

Started(profile) == IF Joins(profile) \/ (~prep.active /\ thread.pc = "ended") THEN prep' ELSE Nil

-----------------------------------------------------------------------------
(* The other tab. *)
OtherPrepares ==
  /\ other = Nil /\ host.ops < MaxOp
  /\ Takes("other")
  /\ \E p \in Profile : other' = IF ActiveJobs # {} THEN Nil ELSE [profile |-> p]
  /\ other' # Nil
  /\ UNCHANGED <<prep, thread, host, worker, jobs, page, asked, faults>>

OtherStarts ==
  /\ other # Nil
  /\ start(other.profile)
  /\ Leaves("other")
  /\ other' = Nil
  /\ UNCHANGED <<worker, jobs, page, asked, faults>>

OtherCancels ==
  /\ prep.active /\ prep.op \notin asked
  /\ request_cancel(prep.op)
  /\ asked' = asked \cup {prep.op}
  /\ UNCHANGED <<prep, host, gate, worker, jobs, page, other, faults>>

-----------------------------------------------------------------------------
(* The form.  What it reads of the profiles: *)
parseCapabilities(p) ==
  CASE p = Qwen /\ p \in host.ready /\ host.runtime = "old" -> "upgrade"
    [] p \in host.ready /\ ~(p = Qwen /\ host.runtime = "old") -> "ready"
    [] OTHER -> "prepare"

busy == page.pc # "idle"
(* What an attempt has observed ends with it. *)
Page(p) == page' = IF p.pc \in {"idle", "post"} THEN [p EXCEPT !.observed = Idle] ELSE p
Stays == UNCHANGED <<Agent, other, asked>>

ChangeProfile ==
  /\ ~busy
  /\ \E p \in Profile \ {page.profile} : Page([page EXCEPT !.profile = p])
  /\ Stays /\ UNCHANGED faults

(* The poll of the preparation; it lags behind, and between two polls the  *)
(* form shows what was.                                                    *)
refreshPreparation ==
  /\ page.shown # prep
  /\ Page([page EXCEPT !.shown = prep])
  /\ Stays /\ UNCHANGED faults

(* submit closes over the preparation that is shown. *)
submit ==
  /\ ~busy
  /\ Page([page EXCEPT !.pc = IF page.staged THEN "capabilities" ELSE "upload",
                       !.observed = page.shown])
  /\ Stays /\ UNCHANGED faults

craigSource ==
  /\ page.pc = "upload"
  /\ Page([page EXCEPT !.pc = "capabilities", !.staged = TRUE])
  /\ Stays /\ UNCHANGED faults

(* A profile that is not ready is prepared, or its preparation followed. *)
capabilities ==
  LET state == parseCapabilities(page.profile)
  IN /\ page.pc = "capabilities"
     /\ Page(CASE state = "ready" -> [page EXCEPT !.pc = "post"]
               [] state = "upgrade" -> [page EXCEPT !.pc = "idle"]
               [] state = "prepare" /\ ~page.observed.active -> [page EXCEPT !.pc = "prepare"]
               [] state = "prepare" /\ page.observed.active /\ page.observed.profile = page.profile ->
                    [page EXCEPT !.pc = "wait"]
               [] OTHER -> [page EXCEPT !.pc = "idle"])
     /\ Stays /\ UNCHANGED faults

(* prepare_profile: refused while a transcription is queued or runs. *)
prepareProfile ==
  /\ page.pc \in {"prepare", "resume"}
  /\ Takes("page")
  /\ Page([page EXCEPT !.pc = IF ActiveJobs # {} THEN "refused"
                             ELSE IF @ = "prepare" THEN "start" ELSE "resumes"])
  /\ UNCHANGED <<prep, thread, host, worker, jobs, other, asked, faults>>

(* An attempt prepares the chosen profile, resuming the interrupted one. *)
Wanted == IF page.pc = "resumes" THEN page.observed.profile ELSE page.profile

prepareStarts ==
  /\ page.pc \in {"start", "resumes", "refused"}
  /\ Leaves("page")
  /\ IF page.pc # "refused" THEN start(Wanted) ELSE UNCHANGED <<prep, thread, host>>
  /\ Page(IF page.pc # "refused" /\ Started(Wanted) # Nil
            THEN [page EXCEPT !.pc = IF @ = "start" THEN "wait" ELSE "idle",
                              !.shown = prep', !.observed = prep']
            ELSE [page EXCEPT !.pc = "idle"])
  /\ UNCHANGED <<worker, jobs, other, asked, faults>>

(* Another operation than the observed one ends the wait. *)
wait ==
  LET o == page.observed
  IN /\ page.pc = "wait"
     /\ IF o.state = "running"
          THEN Page([page EXCEPT !.shown = prep,
                      !.observed = IF prep.op = o.op THEN prep ELSE @,
                      !.pc = IF prep.op = o.op THEN "wait" ELSE "idle"])
          ELSE Page([page EXCEPT
                      !.pc = IF o.state = "completed" /\ parseCapabilities(page.profile) = "ready"
                             THEN "post" ELSE "idle"])
     /\ Stays /\ UNCHANGED faults

(* The key is kept as long as the same work is submitted. *)
Keyed ==
  IF page.key # Nil /\ page.of = page.profile THEN page
  ELSE [page EXCEPT !.key = page.keys + 1, !.keys = @ + 1, !.of = page.profile]

transcription ==
  LET k == Keyed
      known == \E j \in DOMAIN jobs : jobs[j].key = k.key
      same == \E j \in ActiveJobs : jobs[j].profile = page.profile
      accepted == known \/ (~same /\ page.profile \in host.ready)
  IN /\ page.pc = "post" /\ gate = Nil
     /\ accepted /\ ~known => Len(jobs) < MaxJob
     /\ jobs' = IF accepted /\ ~known
          THEN Append(jobs, [key |-> k.key, profile |-> page.profile, status |-> "queued"])
          ELSE jobs
     /\ \/ /\ Page([k EXCEPT !.pc = "idle", !.key = IF accepted THEN Nil ELSE @])
           /\ UNCHANGED faults
        \/ Page([k EXCEPT !.pc = "idle"]) /\ Fault
     /\ UNCHANGED <<prep, thread, host, gate, worker, other, asked>>

(* Any call fails or is aborted; what the Agent did stays done. *)
Fails ==
  /\ page.pc \in {"upload", "capabilities", "prepare", "resume", "wait", "post"}
  /\ Fault
  /\ \E staged \in IF page.pc = "resume" THEN {page.staged} ELSE {page.staged, FALSE} :
       Page([page EXCEPT !.pc = "idle", !.staged = staged])
  /\ Stays

(* cancelActivePreparation: of the operation that is shown. *)
cancelActivePreparation ==
  /\ page.shown.active /\ page.cancel = Nil
  /\ Page([page EXCEPT !.cancel = page.shown.op])
  /\ asked' = asked \cup {page.shown.op}
  /\ UNCHANGED <<Agent, other, faults>>

cancelPreparation ==
  /\ page.cancel # Nil
  /\ request_cancel(page.cancel)
  /\ Page([page EXCEPT !.cancel = Nil, !.shown = prep])
  /\ UNCHANGED <<prep, host, gate, worker, jobs, other, asked, faults>>

(* Only the preparation; nothing is submitted after it. *)
resumePreparation ==
  /\ ~busy /\ page.shown.state = "interrupted"
  /\ Page([page EXCEPT !.pc = "resume", !.observed = page.shown])
  /\ Stays /\ UNCHANGED faults

Next ==
  \/ RunChecks \/ RunInstalls \/ RunFails \/ RunUnwinds \/ Restart
  \/ WorkerLooks \/ WorkerClaims \/ WorkerEnds
  \/ OtherPrepares \/ OtherStarts \/ OtherCancels
  \/ ChangeProfile \/ refreshPreparation \/ submit \/ craigSource
  \/ capabilities \/ prepareProfile \/ prepareStarts \/ wait \/ transcription \/ Fails
  \/ cancelActivePreparation \/ cancelPreparation \/ resumePreparation

Spec == Init /\ [][Next]_vars

-----------------------------------------------------------------------------
TypeOK ==
  /\ prep.op \in Op \cup {Nil}
  /\ prep.state \in {"idle", "running", "completed", "failed", "interrupted"}
  /\ prep.active = (prep.state = "running")
  /\ host.ready \subseteq Profile
  /\ gate \in {Nil, "worker", "page", "other"}

(* No job runs while a profile is being prepared: neither begins in the    *)
(* moment between the look at the other and its own start.                 *)
NoContention == ~(prep.active /\ \E j \in DOMAIN jobs : jobs[j].status = "running")

(* The operation that is cancelled is one that somebody asked to cancel:   *)
(* a request that arrives late does not reach its successor.               *)
CancelIsFenced == thread.cancel => thread.op \in asked
=============================================================================

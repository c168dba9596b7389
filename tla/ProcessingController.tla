------------------------ MODULE ProcessingController ------------------------
(***************************************************************************)
(* The Web's controller of the Local Companion: its calls, the reads they  *)
(* end with, and the snapshot they show.  JavaScript runs one piece of a   *)
(* call at a time, so a step is what a call does from one await to the     *)
(* next, and the calls in flight interleave.  A snapshot keeps the jobs,   *)
(* the catalogue of runs and the page of events of the observed job.       *)
(* Telemetry, the health of the Agent and the wording of errors are left   *)
(* out; a call is aborted exactly when its epoch is no longer current.     *)
(***************************************************************************)
EXTENDS Integers, FiniteSets

CONSTANTS
  Job,        \* the jobs of the Agent; Synthetic jobs are counted by key
  Nil,        \* no value
  PageLimit,  \* events of one page
  LogLength,  \* events each job has logged
  Kind,       \* the calls the user and the timer make
  Fault,      \* how a call may fail: "soft", "timeout", "forbidden"
  MaxCalls    \* bound on the calls started

VARIABLES
  server,     \* the Agent: status of each job, version, held queue, accepted keys
  paired,     \* the bridge holds a token
  ctl,        \* the controller
  calls,      \* calls in flight
  started,    \* how many calls were started
  acked       \* the submission keys whose answer was received

vars == <<server, paired, ctl, calls, started, acked>>

Terminal == {"succeeded", "failed", "cancelled"}
Status == {"queued", "running", "gone"} \cup Terminal
Mutation == {"cancel", "retry", "delete", "synthetic", "pause", "resume"}
Lifecycle == {"pause", "resume"}
Seqs == 1 .. LogLength

(* An event is the job it belongs to and its number there. *)
Event == Job \X Seqs

NoJobs == [j \in Job |-> "gone"]

initial ==
  [conn |-> "disconnected", refreshing |-> FALSE, mutation |-> Nil,
   jobs |-> NoJobs, version |-> 0, held |-> FALSE, lib |-> {}, libError |-> FALSE,
   observed |-> Nil, events |-> {}, older |-> FALSE,
   error |-> FALSE, uncertain |-> FALSE]

Hidden ==
  [epoch |-> 0, readSeq |-> 0, refreshSeq |-> 0, override |-> Nil, key |-> 0, keys |-> 0]

Shown == DOMAIN initial

(* {...initial, ...}: the private fields are kept. *)
Reset(c, how) ==
  [f \in DOMAIN c |->
     CASE f = "conn" -> how
       [] f = "uncertain" -> c.key # 0
       [] f = "error" -> how = "error"
       [] f \in Shown \ {"conn", "uncertain", "error"} -> initial[f]
       [] OTHER -> c[f]]

Init ==
  /\ server = [jobs |-> [j \in Job |-> "queued"], version |-> 1, held |-> FALSE, keys |-> {}]
  /\ paired = FALSE
  /\ ctl = [f \in Shown \cup DOMAIN Hidden |-> IF f \in Shown THEN initial[f] ELSE Hidden[f]]
  /\ calls = {}
  /\ started = 0
  /\ acked = {}

-----------------------------------------------------------------------------
(* The Agent moves a job on; "failed" stands for a failure that a retry may mend. *)
Advance(j) ==
  \E s \in {"running", "succeeded", "failed"} :
    /\ CASE s = "running" -> server.jobs[j] = "queued" /\ ~server.held
         [] OTHER -> server.jobs[j] = "running"
    /\ s = "failed" => "retry" \in Kind
    /\ server' = [server EXCEPT !.jobs[j] = s, !.version = @ + 1]
    /\ UNCHANGED <<paired, ctl, calls, started, acked>>

-----------------------------------------------------------------------------
(* Calls. *)
NewCall(kind, j, stage) ==
  [id |-> started + 1, kind |-> kind, job |-> j, epoch |-> ctl.epoch, stage |-> stage,
   seq |-> 0, refresh |-> 0, prev |-> Nil, jobs |-> NoJobs, version |-> 0, held |-> FALSE,
   observed |-> Nil, events |-> {}, older |-> FALSE, key |-> 0]

IncludesLibrary(c) == c.kind \in {"connect", "refresh", "delete"}

(* What read keeps of the state it starts from. *)
BeginRead(c, k) ==
  [c EXCEPT !.stage = "jobs", !.seq = k.readSeq + 1,
            !.prev = [jobs |-> k.jobs, lib |-> k.lib, libError |-> k.libError,
                      observed |-> k.observed, events |-> k.events, older |-> k.older]]

ReadStarted(k) == [k EXCEPT !.readSeq = @ + 1]
OperationStarted(k) == [k EXCEPT !.readSeq = @ + 1, !.error = FALSE]

Current(c) == c.epoch = ctl.epoch
Connected == ctl.conn = "connected"

Start(c, others) ==
  /\ started < MaxCalls
  /\ calls' = others \cup {c}
  /\ started' = started + 1

(* An abort ends every call; a request already sent may still be done.     *)
Unstoppable == {c \in calls : c.stage = "post"}

resetRequest(k) == [k EXCEPT !.epoch = @ + 1, !.readSeq = @ + 1]

disconnect ==
  /\ ctl.conn # "disconnected"
  /\ ctl' = Reset([resetRequest(ctl) EXCEPT !.override = Nil], "disconnected")
  /\ paired' = FALSE
  /\ calls' = Unstoppable
  /\ UNCHANGED <<server, started, acked>>

connect ==
  LET k == OperationStarted(
             Reset([resetRequest(ctl) EXCEPT !.override = Nil], "connecting"))
  IN /\ "connect" \in Kind
     /\ Start([NewCall("connect", Nil, "boot") EXCEPT !.epoch = k.epoch], Unstoppable)
     /\ ctl' = k
     /\ paired' = FALSE
     /\ UNCHANGED <<server, acked>>

Refreshing(k) == [k EXCEPT !.refreshing = TRUE, !.refreshSeq = @ + 1]

refresh(kind) ==
  LET k == Refreshing(ctl)
  IN /\ kind \in Kind
     /\ Connected /\ ~ctl.refreshing
     /\ Start([BeginRead(NewCall(kind, Nil, "jobs"), k) EXCEPT !.refresh = k.refreshSeq], calls)
     /\ ctl' = ReadStarted(k)
     /\ UNCHANGED <<server, paired, acked>>

(* A job asked for is shown without events until they are read; Nil asks *)
(* for none, and what is shown stays until the read ends.                *)
Observing(j) ==
  OperationStarted(
    IF j = Nil THEN [ctl EXCEPT !.override = Nil]
    ELSE [ctl EXCEPT !.override = j, !.observed = j, !.events = {}, !.older = FALSE])

observeJob(j) ==
  LET k == Observing(j)
  IN /\ "observe" \in Kind
     /\ Connected /\ ctl.override # j
     /\ Start(BeginRead(NewCall("observe", j, "jobs"), k), calls)
     /\ ctl' = ReadStarted(k)
     /\ UNCHANGED <<server, paired, acked>>

First(events) == CHOOSE n \in Seqs : \E e \in events : e[2] = n /\ \A f \in events : n <= f[2]
Last(events) == CHOOSE n \in Seqs : \E e \in events : e[2] = n /\ \A f \in events : n >= f[2]

(* The page that ends at hi, and whether the log goes on below it. *)
PageUpTo(j, hi) == {j} \X {s \in Seqs : s <= hi /\ s > hi - PageLimit}
HasBelow(hi) == hi > PageLimit

loadOlderEvents ==
  /\ "older" \in Kind
  /\ Connected /\ ctl.observed # Nil /\ ctl.older /\ ctl.events # {}
  /\ LET below == First(ctl.events) - 1
     IN Start([NewCall("older", ctl.observed, "older") EXCEPT
                 !.events = PageUpTo(ctl.observed, below), !.older = HasBelow(below)], calls)
  /\ UNCHANGED <<server, paired, ctl, acked>>

(* runOperation for a mutation: one at a time, and not over another. *)
Mutate(kind, j, k) ==
  /\ kind \in Kind
  /\ Connected /\ ctl.mutation = Nil
  /\ Start([NewCall(kind, j, "post") EXCEPT !.key = k.key], calls)
  /\ ctl' = [OperationStarted(k) EXCEPT !.mutation = started + 1]
  /\ UNCHANGED <<server, paired, acked>>

jobAction(j, kind) ==
  /\ ctl.jobs[j] \in (IF kind = "cancel" THEN {"queued", "running"} ELSE {"failed"})
  /\ Mutate(kind, j, ctl)

lifecycle(kind) == Mutate(kind, Nil, ctl)

deleteJob(j) ==
  /\ ctl.jobs[j] \in Terminal
  /\ Mutate("delete", j, ctl)

(* #submissionKey ??= crypto.randomUUID() *)
synthetic ==
  Mutate("synthetic", Nil,
         IF ctl.key # 0 THEN ctl
         ELSE [ctl EXCEPT !.key = ctl.keys + 1, !.keys = @ + 1])

-----------------------------------------------------------------------------
(* The steps of a call. *)
Replace(c, d) == calls' = (calls \ {c}) \cup {d}

(* The Agent answers the bootstrap, and the first read begins. *)
Booted(c) ==
  /\ c.stage = "boot" /\ Current(c)
  /\ paired' = TRUE
  /\ Replace(c, BeginRead(c, ctl))
  /\ ctl' = ReadStarted(ctl)
  /\ UNCHANGED <<server, started, acked>>

(* The Agent does what a mutation asks.  An aborted request may still be done. *)
Deliver(c) ==
  /\ c.stage = "post"
  /\ server' =
       CASE c.kind = "cancel" /\ server.jobs[c.job] \in {"queued", "running"} ->
              [server EXCEPT !.jobs[c.job] = "cancelled", !.version = @ + 1]
         [] c.kind = "retry" /\ server.jobs[c.job] = "failed" ->
              [server EXCEPT !.jobs[c.job] = "queued", !.version = @ + 1]
         [] c.kind \in Lifecycle -> [server EXCEPT !.held = c.kind = "pause", !.version = @ + 1]
         [] c.kind = "delete" /\ server.jobs[c.job] \in Terminal ->
              [server EXCEPT !.jobs[c.job] = "gone", !.version = @ + 1]
         [] c.kind = "synthetic" -> [server EXCEPT !.keys = @ \cup {c.key}]
         [] OTHER -> server
  /\ IF Current(c) THEN Replace(c, [c EXCEPT !.stage = "sent"])
     ELSE calls' = calls \ {c}
  /\ UNCHANGED <<paired, ctl, started, acked>>

(* Its answer arrives, and the operation reads. *)
Answered(c) ==
  LET k == CASE c.kind = "synthetic" -> [ctl EXCEPT !.key = 0, !.uncertain = FALSE]
             [] c.kind = "delete" /\ ctl.override = c.job -> [ctl EXCEPT !.override = Nil]
             [] OTHER -> ctl
  IN /\ c.stage = "sent" /\ Current(c)
     /\ acked' = IF c.kind = "synthetic" THEN acked \cup {c.key} ELSE acked
     /\ Replace(c, BeginRead(c, k))
     /\ ctl' = ReadStarted(k)
     /\ UNCHANGED <<server, paired, started>>

(* The job whose events are read: the requested one if it is still there. *)
ObservedJob(jobs, override) ==
  LET there == {j \in Job : jobs[j] # "gone"}
      running == {j \in there : jobs[j] = "running"}
      queued == {j \in there : jobs[j] = "queued"}
      Some(S) == CHOOSE j \in S : TRUE
  IN CASE override \in there -> override
       [] override \notin there /\ running # {} -> Some(running)
       [] override \notin there /\ running = {} /\ queued # {} -> Some(queued)
       [] override \notin there /\ running \cup queued = {} /\ there # {} -> Some(there)
       [] OTHER -> Nil

GotJobs(c) ==
  LET jobs == server.jobs
  IN /\ c.stage = "jobs" /\ Current(c)
     /\ Replace(c, [c EXCEPT !.stage = "tail", !.jobs = jobs, !.version = server.version,
                             !.held = server.held,
                             !.observed = ObservedJob(jobs, ctl.override)])
     /\ ctl' = IF ctl.override # Nil /\ jobs[ctl.override] = "gone"
                 THEN [ctl EXCEPT !.override = Nil] ELSE ctl
     /\ UNCHANGED <<server, paired, started, acked>>

(* Mutant: a job that was not shown before is not a transition. *)
TransitionSeen(c) ==
  \E j \in Job : c.jobs[j] \in Terminal /\ c.prev.jobs[j] \in {"queued", "running"}

terminalTransition(c) ==
  \E j \in Job : c.jobs[j] \in Terminal /\ c.prev.jobs[j] \notin Terminal

ReloadsLibrary(c) == IncludesLibrary(c) \/ terminalTransition(c)

(* The end of read and of the operation around it. *)
Ended(c, k) ==
  IF ~Current(c) THEN k
  ELSE [k EXCEPT
          !.mutation = IF c.kind \in Mutation THEN Nil ELSE @,
          !.refreshing = IF c.refresh # 0 /\ c.refresh = k.refreshSeq THEN FALSE ELSE @]

(* Mutant: whichever read ends last is shown. *)
ApplyAny(c, lib, libError) ==
  Ended(c, [ctl EXCEPT !.conn = "connected", !.jobs = c.jobs, !.version = c.version,
                       !.held = c.held, !.lib = lib, !.libError = libError, !.observed = c.observed,
                       !.events = c.events, !.older = c.older])

Apply(c, lib, libError) ==
  Ended(c,
    IF c.seq # ctl.readSeq THEN ctl
    ELSE [ctl EXCEPT !.conn = "connected", !.jobs = c.jobs, !.version = c.version,
                     !.held = c.held, !.lib = lib, !.libError = libError, !.observed = c.observed,
                     !.events = c.events, !.older = c.older])

Finish(c, d, lib, libError) ==
  /\ ctl' = Apply(d, lib, libError)
  /\ calls' = calls \ {c}
  /\ UNCHANGED <<server, paired, started, acked>>

(* readEventTail: only what is newer, for the job that was shown already. *)
Newer(c) ==
  [events |-> c.prev.events \cup {c.observed} \X {s \in Seqs : s > Last(c.prev.events)},
   older |-> c.prev.older]

LastPage(c) == [events |-> PageUpTo(c.observed, LogLength), older |-> HasBelow(LogLength)]

(* Mutant: the tail is added to what was shown, whichever job that was of. *)
TailOfAny(c) ==
  CASE c.observed = Nil -> [events |-> {}, older |-> FALSE]
    [] c.observed # Nil /\ c.prev.events # {} -> Newer(c)
    [] OTHER -> LastPage(c)

Tail(c) ==
  CASE c.observed = Nil -> [events |-> {}, older |-> FALSE]
    [] c.observed # Nil /\ c.prev.observed = c.observed /\ c.prev.events # {} -> Newer(c)
    [] OTHER -> LastPage(c)

(* preserveSecondary: a failure keeps what the read started from. *)
Kept(c) ==
  IF c.prev.observed = c.observed
    THEN [events |-> c.prev.events, older |-> c.prev.older]
    ELSE [events |-> {}, older |-> FALSE]

GotTail(c) ==
  /\ c.stage = "tail" /\ Current(c)
  /\ \E t \in {Tail(c)} \cup (IF "soft" \in Fault THEN {Kept(c)} ELSE {}) :
       LET d == [c EXCEPT !.stage = "library", !.events = t.events, !.older = t.older]
       IN IF ReloadsLibrary(c)
            THEN /\ Replace(c, d)
                 /\ UNCHANGED <<server, paired, ctl, started, acked>>
            ELSE Finish(c, d, c.prev.lib, c.prev.libError)

Runs == {j \in Job : server.jobs[j] = "succeeded"}

GotLibrary(c) ==
  /\ c.stage = "library" /\ Current(c)
  /\ \/ Finish(c, c, Runs, FALSE)
     \/ "soft" \in Fault /\ Finish(c, c, c.prev.lib, TRUE)

GotOlder(c) ==
  /\ c.stage = "older" /\ Current(c)
  /\ calls' = calls \ {c}
  /\ \/ ctl' = IF ctl.observed # c.job THEN ctl
               ELSE [ctl EXCEPT !.events = @ \cup c.events, !.older = c.older]
     \/ "soft" \in Fault /\ ctl' = ctl
  /\ UNCHANGED <<server, paired, started, acked>>

(* refreshFailure and the catch of runOperation: what a failure erases. *)
Failed(c, f) ==
  CASE c.kind \in {"refresh", "background"} /\ f # "forbidden" -> ctl
    [] c.kind \notin {"refresh", "background"} /\ f = "soft" -> [ctl EXCEPT !.error = TRUE]
    [] OTHER -> Reset(ctl, "error")

Fail(c) ==
  \E f \in Fault :
    /\ c.stage \in {"boot", "post", "sent", "jobs"} /\ Current(c)
    /\ ctl' = Ended(c, Failed(c, f))
    /\ paired' = (paired /\ f # "forbidden")
    /\ calls' = calls \ {c}
    /\ UNCHANGED <<server, started, acked>>

(* An aborted request is never done: it did not leave the browser. *)
Aborted(c) ==
  /\ ~Current(c)
  /\ calls' = calls \ {c}
  /\ UNCHANGED <<server, paired, ctl, started, acked>>

Next ==
  \/ disconnect \/ connect \/ loadOlderEvents \/ synthetic
  \/ \E kind \in {"refresh", "background"} : refresh(kind)
  \/ \E kind \in Lifecycle : lifecycle(kind)
  \/ \E j \in Job \cup {Nil} : observeJob(j)
  \/ \E j \in Job : Advance(j) \/ deleteJob(j) \/ jobAction(j, "cancel") \/ jobAction(j, "retry")
  \/ \E c \in calls :
       \/ Booted(c) \/ Deliver(c) \/ Answered(c) \/ GotJobs(c) \/ GotTail(c)
       \/ GotLibrary(c) \/ GotOlder(c) \/ Fail(c) \/ Aborted(c)

Spec == Init /\ [][Next]_vars

-----------------------------------------------------------------------------
TypeOK ==
  /\ server.jobs \in [Job -> Status] /\ server.keys \subseteq Nat
  /\ paired \in BOOLEAN
  /\ ctl.conn \in {"disconnected", "connecting", "connected", "error"}
  /\ ctl.jobs \in [Job -> Status] /\ ctl.lib \subseteq Job /\ ctl.events \subseteq Event
  /\ ctl.observed \in Job \cup {Nil} /\ ctl.mutation \in Nat \cup {Nil}
  /\ ctl.key \in 0 .. ctl.keys
  /\ started \in 0 .. MaxCalls /\ acked \subseteq Nat

(* What is shown never goes back: of two reads in flight the one that      *)
(* started last wins, whichever ends last (#readSequence).                 *)
NeverOlder ==
  ctl.conn = "connected" /\ ctl'.conn = "connected" => ctl'.version >= ctl.version

(* A succeeded job is shown with its run, or with the error that says the  *)
(* catalogue is stale (terminalTransition, libraryRefreshError).           *)
LibraryHonest ==
  Connected /\ ~ctl.libError =>
    \A j \in Job : ctl.jobs[j] = "succeeded" => j \in ctl.lib \/ server.jobs[j] = "gone"

(* A submission the Agent accepted was answered, or a repetition will use  *)
(* its key: one intent makes one job (#submissionKey).                     *)
OneJobPerIntent == \A k \in server.keys : k \in acked \/ k = ctl.key

(* A call that ended left nothing busy behind it. *)
BusyHasCall ==
  /\ ctl.mutation # Nil => \E c \in calls : c.kind \in Mutation /\ Current(c)
  /\ ctl.refreshing => \E c \in calls : c.refresh # 0 /\ Current(c)
=============================================================================

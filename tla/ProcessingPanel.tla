-------------------------- MODULE ProcessingPanel --------------------------
(***************************************************************************)
(* The processing screen over its controller: four views, the queue with   *)
(* its filters and row menus, the dialog that confirms a choice, the       *)
(* connection section and the polls.  What a user can press depends on the *)
(* snapshot that is shown; a press calls the controller, and the code      *)
(* after an awaited call runs when that call ends.                         *)
(***************************************************************************)
EXTENDS Integers, FiniteSets

CONSTANTS
  Job, Nil, PageLimit, LogLength, Kind, Fault, MaxCalls,   \* as in ProcessingController
  Found,    \* the jobs that what is typed in the search field finds
  Delays,   \* how many times "Abrir TDA Companion" tries to connect
  MaxOp     \* bound on what the user does

VARIABLES server, paired, ctl, calls, started, acked,
  ui,       \* the state of the screen
  ops       \* what the user did so far

Ctl == INSTANCE ProcessingController

ctlVars == <<server, paired, ctl, calls, started, acked>>
vars == <<server, paired, ctl, calls, started, acked, ui, ops>>

View == {"overview", "queue", "results", "diagnostics"}
QueueFilter == {"active", "attention", "completed", "cancelled", "all"}
Confirmation == [action : {"cancel", "retry", "delete"}, job : Job]
                  \cup [action : {"resume"}, job : {Nil}]

Init ==
  /\ Ctl!Init
  /\ ui = [page |-> "new", view |-> "overview", filter |-> "active", query |-> FALSE,
           menu |-> Nil, dialog |-> Nil, retried |-> Nil, retry |-> 0,
           tries |-> 0, try |-> 0, offline |-> FALSE]
  /\ ops = 0

Connected == Ctl!Connected
Visible(view) == Connected /\ ui.view = view

-----------------------------------------------------------------------------
(* What the screen shows of a snapshot. *)
Jobs(statuses) == {j \in Job : ctl.jobs[j] \in statuses}
running == Jobs({"running"})
attention == Jobs({"failed"})
activeJob == IF running = {} THEN Nil ELSE CHOOSE j \in running : TRUE

(* The job the diagnostics are headed by. *)
observedJob ==
  IF ctl.observed # Nil /\ ctl.jobs[ctl.observed] # "gone" THEN ctl.observed ELSE activeJob

(* The card of the job in progress says which file is being read from the  *)
(* events shown, if they are that job's.                                   *)
trackContext == IF activeJob # Nil /\ ctl.observed = activeJob THEN ctl.events ELSE {}

OverviewView == [job |-> activeJob, track |-> trackContext]
DiagnosticsView == [job |-> observedJob, log |-> ctl.events]

queueFilterStatuses(filter) ==
  CASE filter = "active"    -> {"queued", "running"}
    [] filter = "attention" -> {"failed"}
    [] filter = "completed" -> {"succeeded"}
    [] filter = "cancelled" -> {"cancelled"}
    [] filter = "all"       -> Ctl!Status \ {"gone"}

selectQueueJobs(jobs, u) ==
  {j \in Job : jobs[j] \in queueFilterStatuses(u.filter) /\ (u.query => j \in Found)}

Rows == selectQueueJobs(ctl.jobs, ui)

(* The mutation a row waits for, by kind; a second press of it is disabled. *)
pendingFor(j) == {c.kind : c \in {d \in calls : d.id = ctl.mutation /\ d.job = j}}

-----------------------------------------------------------------------------
(* What follows an awaited call, in the step that ends it.                 *)
Ended(id) == id # 0 /\ \A c \in calls' : c.id # id

(* confirm: a job that is to run again is shown with the active ones. *)
AfterRetry(u) ==
  IF ~Ended(u.retry) THEN u
  ELSE [u EXCEPT !.retry = 0, !.retried = Nil,
                 !.filter = IF u.page = "open" /\ ctl'.jobs[u.retried] \in {"queued", "running"}
                              THEN "active" ELSE @]

(* "Abrir TDA Companion": connected, or the next delay. *)
AfterTry(u) ==
  IF ~Ended(u.try) THEN u
  ELSE [u EXCEPT !.try = 0, !.tries = IF ctl'.conn = "connected" THEN 0 ELSE @ - 1]

(* A menu is mounted with its row: another filter or search mounts another. *)
Mounted(u) ==
  IF \/ ctl'.conn # "connected"
     \/ u.filter # ui.filter \/ u.query # ui.query
     \/ u.menu \notin selectQueueJobs(ctl'.jobs, u)
    THEN [u EXCEPT !.menu = Nil]
  ELSE u

Shows(u) == ui' = Mounted(AfterTry(AfterRetry(u)))

Act == ui.page = "open" /\ ops < MaxOp /\ ops' = ops + 1
Press == Act /\ ui.dialog = Nil
Look == ui.page = "open" /\ ui.dialog = Nil /\ UNCHANGED ops
(* A press outside an open menu closes it first. *)
Closed == [ui EXCEPT !.menu = Nil]
Idle == UNCHANGED ctlVars

-----------------------------------------------------------------------------
(* The page. *)
Mount ==
  /\ ui.page = "new"
  /\ Ctl!connect
  /\ Shows([ui EXCEPT !.page = "open"])
  /\ UNCHANGED ops

Unmount ==
  /\ ui.page = "open"
  /\ IF ctl.conn = "disconnected" THEN Idle ELSE Ctl!disconnect
  /\ Shows([Closed EXCEPT !.page = "left", !.dialog = Nil])
  /\ UNCHANGED ops

(* The timer and the return to the tab read in the background. *)
Poll ==
  /\ ui.page = "open" /\ ctl.mutation = Nil
  /\ Ctl!refresh("background")
  /\ Shows(ui)
  /\ UNCHANGED ops

-----------------------------------------------------------------------------
(* Views. *)
(* observeJob returns at once unless it is connected and asks for another. *)
Observe(j) == IF Connected /\ ctl.override # j THEN Ctl!observeJob(j) ELSE Idle

refresh == IF Connected /\ ~ctl.refreshing THEN Ctl!refresh("refresh") ELSE Idle

(* Both calls of a step that leaves the diagnostics for the results. *)
ObserveAndRefresh ==
  LET k == Ctl!ReadStarted(Ctl!Observing(Nil))
      r == Ctl!Refreshing(k)
      observe == Ctl!BeginRead(Ctl!NewCall("observe", Nil, "jobs"), Ctl!Observing(Nil))
      read == [Ctl!BeginRead(Ctl!NewCall("refresh", Nil, "jobs"), r) EXCEPT
                 !.id = started + 2, !.refresh = r.refreshSeq]
  IN IF Connected /\ ctl.override # Nil /\ ~ctl.refreshing
       THEN /\ started + 2 <= MaxCalls
            /\ calls' = calls \cup {observe, read}
            /\ started' = started + 2
            /\ ctl' = Ctl!ReadStarted(r)
            /\ UNCHANGED <<server, paired, acked>>
     ELSE IF Connected /\ ctl.override # Nil THEN Ctl!observeJob(Nil)
     ELSE refresh

Viewing(u, next) ==
  [u EXCEPT !.view = next, !.menu = Nil,
            !.offline = @ \/ (ui.view = "diagnostics" /\ next # "diagnostics" /\ ~Connected)]

activateView(next) ==
  /\ CASE ui.view = "diagnostics" /\ next = "results" -> ObserveAndRefresh
       [] ui.view = "diagnostics" /\ next \in {"overview", "queue"} -> Observe(Nil)
       [] ui.view # "diagnostics" /\ next = "results" -> refresh
       [] OTHER -> Idle
  /\ Shows(Viewing(ui, next))

(* A tab by a click, or by the arrows, Home and End. *)
Tab(next) == Press /\ next # ui.view /\ activateView(next)

openAttentionQueue ==
  /\ Press /\ Connected /\ attention # {}
  /\ IF ui.view = "diagnostics" THEN Observe(Nil) ELSE Idle
  /\ Shows([Viewing(ui, "queue") EXCEPT !.filter = "attention", !.query = FALSE])

-----------------------------------------------------------------------------
(* The command bar: refresh, hold or release the queue, attention, diagnostics. *)
(* Releasing the queue asks first, holding it does not.                    *)
ToggleLifecycle ==
  /\ Press /\ Connected
  /\ \/ /\ ctl.held /\ "resume" \notin pendingFor(Nil) /\ Idle
        /\ Shows([Closed EXCEPT !.dialog = [action |-> "resume", job |-> Nil]])
     \/ /\ ~ctl.held /\ "pause" \notin pendingFor(Nil)
        /\ IF ctl.mutation = Nil THEN Ctl!lifecycle("pause") ELSE Idle
        /\ Shows(Closed)

ProcessingCommandBar ==
  \/ openAttentionQueue
  \/ ToggleLifecycle
  \/ Press /\ Connected /\ ~ctl.refreshing /\ Ctl!refresh("refresh") /\ Shows(Closed)
  \/ Press /\ Connected /\ activateView("diagnostics")

(* Connecting again, at once or after each delay of the opening application. *)
ConnectionSection ==
  /\ Press /\ ctl.conn \in {"disconnected", "error"}
  /\ \/ Ctl!connect /\ Shows([ui EXCEPT !.offline = FALSE])
     \/ /\ ui.tries = 0 /\ Idle
        /\ Shows([ui EXCEPT !.tries = Delays])

OpenCompanionDelay ==
  /\ ui.tries > 0 /\ ui.try = 0
  /\ Ctl!connect
  /\ Shows([ui EXCEPT !.try = started', !.offline = FALSE])
  /\ UNCHANGED ops

-----------------------------------------------------------------------------
(* Jobs: a press asks, and the dialog confirms. *)
Ask(action, j) ==
  /\ Idle
  /\ Shows([Closed EXCEPT !.dialog = [action |-> action, job |-> j]])

OverviewCancel ==
  /\ Press /\ Visible("overview") /\ activeJob # Nil
  /\ "cancel" \notin pendingFor(activeJob)
  /\ Ask("cancel", activeJob)

RowButtons(j) ==
  /\ Press /\ Visible("queue") /\ j \in Rows
  /\ \/ /\ ctl.jobs[j] \in {"queued", "running"} /\ "cancel" \notin pendingFor(j)
        /\ Ask("cancel", j)
     \/ /\ ctl.jobs[j] = "failed" /\ "retry" \notin pendingFor(j)
        /\ Ask("retry", j)

OpenMenu(j) ==
  /\ Look /\ Visible("queue") /\ j \in Rows /\ ui.menu # j
  /\ Idle /\ Shows([ui EXCEPT !.menu = j])

(* The menu of a row: its diagnostics, and the deletion of what has ended. *)
MenuButtons ==
  /\ Press /\ ui.menu # Nil
  /\ \/ Observe(ui.menu) /\ Shows(Viewing(ui, "diagnostics"))
     \/ /\ ctl.jobs[ui.menu] \in Ctl!Terminal /\ "delete" \notin pendingFor(ui.menu)
        /\ Ask("delete", ui.menu)
     \/ Idle /\ Shows(Closed)

FilterAndSearch ==
  /\ Press /\ Visible("queue") /\ Idle
  /\ \/ \E f \in QueueFilter : f # ui.filter /\ Shows([Closed EXCEPT !.filter = f])
     \/ Shows([Closed EXCEPT !.query = ~@])

Dismiss ==
  /\ Act /\ ui.dialog # Nil /\ Idle
  /\ Shows([ui EXCEPT !.dialog = Nil])

(* The controller looks at its own snapshot, and returns at once if the    *)
(* job is in another state by now or another mutation is in flight.        *)
Accepts(d) ==
  /\ Connected /\ ctl.mutation = Nil
  /\ CASE d.action = "cancel" -> ctl.jobs[d.job] \in {"queued", "running"}
       [] d.action = "retry"  -> ctl.jobs[d.job] = "failed"
       [] d.action = "delete" -> ctl.jobs[d.job] \in Ctl!Terminal
       [] d.action = "resume" -> TRUE

Does(d) ==
  CASE d.action \in {"cancel", "retry"} -> Ctl!jobAction(d.job, d.action)
    [] d.action = "delete" -> Ctl!deleteJob(d.job)
    [] d.action = "resume" -> Ctl!lifecycle("resume")

confirm ==
  LET d == ui.dialog
  IN /\ Act /\ d # Nil
     /\ IF Accepts(d) THEN Does(d) ELSE Idle
     /\ LET u == [ui EXCEPT !.dialog = Nil]
        IN IF d.action # "retry" THEN Shows(u)
           ELSE IF Accepts(d) THEN Shows([u EXCEPT !.retry = started', !.retried = d.job])
           ELSE Shows([u EXCEPT !.filter =
                         IF ctl.jobs[d.job] \in {"queued", "running"} THEN "active" ELSE @])

synthetic ==
  /\ Press /\ Visible("diagnostics") /\ ~ctl.held /\ ctl.mutation = Nil
  /\ Ctl!synthetic
  /\ Shows(Closed)

-----------------------------------------------------------------------------
(* The Agent and the calls go on by themselves. *)
Background ==
  /\ \/ \E j \in Job : Ctl!Advance(j)
     \/ \E c \in calls :
          \/ Ctl!Booted(c) \/ Ctl!Deliver(c) \/ Ctl!Answered(c) \/ Ctl!GotJobs(c)
          \/ Ctl!GotTail(c) \/ Ctl!GotLibrary(c) \/ Ctl!Fail(c) \/ Ctl!Aborted(c)
  /\ Shows(ui)
  /\ UNCHANGED ops

Next ==
  \/ Mount \/ Unmount \/ Poll \/ Background
  \/ \E view \in View : Tab(view)
  \/ ProcessingCommandBar \/ ConnectionSection \/ OpenCompanionDelay
  \/ OverviewCancel \/ MenuButtons \/ FilterAndSearch \/ Dismiss \/ confirm \/ synthetic
  \/ \E j \in Job : RowButtons(j) \/ OpenMenu(j)

Spec == Init /\ [][Next]_vars

-----------------------------------------------------------------------------
TypeOK ==
  /\ Ctl!TypeOK
  /\ ui.page \in {"new", "open", "left"} /\ ui.view \in View /\ ui.filter \in QueueFilter
  /\ ui.menu \in Job \cup {Nil} /\ (ui.dialog # Nil => ui.dialog \in Confirmation)
  /\ ui.retry \in 0 .. started /\ ui.try \in 0 .. started /\ ui.tries \in 0 .. Delays
  /\ ops \in 0 .. MaxOp

(* The log of the diagnostics belongs to the job its heading names, and    *)
(* the file on the card in progress to the job on that card.               *)
EventsAreOfTheirJob ==
  Connected =>
    /\ \A e \in DiagnosticsView.log : e[1] = DiagnosticsView.job
    /\ \A e \in OverviewView.track : e[1] = OverviewView.job

(* Leaving the diagnostics, by a tab or by the attention shortcut, gives   *)
(* the job in progress its events back (docs/features/local-processing.md),*)
(* unless they were left while there was no connection.                    *)
FocusIsFreed ==
  Connected /\ ui.view # "diagnostics" /\ ~ui.offline => ctl.override = Nil

(* An open menu is that of a row that is on the screen.                    *)
MenuIsOfARow == ui.menu # Nil => Visible("queue") /\ ui.menu \in Rows
=============================================================================

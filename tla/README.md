# TLA+ verification of TDA

TDA is a companion for tabletop campaigns: a Next.js site (`src/src`), a Supabase
database (`src/supabase`) and a **Local Companion** (`src/local-companion`), a
Python program on the user's machine that takes Craig recordings, transcribes
them with local models, and keeps the immutable results until they are reviewed
and published. This directory models the parts of it where several actors, or
one actor and a failure, can meet in an order nobody tested.

`PROJECT.json` lists components, runs, mutants, the map from definitions to
source lines, findings, hazards and theorems. This file explains them.

## 1. The system

### Local Companion (`local-companion`)

| Part | State | Operations | Hard because | Correct when | Module |
| --- | --- | --- | --- | --- | --- |
| Job store (`store.py`) | SQLite: jobs, idempotency keys, receipts, settings | submit, cancel, retry, claim, progress, complete, step, fail, remove, recover, pause | callers hold attempts they read earlier | no work runs twice at once, a key always leads to its operation, a settled operation stays settled | JobStore, JobLedger |
| Agent (`api.py`) | active worker, stop flag, dispatch gate, source gate | HTTP handlers, queue worker, reconciliation, lifespan | one event loop, but every `to_thread` is an interleaving; crash and restart | a running row has one owner; a success has its run | CompanionAgent |
| Supervisor (`worker_supervisor.py`) and worker (`asr_worker.py`) | a process, its pipes, its run directory | launch, messages, cancel, force, time out | a cancel, a result and an exit cross; the worker may outlive the Agent | it ends only after its process; no result before the sealed run | CompanionAgent |
| Attempt fence (`attempt_fence.py`) | one marker file per attempt | claim an outcome | torn writes, dead processes, power loss | one decision, never told differently | AttemptFence, FirstDecision |
| Runs (`transcription_runs.py`) | `runs/<id>` | write, seal, clean, list | `run.json` is the commit point | a committed run is neither lost nor hidden | CompanionAgent |
| Craig ingest (`craig_ingest.py`) | the staged source, with its runs and reviews | ingest, reuse, repair, recover | a directory in use is exchanged; the Agent dies in between | no job loses its source, what was accepted stays | CraigStaging |
| Profile preparation (`profile_preparation.py`, `submission.tsx`) | one operation and its receipt; a form | start, cancel, finish; upload, prepare, submit | cancellation against the last step; other tabs; restarts | no contention with the queue; only the intended operation is cancelled | ProfilePreparation |
| Local review (`local_review.py`, `local-review.tsx`) | draft, approval, summary; an editor | open, save, approve, rebase | compare-and-swap against what is typed meanwhile | what is typed stays, what is published was approved | LocalReviewEditor |
| Browser session (`browser_session.py`, `bridge.ts`) | sessions in memory, one token per page | pair, call, repeat, disconnect | lost answers, expiry, calls that share a token | applied once; no pairing after a disconnect | LocalBridge |
| Downloads and installs (`large_download.py`, `updates.py`, `asr_runtime.py`, …) | files, BITS jobs, current version | check, download, verify, install | releases change while they are read; two processes use one file | what is installed was promoted, whole | ReleaseDownload |
| Installation maintenance (`single_active_version.py`, `maintenance_*.py`, `TDACompanion.wxs`) | version directories, marker, registration, guard, journal | start, update, uninstall, recover | starts, an MSI transaction and a helper run at once, each may fail | the registered version is whole; the receipt is true | InstallationMaintenance |
| Checkpoints, engines, gates, single instance, telemetry, packaging | files, locks | — | — | — | not modelled (section 8) |

### Web and database (`src`, `supabase/migrations`, `tools`)

| Part | State | Hard because | Correct when | Module |
| --- | --- | --- | --- | --- |
| Processing controller (`controller.ts`) | a snapshot, calls in flight, epochs | answers out of order, aborts, intents kept over a failed call | the older answer never covers the newer | ProcessingController |
| Processing panel (`panel.tsx`, `queue-*.tsx`) | view, filters, menu, dialog, polls | a row goes while it is acted on | what is shown is of the chosen job | ProcessingPanel |
| Run comparison (`run-comparison.ts`) | — | a greedy pass over two lists | every segment once | RunComparison |
| Transcript publication (SQL, `publication-client.ts`, …) | revisions, keys, current pointer, `localStorage` | stale bases, lost answers, several tabs | no blind overwrite; a commit is never forgotten | TranscriptPublication |
| World edit session (SQL, `use-world-edit-session.ts`) | lease, checkpoints, the page's queue | expiry, takeover, a holder that comes back | what an editor was told is published stays | WorldEditSession |
| World content (`world-content-editor*.tsx`, SQL) | a draft graph, canon attached to it | late checks; semantics changed after the proof | what is public is proven | WorldContentEditor |
| World canvas (`world-explorer-client.tsx`, …) | tools, composers, filters, positions | modes changed in the middle | a composition belongs to the tool in hand | WorldAuthoring |
| Entity media | objects, rows, drafts | a bucket and a transaction | public portraits are verified | EntityMedia |
| Lembra library | references, objects, gallery | parallel users and answers | saved as chosen | LembraLibrary |
| Transcript segments | row at a revision, editor state | conflict, filters that unmount | saves over what is shown | TranscriptSegmentEditor |
| Canon review | candidates, decisions | pages that are old; authority taken away | decided once, from a source | CanonReview |
| Loading overlay | tokens, timers | tokens that are not returned | covered while waiting | GlobalLoading |
| Media tools (`tools/media`, `migrate-session-media-r2.mjs`) | bucket, receipts | other writers, kills | nothing replaced, receipts true | MediaPublication, MediaRecovery |

How they interact: the page (bridge, controller, panel, submission, review) calls
the Agent on the loopback; the Agent owns store, fences, runs, staging,
preparation; approved reviews go from the page to the site, which publishes
through the database. The World, Lembra, canon and segment editors talk to server
actions, which call atomic SQL functions and the private and public buckets.

## 2. Modules

General conventions. A step is what the code does between two points where
something else may run: a SQL transaction, a piece of JavaScript between two
awaits, a system call, a custom action. Bounds on counters are constants whose name
starts with `Max`. Operators commented as `Mutant` are used by no specification: they
are plausible slips of the code that the runs must catch. Each header says what its
module leaves out.

### JobStore and JobLedger

Each operation of `Store` is one `BEGIN IMMEDIATE` transaction, so each is one
action. The early returns and the `Conflict`s are the guards: an operation that
changes nothing is no step. `Next` lets any caller call anything with any attempt
number, so what holds here holds for every caller, stale ones included. The only
things assumed of callers are those that `api.py` and `worker_protocol.py` check:
progress is reported for transcriptions, with a count within the total.

A row is a record and a table a function. `updated` is kept only because `claim`
orders by it; rows enter the queue with stamps that do not go back (`QueueStamp`),
which assumes that the wall clock does not.

**JobLedger** is what the table promises its clients: a key names one operation for
ever, an operation that succeeded or was cancelled never changes, no attempt number is
used twice. Removal does not exist there: `ImplementsLedger` maps a removed row to
what its receipt says.

### AttemptFence and FirstDecision

`claim_attempt_outcome`, one system call per action, for one attempt and any number of
claimants; `Mishap` chooses among a failed write, a failed `fsync` of the creator, a
failed later confirmation, the death of a process, and a loss of power, after which
what was not synchronised may be there, cut short, or gone. **FirstDecision** is what
it promises: one outcome is decided once, and only that is ever told. `Durable`, the
outcome no failure can take back, is the refinement mapping for the decision.
The POSIX policy is modelled; on Windows `sync_namespace` does nothing, and the
documentation makes no claim there.

### CompanionAgent

EXTENDS JobStore with the processes around it.

- *Event loop.* What a handler or the queue worker does between two awaits is one
  action. A handler that awaits a thread is split there: `CancelRunning` (reads the
  attempt), `CancelFence` (the thread), `CancelAct` (back in the loop);
  `RetryBegin`, `Scan`/`Settle` (the pass), `RetryAct`. The queue worker is
  `ClaimJob` (the transaction in the thread), `Register`, `Launch` … `Judge`,
  `Finalize`, `Finish`, `Reconciled`. `dispatch_gate` is `gate`.
- *Reconciliation* is split in one read of the candidates (`Scan`) and one transaction
  per row (`Settle`); the queue worker and a retry handler may each run a pass.
- *Supervisor.* `SupervisorAsks`, `SupervisorForces`, `SupervisorTimesOut`,
  `SupervisorReads`, `SupervisorMourns`. It shares `pipe` with the worker.
- *Worker.* `WorkerStarts` … `WorkerReports`; it may err (`WorkerErrs`) or die
  (`WorkerDies`) anywhere. A message to a supervisor that is gone ends it.
- *Files.* `fence` (the decision, atomic here because AttemptFence shows it is) and
  `run` (absent, partial, committed).
- *Life.* `Start`, `Stop`, `LoopExits`, `RecoverRows`, `Crash`. `Fault` selects pauses,
  crashes, orphan workers, stops and I/O errors.

All jobs share one staged source (its exchange is CraigStaging). Not modelled here:
authentication, logs and metrics, publication targets (a binding that fails is an I/O
fault), preparation (ProfilePreparation shares the gate with an abstract queue worker).
`CompanionAgentProofs` holds its theorems.

### CraigStaging

One recording's directory as three parts that an exchange moves apart (tracks, runs,
reviews) and the directories a repair leaves. `Look`, `Ingest`, `Relook`, `RepairLooks`,
`RepairBegins`, `CopyRunHistory`, `MoveAway`, `MoveIn`, `Clean` are the steps of an upload;
`Claim`, `Seal`, `JobFails`, `SaveReview` what jobs and reviews do meanwhile; `Recover*`
one step per branch of `recover_interrupted_craig_repairs`. `SourceIsStill`,
`AcceptedIsThere`, `RunsAreKept` hold, the last only without crashes (section 7).

### ReleaseDownload

`Upload`, `Promote`, `Withdraw` change the catalog of GitHub; the site reads it page by
page, selects the latest, and answers a manifest; the page links; `desktop` and
`agent` download into the same target, `.partial` and BITS name, verify a digest,
rename, and install after verifying again. One module for the Companion and for both
runtimes: `Product` chooses the branches that differ.

### InstallationMaintenance

Processes of the program (`Open` … `Exit`), the transaction of Windows Installer with
its custom actions in the order of `TDACompanion.wxs` (`Msi*`), the helper with its
journal (`Helper*`), the guard, the reconcile mutex. The file operations and the
rollback of Windows Installer are external: it restores what it changed. Left out:
expiry of a guard after an hour, purge of user data, caches, power loss, timeouts of
locks (a start that gives up). `Whole` also stands for the smaller set of files that a
rollback asks for (`_restorable_installed_version`).

### ProfilePreparation

The receipt and the thread of one preparation, the queue worker's gate, the form of the
page with the closure it was pressed with, another tab. `NoContention` and
`CancelIsFenced`.

### LocalBridge, ProcessingController, ProcessingPanel

`LocalBridge` has the page's one token and its calls, `AppliedOnce` for requests that
carry an idempotency key, `StaysDisconnected`. `ProcessingController` has the calls of
the controller split at each await; `Apply` is the guarded write of a read's answer,
`terminalTransition` the refresh that follows the end of the observed job.
`ProcessingPanel` EXTENDS it: a press starts a call, the code after the await runs when
the call ends (`After`), so the two are composed rather than abstracted.

### LocalReviewEditor, TranscriptPublication

The path of a review: editor and Agent with compare-and-swap, rebase and approval; then
the operation in `localStorage`, Web Locks, routes and the database function with its
base revision and key. `NothingForgotten` relates what was committed to what any tab
still keeps or was told. `TranscriptPublicationProofs` holds its theorems.

### RunComparison

The loop of the comparison as actions on `left`, `right`, `region`; `ordered` inputs,
integer times, one track.

### WorldEditSession, WorldContentEditor, WorldAuthoring, EntityMedia

Four views of one editor. `WorldEditSession` has lease, checkpoints and the queue of
saves of the page, with a draft as the set of its edits; `WorldContentEditor` the content
of a draft and what the database accepts; `WorldAuthoring` the canvas over it;
`EntityMedia` uploads and the promotion that precedes the binding transaction.
`WorldProofs` holds their theorems.

### LembraLibrary, TranscriptSegmentEditor, CanonReview, GlobalLoading

Pages with their server actions, rows, other users, lost answers. In `CanonReview` an
administrator changes capabilities between the reading of a page and a decision.
`ReviewProofs` holds the theorems of these, of LocalReviewEditor and of RunComparison.

### MediaPublication, MediaRecovery

Command-line tools started by hand: what they do to files and bucket between two
awaits, with other writers, kills and repetitions.

## 3. Runs

| Run | Bounds | Shows |
| --- | --- | --- |
| `job_store` | 2 jobs, 3 keys, 3 bodies (two of the same work, one fixture), 2 units, 2 attempts, 2 stamps | `OneActivePerWork`, `AliasResolves`, `ResultIsCurrent`, refinement of JobLedger |
| `jobs` | `AloneOrPair`: one job of either kind with 2 attempts, pause, crash, stop; or two transcriptions with one attempt each in an Agent that stays up, one cancel or retry handler at a time | `RunningIsOwned`, `WorkerIsGuarded`, `SuccessIsVisible`, `NoForgottenRun` |
| `faults` | 1 transcription, 2 attempts; every fault, I/O errors and orphan workers included | `RunHasFence`, `FenceArbitrates` |
| `liveness` | 1 transcription, 2 attempts; stop | `EveryAttemptSettles`, `CancelFreesWorker`, `StopEnds` |
| `fence` | 1 commit and 2 cancel claims; all mishaps but the creator's fsync | `AnswerIsDurable`, refinement of FirstDecision |
| `components` | the instances below | one property per component |
| `stale_cancel`, `removed`, `orphan`, `fence_unlink`, `world_checkpoint`, `craig_repair` | the smallest that fail | the findings of section 6 |

`components` checks in one run the modules that do not share state. `MCComponents`
instantiates each of them, with its own values, in variables of its own; `Init` chooses
one instance, and only its actions are taken. A property of the run is the conjunction, over the
instances it concerns, of named invariants or action properties of their modules.

| Instance | Of | Bounds | Property: parts |
| --- | --- | --- | --- |
| `Controller` | ProcessingController | 1 job, 3 calls of 8 kinds, log of 2 in pages of 1, answers that fail softly, time out or are forbidden | `NeverOlder`; `PanelIsHonest`: LibraryHonest, OneJobPerIntent, BusyHasCall |
| `Panel` | ProcessingPanel | 2 jobs, 3 calls, 3 presses, 1 timeout | `PanelIsHonest`: EventsAreOfTheirJob, FocusIsFreed, MenuIsOfARow |
| `Publication` | TranscriptPublication | 2 tabs, 2 accounts, 2 operations, 1 request on the wire, 2 revisions | `PublishedAsConfirmed`: NothingForgotten, NoBlindOverwrite, PublishedOnce |
| `Editor` | LocalReviewEditor | 1 cell, 2 revisions, 2 saves on their way | `SavesWhatIsShown`; `ReviewIsKept`: TypedIsKept, OnlyTyped, CleanIsSaved, PublishableIsApproved |
| `Bridge` | LocalBridge | 2 calls, 3 tokens, a table of 1 session, 4 breaks | `BridgeIsSound`: AppliedOnce, StaysDisconnected |
| `Preparation`, `PreparationFaults` | ProfilePreparation | 2 profiles, 2 operations, 1 job; or 1 profile with a restart, a failure or a lost answer | `PreparationIsFenced`: NoContention, CancelIsFenced |
| `World` | WorldEditSession | 2 tabs of 2 editors, 2 tokens, 2 edits, 1 expiry, 1 fault | `WorldEditsAreKept`: ToldIsPublished, DraftsArePrivate, OneActive |
| `Content` | WorldContentEditor | 3 nodes, 2 relations, 2 types (one directed), 1 canon decision, 2 edits | `PromotionIsWanted`; `WorldIsProven`: GraphIsWhole, PublicIsProven |
| `Authoring` | WorldAuthoring | 3 nodes, 8 operations | `AuthoringIsScoped`: ToolOwnsItsDraft, VisitorMovesStayLocal |
| `Media` | EntityMedia | 2 entities, 2 files, 2 parts, 2 uploads, 2 publishers, 5 operations | `PortraitIsProven`: PortraitsAreThere, BoundAsDrafted, PublicIsVerified |
| `Lembra` | LembraLibrary | 2 references, 2 files, 2 texts, 2 parts, 6 operations, 1 fault | `LibraryIsKept`: SavedAsChosen, FavoriteIsSaved |
| `Segment` | TranscriptSegmentEditor | 2 tabs, 3 texts, 5 operations | `SegmentIsKept`: SavesOverWhatItShows, TypedIsShown, ToldIsShown |
| `Canon` | CanonReview | 2 reviewers, 2 candidates, 3 sources, 3 operations, 1 change of authority | `CanonIsDecided`: DecidedOnce, ToldIsRegistered, CanonIsSourced |
| `Loading` | GlobalLoading | 2 components, 1 event, 2 elements | `LoaderShowsWork`: CoveredWhileWaiting, TokensHaveOwners |
| `Comparison` | RunComparison | runs of up to 3 of 7 segments, tolerance 1 | `ComparisonIsWhole`: EverySegmentOnce, AroundOneAnchor, SameRunIsEqual |
| `Recovery` | MediaRecovery | 2 images, 2 files, 2 runs, 1 other writer | `TransfersAreVerified`: OthersAreKept, ManifestIsTrue |
| `Pipeline` | MediaPublication | 2 publishers, manifests of up to 2 entries | `TransfersAreVerified`: NothingReplaced, ReceiptIsTrue |
| `Links`, `Update`, `Runtime`, `Bundle` | ReleaseDownload | up to 2 versions, 2 uploads, 2 pages; links alone; an update by the desktop; a runtime by desktop and Agent; a bundle in 2 parts | `TransfersAreVerified`: StableIsPromoted, HandedIsVerified, InstalledIsPromoted |
| `Staging`, `StagingCrash` | CraigStaging | 3 uploads, 2 runs, 2 damages, 1 failed file operation; or 2 uploads and 2 crashes | `SourceIsKept`: SourceIsStill, AcceptedIsThere, RunsAreKept |
| `Installation` | InstallationMaintenance | 2 processes, 2 versions, every kind of stray directory, 2 updates or setups or removals, 1 start by a user, 1 trouble | `InstallationIsWhole`: InstallerIsAlone, ProductIsWhole, OneVersionRuns, ReceiptIsTrue |
| `Removal` | InstallationMaintenance | the same with the helper's uninstallation and deaths; 1 wish, 2 starts | `InstallationIsWhole`: ReceiptIsTrue |
| `Fence` | AttemptFence | 3 claimants, every mishap | `RemovesOwnMarker` |

*Why the bounds are enough.* A second attempt, revision, token or version is where
everything stale can meet something current; a third repeats it. Two actors are enough
for contention where no rule relates more than two; where a third matters (a claimant that
reads what the second confirmed, an upload between two others, a key that outlives a
row) there are three. Bounds on operations (`MaxOp`, `MaxCalls`, `MaxWish`) are at
least the length of the longest scenario of section 7 for that module, and each mutant
in PROJECT.json is caught within them. In `Pair`, handlers are one at a time because
two handlers on one job are covered by `Alone`, and handlers of different jobs share only
the gate.

Deadlock is not checked: a queue with nothing left to do stops, a page nobody touches
stops, and so does a bounded model whose operations are used up.

The I/O faults are left out of the runs that check `RunningIsOwned` and
`NoForgottenRun` on purpose: with them the code does leave a row running with no
worker (`TroubleAgain`: `store.recover` fails in the outer `except`, the loop
continues, and nothing recovers the row before the next start) and does postpone
the recovery of a run. Orphan workers are left out of `WorkerIsGuarded` because no
process can guard another one that it has lost.

## 4. Fairness

`Fairness` (CompanionAgent) says that the event loop and its threads are scheduled (weak
fairness of the loop, of the supervisor, of each reconciliation pass and each thread of a
handler): these are `asyncio` and Python threads with nothing to block on but a
transaction or the process. `SupervisorForces` is part of it because a timer bounds
the grace period; `Start` because the desktop starts the Agent again. Timeouts,
crashes, stops and errors are never bound to happen. Of the engines nothing is
assumed, except where `EveryAttemptSettles` names the assumption (`EnginesEnd`):
without it an engine that computes for ever, sending heartbeats, is legitimate.
`CancelFreesWorker` and `StopEnds` hold without it.

The Web modules state no liveness: answers may be lost for ever and users need not come
back, so little is bound to happen that is not one timer.

## 5. Proofs

TLAPS proves what follows for all values of the constants that satisfy the named
assumptions: any number of jobs, keys, claimants, tabs, attempts.

**Store.** `JobStoreProofs.StoreInvariant`: `Spec => []StoreInv`. None of the properties is
inductive by itself. `StoreInv` joins `TypeOK`, `OneActivePerWork`, `AliasResolves` and
`ResultIsCurrent` with what they need of each other, e.g. that a row in `jobs` has no
receipt and that a transcription that waits has counted nothing it will not count
again. The proof has one lemma per operation, since each touches one row and leaves
the others alone. The corollaries `StoreTypes`, `StoreOneActivePerWork`,
`StoreAliasResolves`, `StoreResultIsCurrent` name the parts that the run checks.
`StoreImplementsLedger`: `Spec => ImplementsLedger`; lemmas say how
the mapped ledger changes when one row changes (`RowIsShown`, `Moved`, `Hidden`,
`Shown`), so that each action is one line in `LedgerStep`.

**Agent.** `CompanionAgentProofs`, in parts, each on the invariant of the one before.

- `AgentImplementsStore`: `AgentSpec => Spec`. Every step of the Agent
  that touches the tables is a step of JobStore or none, so all that is proved of the
  store holds in the Agent, faults included. What has to be shown for it is
  `AgentInv`: the Agent keeps the two promises JobStore asks of its callers (`Counted`, progress
  within the total; `ActiveRow`, the queue worker's row exists while it works on it).
- `AgentTypes`, `AgentRunHasFence` (every fault): `FenceInv` adds that a worker past the
  fence, which may yet seal a run, has won it.
- `AgentRunningIsOwned` (no I/O fault) from `Owned`: where the queue worker stands while a
  row runs, including the recovery at start. `AgentWorkerIsGuarded` (no orphan
  workers) from `AliveLinked`: a process that lives has its supervisor.
- `AgentFenceArbitrates` (every fault): a running attempt that has
  won the fence is cancelled neither by the queue worker nor by a handler that asked
  about that attempt. `ArbInv` says that no attempt has two workers and that every cancellation
  in flight, in a handler, a flag, the pipe or the loop, has the fence or a signal behind it.
- Visibility of runs, without orphan workers: `Alone` (the one live worker is
  the supervised one, and no run it has listed for removal was sealed since)
  gives `AgentCommittedStays`; `SealInv` (what rows and receipts say was sealed is there)
  gives `AgentSuccessIsVisible`; `RememberInv` (a committed run of a row that is not settled
  is in the hands of the loop, or a pass has still to look at it) gives `AgentNoForgottenRun`, which
  needs the absence of I/O faults too. `UnreadAssumption` (the mark of a pass that
  has not read its candidates is not the empty set) is its one assumption on a constant.

The faults excluded are those for which the property is false: section 6 (`orphan`) and the end
of section 3.

**Fence.** `AttemptFenceProofs.FenceTypes` and `FenceRemovesOwnMarker` under every mishap:
`OwnerInv` says that a claimant that creates or removes is the one whose marker is there.
`FenceAnswers` and `FenceDecides`, if the fsync of a creator does not fail: by `MarkerHeld`
at most one claimant creates, whoever confirms has seen the marker that is there, and what
was told is synchronised and named.

**Transcript publication.** `TranscriptPublicationProofs`: `PublicationIsKept`
(`NothingForgotten`), `PublicationIsAgreed` (`NoBlindOverwrite`), `PublicationIsOnce`
(`PublishedOnce`), for any number of accounts, tabs, reviews, requests in flight, reloads,
changes of account and expiries. The invariant has two halves. `Books` relates the stored operations, the
wire and the history: `WireBehind`, a request is of an operation that is committed,
settled, stored, or asks to replace a revision that no longer is current;
`OlderBehind`, while a committed operation is still stored the other requests of that
account are behind it. `Believes` is what each tab knows, with `Holds` (under the lock its
operation is stored) and `Refutes` (a refusal it was told stays true, although
requests of that operation may still be on the wire). The steps of a tab are proved from
three lemmas on `Books` (an operation is stored, sent, settled) and three on tabs (it
reads, locks, ends). `Instance` names what is assumed: that `Nil` is no value of another
kind, and that there is an account and a review.

**Run comparison.** `ReviewProofs.ComparisonIsWhole` and `ComparisonOfItself`, for runs of any
length, any times and tolerance: every segment is compared once, a region is built
around one segment, and a run compared with itself differs nowhere. No induction over
data is needed: the invariant is about the cursors of the loop.

**Review and editing.** `ReviewProofs`, one part per component, each an instance of the component's
module. The Web's actors keep stale copies of what a server holds, so each invariant relates
a copy to the history of its original.

- `CanonDecidedOnce`, `CanonToldStands`, `CanonHasSource`: `CanonInv` adds that what a call
  has done stands in the register until it is told. `CanonInstance`: triage cannot decide
  "candidate" (a `check` of the function), capabilities are of the four there are.
- `LoadingCovers`, `LoadingHasOwners`: the two properties with the types are inductive.
  `LoadingInstance`: the tokens of the page's own bridges are `Symbol`s of their modules.
- `EditorKeepsReview` (`TypedIsKept`, `OnlyTyped`, `CleanIsSaved`, `PublishableIsApproved`)
  and the action property `EditorSavesWhatIsShown`. `Shows`: every review held by the
  editor, a plan or a request is one of the saved drafts; `EditOf`: what is in the editor is
  that review with what was typed; a call that is still waited for carries what is shown. Any number
  of cells, drafts, conflicts, rebases and saves that are late.
- `SegmentIsSavedAsShown` (`SavesOverWhatItShows`, `TypedIsShown`, `ToldIsShown`): `Was(h, n, d)`,
  revision `n` of the row showed `d`, for pages, editors and calls on their way, and `Own`, the
  tab saved it and was told `d`; `Faithful`, an edit is of the version it would save over.
  What may be typed includes the row's own hidden name (section 7). `SegmentInstance`:
  cleaning twice is cleaning once (`mutation.ts` trims and collapses).
- `LembraIsKept` (`SavedAsChosen`, `FavoriteIsSaved`), for any number of references, captions,
  images, parts and faults. `LembraInv`: a reference that is still being sent is neither shown nor liked;
  there is one save at a time, and what it brings is what was chosen; a heart
  that was pressed once agrees with its call. Writing it showed that TLC had not reached a
  change of hearts under the view "mine": the run now has six operations.

**Editing the World.** `WorldProofs`, built the same way.

- `ToldIsPublished`, `DraftsArePrivate`, `OneActive` of the editing session, for any number
  of pages, editors, tokens, expiries, reloads and lost answers. `WorldSound` says three things.
  Nobody publishes over what he has not seen: every save that is still to be made under the
  current lease (`SaveCurrent`), the draft of the page that has it (`Held`), the lease
  (`LeaseSound`) and every checkpoint of the current revision (`RowCurrent`) contain what is
  published. What a page publishes is what it shows: its last saves come after all that could
  take their place (`Queued`), so when it asks, the lease and the checkpoint hold its draft,
  and the receipt it may find stands for that draft (`Receipt`). A token belongs to one page
  (`OneUser`), so a step under one token leaves the other pages' part as it was (`OtherPage`). `Private`
  follows each edit through pages, saves, lease and checkpoints to its own editor.
- `PortraitsAreThere`, `PortraitsAreWanted` (`BoundAsDrafted`, `PublicIsVerified`), for any
  number of entities, files, uploads and publishers. `MediaKept`: every asset row has its
  object, and whatever an upload, a draft, a publication or a binding names has its row;
  objects and rows are only added (`MediaGrows`). The proof needs that the steps of one
  promotion are about one entity, which the model did not say at first and `promoteDraftMedia` does.
- `AuthoringIsOwned` (`ToolOwnsItsDraft`, `VisitorMovesStayLocal`): `AuthoringInv` adds that no
  session draws, saves or publishes a position a visitor moved. `AuthoringInstance`: the
  initial relations are among those that may be drawn.
- `WorldIsProven` (`GraphIsWhole`, `PublicIsProven`) and the action property `PromotionIsWanted`
  of the content, for any number of elements, relations, types, decisions and edits. `ContentInv`
  asks of every graph somebody may still hand over, the draft of an upload under way
  included, that it is whole (`Whole`) and forgets no published relation (`Includes`);
  `SourcesMean`, decisions are attached to what a published relation says now, since a publication
  that rewrites it drops them; `GateWanted`, a check under way asks for what was last wished of its
  relation. `StaysWhole` is the lemma behind all edits: who changes some relations, leaves those
  without a duplicate and turns only types of `turned` keeps a graph whole.

**Bridge, sources, installations, preparations.** `HostProofs`, in four parts.

- `BridgeCallsOnce` (`AppliedOnce`) and `BridgeStaysDisconnected`, for any number of calls, sessions
  and broken connections. `CallSound` ties what a call was told to what the Agent did and to
  whether its request is still under way; `Wanted`, a call that may yet pair the page does
  so only while the page is meant to be paired. Tokens are drawn from `MaxToken` numbers.
- `StagingSourceKept` (`SourceIsStill`, `AcceptedIsThere`), for any number of uploads,
  damages, failed file operations and deaths of the Agent in the middle of a repair: `GateHeld`, only
  the upload with the gate is past its look; `SourcePlaced`, as soon as an upload has been
  accepted its source is in place or in a directory that a recovery will find. `StagingRunsKept` (`RunsAreKept`)
  if the Agent does not die, as section 7 explains: each completed run is in
  the source or in a backup that nobody is about to remove (`RunKept`).
- `InstallationReceiptIsTrue` (`ReceiptIsTrue`), with every operation and trouble:
  `ReceiptSound` follows the proof that an operation's version was committed from the installer to
  the helper, into the journal, and into the copy a start reads before it writes.
  `InstallationIsAlone` (`InstallerIsAlone`, `ProductIsWhole`) without the helper's
  uninstallation: by `Alone` the guard stands from before the installer's first change to
  after its last, and who repairs holds the mutex; by `WholeSound` what is registered, or will be
  put back, is whole, and whoever cleans has chosen it. `InstallationOneVersion`
  (`OneVersionRuns`) without deaths as well: a guard is never older than its transaction
  (`GuardExact`). Each hypothesis excludes what section 7 shows to break the property.
- `NoContention` and `CancelIsFenced`, for any number of profiles, operations, jobs, restarts and
  lost answers. `Gated`: whoever has looked, under the gate, at what must not run holds
  the gate until its own work has begun. `Fenced`: what the page or the thread is about to cancel is
  an operation that somebody asked to cancel, and an active receipt is that of the thread.

The assumptions `...Instance` say that `Nil` is no value of another kind, which
`None`, `null` and `undefined` are not, besides what is named above.

**The run's own instances.** `ComponentProofs` carries these results to `MCComponents`: for the
instances that the `components` run checks, `Spec => []P` for `PublishedAsConfirmed`,
`RemovesOwnMarker`, `ComparisonIsWhole`, `CanonIsDecided`, `LoaderShowsWork`, `ReviewIsKept`,
`SegmentIsKept`, `WorldEditsAreKept`, `BridgeIsSound`, `SourceIsKept`, `InstallationIsWhole`,
`PreparationIsFenced`, `PortraitIsProven`, `AuthoringIsScoped`, `WorldIsProven`, `LibraryIsKept`,
and the action properties `SavesWhatIsShown` and `PromotionIsWanted`. `Focus...` says that the
run takes the steps of the component in focus; `Same...` says that the steps of an instance are those
proved about (they differ in nothing but the names of constants); `Stays`, that the component
under check never changes. That the run's values are what the components' assumptions ask for
is said by four assumptions, which TLC evaluates: `ValuesAssumption` (model values),
`WordsAssumption` (`Nil` and the words kept beside it), `RecordsAssumption` (`Nil` and the
records), `InstancesAssumption` (what two components assume of their inputs).

Finiteness is nowhere assumed, and the bounds of the runs (`Max...`) are arbitrary numbers.

Only model-checked: liveness (`EveryAttemptSettles`, `CancelFreesWorker`, `StopEnds`), which
the proof system does not cover; and of the `components` run `TypeOK` and `NeverOlder`,
`PanelIsHonest`, `TransfersAreVerified`. Some of these
modules hold lists that are filtered (`SelectSeq`), of which none of the provers' libraries
says what the result contains; for the others the inductive invariant has yet to be written.

## 6. Findings

Each is shown by a run that violates what the code or its documentation states
(PROJECT.json quotes the lines):

- `stale_cancel`: a cancel handler wins the fence of attempt 1; while its thread runs,
  the attempt fails and is retried; the handler then cancels attempt 2, which may
  already have won its own commit. `store.action` takes no attempt.
- `removed`: an earlier attempt has a committed, listed run; removing the row of a later
  attempt hides it, because the receipt names only the last attempt. It is reached when
  a retry's pass looked at the row just before the run was sealed.
- `orphan`: `remove_incomplete_runs` tests and then removes; the worker of a crashed
  Agent may seal its run in between.
- `fence_unlink`: a creator whose `fsync` fails unlinks a marker another claimant has
  been told.
- `world_checkpoint`: a page reloaded with the token of a lost lease is told that its
  draft is preserved, acquires again under that token, and its first save overwrites it.
- `craig_repair`: a repair copies the transcription runs into the replacement, and
  deletes their saved reviews (`revisions/`) with the old directory.

## 7. What modelling showed besides

None of these has a run of its own. They explain why a property is stated as it is,
or name a behaviour that its authors may want to look at.

**Agent.** The comment in `worker()` says that a handler cannot observe a running row
before its worker is registered. It can, since the claim commits in a thread; the
status check in `register_active_worker` makes the cancel count nevertheless, which is
why `RunningIsOwned` and `WorkerIsGuarded` hold. The store's events may have holes on the
page (`controller.ts:571-605`). A killed process is taken to end: `worker_supervisor.py:107-114`
gives up on one that outlives `kill` by 3 seconds or cannot be killed, and the row could then
be removed beside a live worker, so `WorkerIsGuarded` (and the proof of it) holds of an
operating system that ends what it is told to kill.

**Profile preparation.** `cancelActivePreparation` (`submission.tsx:501-538`) hands its
bootstrap an AbortController that nobody aborts, so it may pair again after an explicit
disconnect. The button's `preparation` is that of the closure it was rendered with,
although a comment (348-350) asks for a fresh snapshot. A cancelled job's worker that
still lives is not covered by the dispatch gate.

**Craig ingest.** A crash between the ingest of a replacement and the copy of the
history leaves a whole replacement without runs, which the recovery promotes while it
removes the displaced source with its runs: `RunsAreKept` is checked without crashes.
If no rename of the recovery succeeds, replacements are removed and the backups wait
for the next start. A repair discards fences and checkpoints too; a repair killed in its
extraction leaves a directory that no pattern cleans. `desktop.select_craig_session`
takes neither gate nor in-use check, but nothing binds it.

**Downloads.** The desktop looks whether the Agent prepares and then acts
(`desktop_session_bridge.py:719`): both may use one target. A stale look may unlink the
other's verified file, and a file may be exchanged between digest and rename; the second
digest of the installer is what keeps installs right, so `HandedIsVerified` is checked
for one process. Two BITS jobs of one name are removed by the next look as ambiguous;
orphan jobs of superseded versions stay. A late older install can switch `current`
back. The catalog is read while it changes, within 5 pages of 100. `large_download.py:365`
says a job is removed that `BITS_RESPONSE_INVALID` leaves. Several release candidates of one
version are one here; the route without a query and the runtime fallback of a candidate
are left out.

**Installation maintenance.** (a) `uninstall` of the helper writes its guard without
the reconcile mutex after looking, and clears it in `finally` even when it gave up waiting
for an msiexec that still runs; so it can overwrite or clear the guard of a transaction,
and a start may then work in the tree beside it (the comment at `maintenance_secure_entry.py:27` says no start can). What it then removes may
be the version that the transaction, as it fails, has just put back: with three operations, two of them
setups and one the helper's uninstallation, TLC finds a registered version that is not
whole. `InstallerIsAlone` and `ProductIsWhole` are therefore checked, and proved, without the
helper's uninstall, and `Removal` checks the receipt alone. (b) A preparation
that dies leaves its guard, and until it is cleaned a stray directory of that target may
start beside the registered version (`OneVersionRuns` is checked without deaths); another
target is refused meanwhile. (c) `recover_interrupted_maintenance` reads the journal and
writes it later without the maintenance mutex, and may write over a newer record.

**Bridge.** The cancellation of a preparation may pair a page again that its user disconnected
(above), and other calls may then renew that token. `StaysDisconnected` therefore looks at who
paired the page when it was not (`bridge.by`); with three calls, that is not who
paired it last.

**Processing controller.** A refresh of the jobs reads scopes and pages in several requests
(`controller.ts:219-263`); here they are one read. A job that moves between the scopes meanwhile
can be missing until the next refresh, or be shown as it was among the active ones.

**Processing panel.** If a read of the observed job times out and a later one succeeds,
leaving the view in between leaves the focus override set (`FocusIsFreed` excepts it;
`docs/features/local-processing.md:27` says leaving frees it). A confirmed choice is
dropped without a word while another mutation is in flight; several loops that wait for
the Companion may run; a retry's continuation overrides a filter chosen meanwhile;
`refresh("results")` is dropped while a background read runs; `loadOlderEvents` is called by
no page.

**World.** Safety flushes can overwrite a newer checkpoint; edits accepted during the
awaits of finish or discard arm timers that are not cleared, and a late save's refusal may
end a session started since; rejected actions in `start` and `publish` are not caught. The end
of an upload hands over the draft of the render it began in and can drop what was changed
since (`world-entity-media-editor.tsx:86-186`). "Restaurar posições" publishes the page's own
copy of the layout; an element created under a relation filter is hidden; publication
leaves the overrides. Choosing the shown audience again does not cancel a pending check; a
change of a type's label or direction is not reviewed again; directed to symmetric may make
duplicates that the database refuses. With the portrait feature switched off and on, a
staged binding can be published as public; public bytes of a failed publication stay public.

**Review and publication of transcripts.** After an ambiguous write of origin or target
a later bind finds the file equal and returns without confirming it. A segment whose answer
is lost stays "saving" for ever; a filter that unmounts an editor drops what was typed.
What a save answers is not always what the row shows: while a character's name is shown, an
editor may type the row's own `speaker_name` (`editor.tsx:267-277`), and the row keeps the
character (`20260921003045_bind_transcript_edit_to_session.sql:108-111`; the test
`edit_transcript_segment_atomic.sql:148` asks for it), but the answer repeats what was typed
(`mutation.ts:140-145`). The editor then says "saved" of a name that nobody is shown, and
compares its next draft with it, until the page is loaded again. `TypedIsShown` and
`SavesOverWhatItShows` are therefore stated of what the editor was told, and `ToldIsShown` says
that this is the one case in which that is not what the row shows. The history of a row in the
model keeps both for each revision.

**Lembra.** Two failed toggles in flight leave the heart on; a retry after a lost
answer makes a second reference; un-favouriting while editing drops what was typed; paste
and drop are not guarded while saving. That Next queues the page's actions is assumed.

**Canon.** The page shows sources of any session of the campaign, approval wants one of
the claim's own; only the first sources decide what the page advises. The claim
approved is the row's at that moment. Repeating a decision drops the second note.

**Loading.** `GlobalFormLoadingBridge` never gives its token back, although
`docs/architecture/invariants.md:117` asks the caller that begins to end; an editor stuck in
"saving" keeps one too.

**Media tools.** Two publishers whose manifests disagree only in content type can both
find a key free and both be told verified. A kill inside `writeFile` leaves a partial original
that is a collision for ever.

**Run comparison.** No page uses it yet. A segment that overlaps one already taken is
told as one side's only; segments of no length are comparable to nothing.

## 8. Not modelled, and why

- *ASR engines, checkpoints, Qwen gates*: native inference, and files that one process
  writes and compares; a branch "it fails" stands for them.
- *Atomic storage, publication target*: one authoritative write is one step with three
  outcomes; its system calls are not modelled (those of the fence are).
- *Agent lifecycle and single instance*: the lock is the operating system's;
  CompanionAgent assumes one Agent per data directory.
- *Tray, windows, diagnostics, telemetry, release evidence*: no state that actors share.
- *Transcript synchronisation*: refused in production by its own dependencies.
- *Sessions, lores, diaries, sign-in*: read-only pages and static content.
- *Pagination of events, activity metrics, wording, layout, order of lists*: read by
  nobody but the page. Validation of a message or manifest is a branch that may be
  taken, never a computation.

Operations outside the system's callers (`world-edit-actions.ts` of the sessionless
layout, `unsafe-mutation.ts`, presigned uploads) are called by nothing and left out.

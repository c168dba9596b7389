---------------------------- MODULE MCComponents ----------------------------
(***************************************************************************)
(* Components that share no state with each other beyond what each module  *)
(* models of its own servers and callers, so that their product would show *)
(* nothing more: one of them is under check at a time.  focus names it,    *)
(* and its variables are the first of the slots s1, s2, s3, ...            *)
(***************************************************************************)
EXTENDS Integers, Sequences

CONSTANTS Nil, j1, p1, p2, t1, t2, r1, c1, q1, q2, w1, w2, e1, e2, f1, f2, f3, n1, n2, n3,
  g1, g2, y1, y2, k1, y3, j2, r2

VARIABLES focus, s1, s2, s3, s4, s5, s6, s7, s8, s9, s10, s11, s12, s13, s14, s15, s16

(* Runs of up to three segments that touch, overlap or contain each other. *)
Segments ==
  {[start |-> 0, end |-> 1, text |-> <<y1>>, speaker |-> n1],
   [start |-> 0, end |-> 2, text |-> <<y1, y2>>, speaker |-> n1],
   [start |-> 0, end |-> 5, text |-> <<y1>>, speaker |-> n1],
   [start |-> 1, end |-> 2, text |-> <<y2>>, speaker |-> n2],
   [start |-> 3, end |-> 4, text |-> <<y1>>, speaker |-> n2],
   [start |-> 4, end |-> 4, text |-> <<y1>>, speaker |-> n2],
   [start |-> 4, end |-> 5, text |-> <<y2>>, speaker |-> n1]}
Runs == UNION {[1 .. n -> Segments] : n \in 0 .. 3}

Controller == INSTANCE ProcessingController WITH
  server <- s1, paired <- s2, ctl <- s3, calls <- s4, started <- s5, acked <- s6,
  Job <- {j1}, PageLimit <- 1, LogLength <- 2, MaxCalls <- 3,
  Kind <- {"connect", "refresh", "background", "observe", "older", "cancel", "delete", "synthetic"},
  Fault <- {"soft", "timeout", "forbidden"}

Publication == INSTANCE TranscriptPublicationProofs WITH
  revisions <- s1, account <- s2, changes <- s3, stored <- s4, lock <- s5, tabs <- s6,
  wire <- s7, ops <- s8, agreed <- s9, acked <- s10, given <- s11,
  Profile <- {p1, p2}, Tab <- {t1, t2}, Review <- {r1}, MaxOp <- 2, MaxWire <- 1,
  MaxRevision <- 2, MaxChange <- 1

Editor == INSTANCE LocalReviewEditor WITH
  drafts <- s1, approvals <- s2, wire <- s3, tab <- s4,
  Cell <- {c1}, MaxRevision <- 2, MaxLate <- 2

Bridge == INSTANCE LocalBridge WITH
  agent <- s1, bridge <- s2, callers <- s3, mail <- s4, breaks <- s5,
  Caller <- {q1, q2}, MaxToken <- 3, MaxSessions <- 1, MaxBreak <- 4

Preparation == INSTANCE ProfilePreparation WITH
  prep <- s1, thread <- s2, host <- s3, gate <- s4, worker <- s5, jobs <- s6, page <- s7,
  other <- s8, asked <- s9, faults <- s10,
  Profile <- {w1, w2}, Qwen <- w2, MaxOp <- 2, MaxJob <- 1, MaxFault <- 0

PreparationFaults == INSTANCE ProfilePreparation WITH
  prep <- s1, thread <- s2, host <- s3, gate <- s4, worker <- s5, jobs <- s6, page <- s7,
  other <- s8, asked <- s9, faults <- s10,
  Profile <- {w2}, Qwen <- w2, MaxOp <- 2, MaxJob <- 1, MaxFault <- 1

World == INSTANCE WorldEditSession WITH
  world <- s1, lease <- s2, drafts <- s3, tabs <- s4, edits <- s5, tokens <- s6,
  promised <- s7, expiries <- s8, faults <- s9,
  Tab <- {e1, e2}, Owner <- [t \in {e1, e2} |-> t], Layouter <- {e1}, MaxToken <- 2,
  MaxEdit <- 2, MaxQueue <- 1, MaxExpiry <- 1, MaxFault <- 1

Fence == INSTANCE AttemptFenceProofs WITH
  pc <- s1, seen <- s2, told <- s3, marker <- s4, synced <- s5, named <- s6,
  Claimant <- {f1, f2, f3},
  Wish <- [c \in {f1, f2, f3} |-> IF c = f1 THEN "commit" ELSE "cancel"], None <- Nil,
  Mishap <- {"write", "fsync", "confirm", "kill", "power"}

Content == INSTANCE WorldContentEditor WITH
  draft <- s1, published <- s2, sources <- s3, active <- s4, gate <- s5, panel <- s6,
  upload <- s7, edits <- s8, wish <- s9, meant <- s10, turned <- s11,
  Node <- {n1, n2, n3}, Drawn <- {n1, n2}, Portrayed <- {n1}, Relation <- {g1, g2},
  Old <- g1, Type <- {y1, y2}, Directed <- {y1},
  First <- [source |-> n1, target |-> n2, type |-> y1], Canon <- {k1},
  Pair <- {<<n1, n2>>, <<n2, n1>>},
  Rank <- [n \in {n1, n2, n3} |-> IF n = n1 THEN 1 ELSE IF n = n2 THEN 2 ELSE 3],
  MaxEdit <- 2

Lembra == INSTANCE LembraLibrary WITH
  row <- s1, pending <- s2, object <- s3, favorites <- s4, references <- s5,
  favoriteIds <- s6, broken <- s7, filter <- s8, draft <- s9, viewer <- s10, saving <- s11,
  calls <- s12, ops <- s13, faults <- s14, chosen <- s15, doubtful <- s16,
  Ref <- {g1, g2}, Old <- g1, First <- [text |-> y1, file |-> f1], File <- {f1, f2},
  Image <- {f1}, Text <- {y1, y2}, Part <- 2, MaxOp <- 6, MaxFault <- 1

Media == INSTANCE EntityMedia WITH
  enabled <- s1, token <- s2, draft <- s3, upload <- s4, parts <- s5, staged <- s6,
  public <- s7, asset <- s8, binding <- s9, visible <- s10, pub <- s11, ops <- s12,
  wanted <- s13,
  Entity <- {n1, n2}, File <- {f1, f2}, Image <- {f1}, Part <- 2, Upload <- {g1, g2},
  Publisher <- {q1, q2}, MaxToken <- 2, MaxOp <- 5

Segment == INSTANCE TranscriptSegmentEditor WITH
  row <- s1, grants <- s2, page <- s3, editor <- s4, calls <- s5, ops <- s6, history <- s7,
  typed <- s8,
  Tab <- {t1, t2}, Text <- {y1, y2, y3}, Speaker <- {n1},
  Clean <- [x \in {y1, y2, y3, n1, n2, n3} |-> IF x = y2 THEN y1 ELSE IF x = y3 THEN "blank" ELSE x],
  Player <- n2, Character <- n3, First <- y1, MaxOp <- 5

Authoring == INSTANCE WorldAuthoring WITH
  session <- s1, saved <- s2, published <- s3, ui <- s4, compose <- s5, candidate <- s6,
  look <- s7, overrides <- s8, shell <- s9, ops <- s10,
  Node <- {n1, n2}, New <- {n3}, Edge <- {<<n1, n2>>}, Pair <- {<<n1, n2>>, <<n1, n3>>},
  Narrow <- [f \in {"type", "relation", "query"} |-> IF f = "relation" THEN {} ELSE {n1}],
  MaxOp <- 8

Panel == INSTANCE ProcessingPanel WITH
  server <- s1, paired <- s2, ctl <- s3, calls <- s4, started <- s5, acked <- s6, ui <- s7,
  ops <- s8,
  Job <- {j1, j2}, PageLimit <- 1, LogLength <- 1, MaxCalls <- 3,
  Kind <- {"connect", "refresh", "observe", "retry", "delete"}, Fault <- {"timeout"},
  Found <- {j1}, Delays <- 1, MaxOp <- 3

Comparison == INSTANCE RunComparison WITH
  left <- s1, right <- s2, leftIndex <- s3, rightIndex <- s4, leftFrom <- s5,
  rightFrom <- s6, regions <- s7,
  Tolerance <- 1, Inputs <- Runs

Recovery == INSTANCE MediaRecovery WITH
  originals <- s1, object <- s2, manifest <- s3, tmp <- s4, run <- s5, runs <- s6,
  others <- s7, theirs <- s8,
  Session <- {n1}, File <- {f1, f2},
  Inputs <- {<<[session |-> n1, role |-> "cover", file |-> f1], [session |-> n1, role |-> r, file |-> f]>> : r \in {"cover", "hero"}, f \in {f1, f2}},
  MaxRun <- 2, MaxOther <- 1

Pipeline == INSTANCE MediaPublication WITH
  bucket <- s1, run <- s2, receipt <- s3, runs <- s4, first <- s5, rivals <- s6,
  Publisher <- {q1, q2}, Asset <- {f1, f2}, Type <- {y1, y2},
  Manifests <- {m \in UNION {[1 .. n -> [asset : {f1, f2}, type : {y1, y2}, local : {"right", "changed"}]] : n \in 0 .. 2} : m = <<>> \/ m[1].asset = f1},
  MaxRun <- 1

Canon == INSTANCE CanonReview WITH
  grants <- s1, status <- s2, canon <- s3, decisions <- s4, page <- s5, call <- s6,
  told <- s7, ops <- s8, changes <- s9,
  Reviewer <- {q1, q2}, Candidate <- {n1, n2},
  Declared <- [c \in {n1, n2} |-> IF c = n1 THEN <<f1, g1>> ELSE <<f2>>],
  Row <- {f1, f2, g1}, Transcript <- {f1, f2},
  SessionOf <- [x \in {n1, n2, f1, f2, g1} |-> IF x \in {n1, f1, g1} THEN y1 ELSE IF x = n2 THEN y1 ELSE y2],
  Preview <- 1,
  Granted <- [r \in {q1, q2} |-> IF r = q1 THEN {"read", "transcript", "manage", "approve"} ELSE {"read", "manage"}],
  Triage <- {"rejected"}, MaxOp <- 3, MaxChange <- 1

Loading == INSTANCE GlobalLoading WITH
  mounted <- s1, tokens <- s2, phase <- s3, showTimer <- s4, hideTimer <- s5,
  waiting <- s6, busy <- s7, changed <- s8, sent <- s9,
  Component <- {q1, q2}, Event <- {g1}, Element <- {n1, n2}, Quiet <- {n2}

Links == INSTANCE ReleaseDownload WITH
  catalog <- s1, release <- s2, tags <- s3, promoted <- s4, uploads <- s5, page <- s6,
  proc <- s7, jobs <- s8, target <- s9, partial <- s10, archive <- s11, installed <- s12,
  Product <- "companion", Version <- 1 .. 2, Minimum <- 1, First <- 0, Part <- {1},
  Process <- {}, Channel <- {"stable", "rc"}, MaxPage <- 2, MaxUpload <- 2

Update == INSTANCE ReleaseDownload WITH
  catalog <- s1, release <- s2, tags <- s3, promoted <- s4, uploads <- s5, page <- s6,
  proc <- s7, jobs <- s8, target <- s9, partial <- s10, archive <- s11, installed <- s12,
  Product <- "companion", Version <- 1 .. 2, Minimum <- 1, First <- 0, Part <- {1},
  Process <- {"desktop"}, Channel <- {}, MaxPage <- 2, MaxUpload <- 2

Runtime == INSTANCE ReleaseDownload WITH
  catalog <- s1, release <- s2, tags <- s3, promoted <- s4, uploads <- s5, page <- s6,
  proc <- s7, jobs <- s8, target <- s9, partial <- s10, archive <- s11, installed <- s12,
  Product <- "whisper", Version <- {1}, Minimum <- 1, First <- Nil, Part <- {1},
  Process <- {"desktop", "agent"}, Channel <- {}, MaxPage <- 0, MaxUpload <- 2

Bundle == INSTANCE ReleaseDownload WITH
  catalog <- s1, release <- s2, tags <- s3, promoted <- s4, uploads <- s5, page <- s6,
  proc <- s7, jobs <- s8, target <- s9, partial <- s10, archive <- s11, installed <- s12,
  Product <- "qwen", Version <- {1}, Minimum <- 1, First <- Nil, Part <- {1, 2},
  Process <- {"agent"}, Channel <- {}, MaxPage <- 0, MaxUpload <- 2

Staging == INSTANCE CraigStaging WITH
  current <- s1, repl <- s2, backup <- s3, displaced <- s4, up <- s5, gate <- s6,
  worker <- s7, agent <- s8, sealed <- s9, reviewed <- s10, count <- s11,
  Upload <- 1 .. 3, Run <- {r1, r2}, MaxDamage <- 2, MaxCrash <- 0, MaxFault <- 1

StagingCrash == INSTANCE CraigStaging WITH
  current <- s1, repl <- s2, backup <- s3, displaced <- s4, up <- s5, gate <- s6,
  worker <- s7, agent <- s8, sealed <- s9, reviewed <- s10, count <- s11,
  Upload <- 1 .. 2, Run <- {r1, r2}, MaxDamage <- 2, MaxCrash <- 2, MaxFault <- 1

Installation == INSTANCE InstallationMaintenance WITH
  tree <- s1, marker <- s2, product <- s3, guard <- s4, mutex <- s5, proc <- s6, msi <- s7,
  helper <- s8, journal <- s9, stale <- s10, begun <- s11, proven <- s12, count <- s13,
  Process <- {q1, q2}, Version <- 1 .. 2, First <- 1,
  Stray <- {"absent", "partial", "whole"}, Wish <- {"update", "setup", "remove"},
  Trouble <- {"stop", "clean", "copy", "candidate", "timeout"}, MaxWish <- 2, MaxOpen <- 1,
  MaxTrouble <- 1

Removal == INSTANCE InstallationMaintenance WITH
  tree <- s1, marker <- s2, product <- s3, guard <- s4, mutex <- s5, proc <- s6, msi <- s7,
  helper <- s8, journal <- s9, stale <- s10, begun <- s11, proven <- s12, count <- s13,
  Process <- {q1, q2}, Version <- 1 .. 2, First <- 1,
  Stray <- {"absent", "partial", "whole"},
  Wish <- {"update", "setup", "uninstall", "remove"},
  Trouble <- {"stop", "clean", "copy", "candidate", "timeout", "die"}, MaxWish <- 1,
  MaxOpen <- 2, MaxTrouble <- 1

(* The slots from the n-th on hold nothing. *)
Free16 == s16 = Nil
Free15 == s15 = Nil /\ Free16
Free14 == s14 = Nil /\ Free15
Free13 == s13 = Nil /\ Free14
Free12 == s12 = Nil /\ Free13
Free11 == s11 = Nil /\ Free12
Free10 == s10 = Nil /\ Free11
Free9 == s9 = Nil /\ Free10
Free8 == s8 = Nil /\ Free9
Free7 == s7 = Nil /\ Free8
Free6 == s6 = Nil /\ Free7
Free5 == s5 = Nil /\ Free6

Init ==
  \/ focus = "Controller" /\ Controller!Init /\ Free7
  \/ focus = "Publication" /\ Publication!Init /\ Free12
  \/ focus = "Editor" /\ Editor!Init /\ Free5
  \/ focus = "Bridge" /\ Bridge!Init /\ Free6
  \/ focus = "Preparation" /\ Preparation!Init /\ Free11
  \/ focus = "PreparationFaults" /\ PreparationFaults!Init /\ Free11
  \/ focus = "World" /\ World!Init /\ Free10
  \/ focus = "Fence" /\ Fence!Init /\ Free7
  \/ focus = "Content" /\ Content!Init /\ Free12
  \/ focus = "Lembra" /\ Lembra!Init
  \/ focus = "Media" /\ Media!Init /\ Free14
  \/ focus = "Segment" /\ Segment!Init /\ Free9
  \/ focus = "Authoring" /\ Authoring!Init /\ Free11
  \/ focus = "Panel" /\ Panel!Init /\ Free9
  \/ focus = "Comparison" /\ Comparison!Init /\ Free8
  \/ focus = "Recovery" /\ Recovery!Init /\ Free9
  \/ focus = "Pipeline" /\ Pipeline!Init /\ Free7
  \/ focus = "Canon" /\ Canon!Init /\ Free10
  \/ focus = "Loading" /\ Loading!Init /\ Free10
  \/ focus = "Links" /\ Links!Init /\ Free13
  \/ focus = "Update" /\ Update!Init /\ Free13
  \/ focus = "Runtime" /\ Runtime!Init /\ Free13
  \/ focus = "Bundle" /\ Bundle!Init /\ Free13
  \/ focus = "Staging" /\ Staging!Init /\ Free12
  \/ focus = "StagingCrash" /\ StagingCrash!Init /\ Free12
  \/ focus = "Installation" /\ Installation!Init /\ Free14
  \/ focus = "Removal" /\ Removal!Init /\ Free14

Next ==
  /\ UNCHANGED focus
  /\ \/ focus = "Controller" /\ Controller!Next /\ UNCHANGED <<s7, s8, s9, s10, s11, s12, s13, s14, s15, s16>>
     \/ focus = "Publication" /\ Publication!Next /\ UNCHANGED <<s12, s13, s14, s15, s16>>
     \/ focus = "Editor" /\ Editor!Next /\ UNCHANGED <<s5, s6, s7, s8, s9, s10, s11, s12, s13, s14, s15, s16>>
     \/ focus = "Bridge" /\ Bridge!Next /\ UNCHANGED <<s6, s7, s8, s9, s10, s11, s12, s13, s14, s15, s16>>
     \/ focus = "Preparation" /\ Preparation!Next /\ UNCHANGED <<s11, s12, s13, s14, s15, s16>>
     \/ focus = "PreparationFaults" /\ PreparationFaults!Next /\ UNCHANGED <<s11, s12, s13, s14, s15, s16>>
     \/ focus = "World" /\ World!Next /\ UNCHANGED <<s10, s11, s12, s13, s14, s15, s16>>
     \/ focus = "Fence" /\ Fence!Next /\ UNCHANGED <<s7, s8, s9, s10, s11, s12, s13, s14, s15, s16>>
     \/ focus = "Content" /\ Content!Next /\ UNCHANGED <<s12, s13, s14, s15, s16>>
     \/ focus = "Lembra" /\ Lembra!Next
     \/ focus = "Media" /\ Media!Next /\ UNCHANGED <<s14, s15, s16>>
     \/ focus = "Segment" /\ Segment!Next /\ UNCHANGED <<s9, s10, s11, s12, s13, s14, s15, s16>>
     \/ focus = "Authoring" /\ Authoring!Next /\ UNCHANGED <<s11, s12, s13, s14, s15, s16>>
     \/ focus = "Panel" /\ Panel!Next /\ UNCHANGED <<s9, s10, s11, s12, s13, s14, s15, s16>>
     \/ focus = "Comparison" /\ Comparison!Next /\ UNCHANGED <<s8, s9, s10, s11, s12, s13, s14, s15, s16>>
     \/ focus = "Recovery" /\ Recovery!Next /\ UNCHANGED <<s9, s10, s11, s12, s13, s14, s15, s16>>
     \/ focus = "Pipeline" /\ Pipeline!Next /\ UNCHANGED <<s7, s8, s9, s10, s11, s12, s13, s14, s15, s16>>
     \/ focus = "Canon" /\ Canon!Next /\ UNCHANGED <<s10, s11, s12, s13, s14, s15, s16>>
     \/ focus = "Loading" /\ Loading!Next /\ UNCHANGED <<s10, s11, s12, s13, s14, s15, s16>>
     \/ focus = "Links" /\ Links!Next /\ UNCHANGED <<s13, s14, s15, s16>>
     \/ focus = "Update" /\ Update!Next /\ UNCHANGED <<s13, s14, s15, s16>>
     \/ focus = "Runtime" /\ Runtime!Next /\ UNCHANGED <<s13, s14, s15, s16>>
     \/ focus = "Bundle" /\ Bundle!Next /\ UNCHANGED <<s13, s14, s15, s16>>
     \/ focus = "Staging" /\ Staging!Next /\ UNCHANGED <<s12, s13, s14, s15, s16>>
     \/ focus = "StagingCrash" /\ StagingCrash!Next /\ UNCHANGED <<s12, s13, s14, s15, s16>>
     \/ focus = "Installation" /\ Installation!Next /\ UNCHANGED <<s14, s15, s16>>
     \/ focus = "Removal" /\ Removal!Next /\ UNCHANGED <<s14, s15, s16>>

slots == <<focus, s1, s2, s3, s4, s5, s6, s7, s8, s9, s10, s11, s12, s13, s14, s15, s16>>
Spec == Init /\ [][Next]_slots

(* The values of the constants are what the proofs ask for. *)
ASSUME ValuesAssumption ==
  /\ Nil \notin Nat
  /\ {Nil, "msi"} \cap {q1, q2} = {} /\ {"observer", "form"} \cap {q1, q2, g1} = {}
  /\ {Nil, "blank"} \cap {y1, y2, y3, n1, n2, n3} = {} /\ y1 \notin {y2, y3}
  /\ {n1, n2, n3} \cap {y2, y3} = {} /\ n2 \notin {n1, n3} /\ "overlay" \notin {n1, n2}
  /\ {Nil, "unset"} \cap {f1, f2} = {} /\ Nil \notin {g1, g2}

(* Nil is none of the words the components keep it beside, *)
ASSUME WordsAssumption ==
  /\ Nil \notin {"ok", "unauthorized", "timeout", "unreachable", "payload_too_large",
                  "version_incompatible", "controller", "form", "cancel"}
  /\ Nil \notin {"msi", "major_upgrade", "uninstall", "recovered", "completed",
                  "verifying_install", "verifying_agent", "restarting_ui"}
  /\ Nil \notin {"worker", "page", "other"} \cup {"staged", "verified_public"} \cup {"visitor"}

(* and none of their records. *)
ASSUME RecordsAssumption ==
  /\ Nil \notin Fence!Outcome
  /\ Nil \notin Staging!PackageType \cup StagingCrash!PackageType
  /\ Nil \notin [action : {"major_upgrade", "uninstall"}, target : 1 .. 2 \cup {Nil}, aged : BOOLEAN]
  /\ Nil \notin [id : Nat, action : {Nil, "update", "uninstall"}, target : 1 .. 2 \cup {Nil},
                 status : {Nil, "running", "completed", "failed"},
                 stage : {Nil, "waiting_for_ui_exit", "stopping_agent", "running_msi",
                          "verifying_install", "verifying_agent", "restarting_ui", "completed",
                          "failed", "closed"}]
  /\ Nil \notin [text : {y1, y2}, file : {f1, f2}, status : {"active", "retired"}]
  /\ Nil \notin [file : {f1, f2}, text : {y1, y2} \cup {Nil}]
  /\ Nil \notin [kind : {"upload", "edit", "remove"}, phase : {"asked", "sending"}, ref : {g1, g2}]
  /\ Nil \notin [source : {n1, n2, n3}, target : {n1, n2, n3}, type : {y1, y2},
                 status : {"active", "archived"},
                 vis : {"private_players", "review_only", "public"}]

(* The instances are instances the components' own proofs speak of. *)
ASSUME InstancesAssumption ==
  /\ Publication!Instance
  /\ \A run \in Runs : Len(run) \in Nat
                     /\ \A i \in 1 .. Len(run) : run[i].start \in Int /\ run[i].end \in Int

-----------------------------------------------------------------------------
(* The types of every component. *)
TypeOK ==
  /\ focus = "Controller" => Controller!TypeOK
  /\ focus = "Publication" => Publication!TypeOK
  /\ focus = "Editor" => Editor!TypeOK
  /\ focus = "Bridge" => Bridge!TypeOK
  /\ focus = "Preparation" => Preparation!TypeOK
  /\ focus = "PreparationFaults" => PreparationFaults!TypeOK
  /\ focus = "World" => World!TypeOK
  /\ focus = "Fence" => Fence!TypeOK
  /\ focus = "Content" => Content!TypeOK
  /\ focus = "Lembra" => Lembra!TypeOK
  /\ focus = "Media" => Media!TypeOK
  /\ focus = "Segment" => Segment!TypeOK
  /\ focus = "Authoring" => Authoring!TypeOK
  /\ focus = "Panel" => Panel!TypeOK
  /\ focus = "Comparison" => Comparison!TypeOK
  /\ focus = "Recovery" => Recovery!TypeOK
  /\ focus = "Pipeline" => Pipeline!TypeOK
  /\ focus = "Canon" => Canon!TypeOK
  /\ focus = "Loading" => Loading!TypeOK
  /\ focus = "Links" => Links!TypeOK
  /\ focus = "Update" => Update!TypeOK
  /\ focus = "Runtime" => Runtime!TypeOK
  /\ focus = "Bundle" => Bundle!TypeOK
  /\ focus = "Staging" => Staging!TypeOK
  /\ focus = "StagingCrash" => StagingCrash!TypeOK
  /\ focus = "Installation" => Installation!TypeOK
  /\ focus = "Removal" => Removal!TypeOK

(* ProcessingController: of two reads in flight the older answer never     *)
(* covers the newer.                                                       *)
NeverOlder == [][focus = "Controller" => Controller!NeverOlder]_slots

(* ProcessingController: a succeeded job is shown with its run, one intent *)
(* to submit makes one job, and what is shown as busy has a call in        *)
(* flight.                                                                 *)
(* ProcessingPanel: the log on the screen is that of the job in its        *)
(* heading, a job left is no longer asked for, and an open menu is that of *)
(* a row.                                                                  *)
PanelIsHonest ==
  /\ focus = "Controller" => Controller!LibraryHonest /\ Controller!OneJobPerIntent /\ Controller!BusyHasCall
  /\ focus = "Panel" => Panel!EventsAreOfTheirJob /\ Panel!FocusIsFreed /\ Panel!MenuIsOfARow

(* TranscriptPublication: a committed revision is never forgotten, what is *)
(* replaced is what the author confirmed, and a repetition is the same     *)
(* revision.                                                               *)
PublishedAsConfirmed ==
  focus = "Publication" =>
    /\ Publication!NothingForgotten
    /\ Publication!NoBlindOverwrite
    /\ Publication!PublishedOnce

(* LocalReviewEditor: what is saved is what was shown. *)
SavesWhatIsShown == [][focus = "Editor" => Editor!SavesWhatIsShown]_slots

(* LocalReviewEditor: what was typed stays until it is saved or given up,  *)
(* a revision changes only what its editor typed, a review shown as saved  *)
(* is saved, and what can be published was approved as shown.              *)
ReviewIsKept ==
  focus = "Editor" =>
    /\ Editor!TypedIsKept
    /\ Editor!OnlyTyped
    /\ Editor!CleanIsSaved
    /\ Editor!PublishableIsApproved

(* LocalBridge: a request repeated after a lost answer is applied once,    *)
(* and after an explicit disconnect nothing pairs again but the user.      *)
BridgeIsSound ==
  focus = "Bridge" =>
    /\ Bridge!AppliedOnce
    /\ Bridge!StaysDisconnected

(* ProfilePreparation: no transcription runs while a profile is prepared,  *)
(* and only the operation somebody asked to cancel is cancelled.           *)
(* ProfilePreparation: nor with a restart, a failed installation or a lost *)
(* answer.                                                                 *)
PreparationIsFenced ==
  /\ focus = "Preparation" => Preparation!NoContention /\ Preparation!CancelIsFenced
  /\ focus = "PreparationFaults" => PreparationFaults!NoContention /\ PreparationFaults!CancelIsFenced

(* WorldEditSession: what an editor was told is published stays published, *)
(* nobody sees or publishes the unpublished work of another, and one       *)
(* checkpoint is the one to recover.                                       *)
WorldEditsAreKept ==
  focus = "World" =>
    /\ World!ToldIsPublished
    /\ World!DraftsArePrivate
    /\ World!OneActive

(* AttemptFence: with every mishap possible, a claim removes no marker but *)
(* its own.                                                                *)
RemovesOwnMarker == focus = "Fence" => Fence!RemovesOwnMarker

(* WorldContentEditor: a late answer of the check makes a relation public  *)
(* only if that is what its editor last chose.                             *)
PromotionIsWanted == [][focus = "Content" => Content!PromotionIsWanted]_slots

(* WorldContentEditor: no change leaves a relation hanging or said twice,  *)
(* and what is published for everybody has canon attached to what it says. *)
WorldIsProven ==
  focus = "Content" =>
    /\ Content!GraphIsWhole
    /\ Content!PublicIsProven

(* LembraLibrary: what is saved in the library is what its user chose, and *)
(* a heart shows what is saved.                                            *)
LibraryIsKept ==
  focus = "Lembra" =>
    /\ Lembra!SavedAsChosen
    /\ Lembra!FavoriteIsSaved

(* EntityMedia: a draft names only portraits its editors can see, what is  *)
(* bound is what the published draft wanted, and what readers are sent to  *)
(* was verified and is there.                                              *)
PortraitIsProven ==
  focus = "Media" =>
    /\ Media!PortraitsAreThere
    /\ Media!BoundAsDrafted
    /\ Media!PublicIsVerified

(* TranscriptSegmentEditor: an editor saves only over what it was shown or *)
(* told, what was typed is shown until it is saved or given up, and what a *)
(* save tells is what the row shows, but for a name typed under its        *)
(* character.                                                              *)
SegmentIsKept ==
  focus = "Segment" =>
    /\ Segment!SavesOverWhatItShows
    /\ Segment!TypedIsShown
    /\ Segment!ToldIsShown

(* WorldAuthoring: what is composed on the canvas belongs to the tool in   *)
(* hand and its session, and what a visitor moves is never saved.          *)
AuthoringIsScoped ==
  focus = "Authoring" =>
    /\ Authoring!ToolOwnsItsDraft
    /\ Authoring!VisitorMovesStayLocal

(* RunComparison: every segment of two runs is compared once, around one   *)
(* of them, and a run compared with itself differs nowhere.                *)
ComparisonIsWhole ==
  focus = "Comparison" =>
    /\ Comparison!EverySegmentOnce
    /\ Comparison!AroundOneAnchor
    /\ Comparison!SameRunIsEqual

(* MediaRecovery: other writers' files and objects are never overwritten,  *)
(* and the manifest is whole and true.                                     *)
(* MediaPublication: nothing in the bucket is replaced, and what a receipt *)
(* says was verified is there.                                             *)
(* ReleaseDownload: the link of the Stable channel offers and gives only   *)
(* what was promoted, however the catalog changes while it is read.        *)
(* ReleaseDownload: an update is installed whole and as it was promoted.   *)
(* ReleaseDownload: so is a runtime that the desktop and the Agent         *)
(* download at once.                                                       *)
(* ReleaseDownload: and a runtime in parts, put together from one release. *)
TransfersAreVerified ==
  /\ focus = "Recovery" => Recovery!OthersAreKept /\ Recovery!ManifestIsTrue
  /\ focus = "Pipeline" => Pipeline!NothingReplaced /\ Pipeline!ReceiptIsTrue
  /\ focus = "Links" => Links!StableIsPromoted
  /\ focus = "Update" => Update!StableIsPromoted /\ Update!HandedIsVerified /\ Update!InstalledIsPromoted
  /\ focus = "Runtime" => Runtime!StableIsPromoted /\ Runtime!InstalledIsPromoted
  /\ focus = "Bundle" => Bundle!StableIsPromoted /\ Bundle!HandedIsVerified /\ Bundle!InstalledIsPromoted

(* CanonReview: a candidate is decided once, what a reviewer was told      *)
(* stands, and no canon is without a source of its session.                *)
CanonIsDecided ==
  focus = "Canon" =>
    /\ Canon!DecidedOnce
    /\ Canon!ToldIsRegistered
    /\ Canon!CanonIsSourced

(* GlobalLoading: the page is covered while somebody waits, and by no wait *)
(* that is over.                                                           *)
LoaderShowsWork ==
  focus = "Loading" =>
    /\ Loading!CoveredWhileWaiting
    /\ Loading!TokensHaveOwners

(* CraigStaging: no repair of a source takes it from the job that reads    *)
(* it, and what was accepted and completed stays.                          *)
(* CraigStaging: the source outlives an Agent that dies in a repair.       *)
SourceIsKept ==
  /\ focus = "Staging" => Staging!SourceIsStill /\ Staging!AcceptedIsThere /\ Staging!RunsAreKept
  /\ focus = "StagingCrash" => StagingCrash!SourceIsStill /\ StagingCrash!AcceptedIsThere

(* InstallationMaintenance: no start works in a tree that Windows          *)
(* Installer changes, the registered version is whole between              *)
(* transactions, one version runs, and an operation is told as completed   *)
(* only after its transaction.                                             *)
(* InstallationMaintenance: the receipt stays true when the program        *)
(* removes itself or a participant dies.                                   *)
InstallationIsWhole ==
  /\ focus = "Installation" => Installation!InstallerIsAlone /\ Installation!ProductIsWhole /\ Installation!OneVersionRuns /\ Installation!ReceiptIsTrue
  /\ focus = "Removal" => Removal!ReceiptIsTrue
=============================================================================

--------------------------- MODULE LocalReviewEditor ---------------------------
(***************************************************************************)
(* Reviewing one local run: the editor of one tab with its controller and  *)
(* its calls in flight, the draft and the approval of the Agent, which      *)
(* saves by compare-and-swap, and what other tabs save meanwhile.  A cell  *)
(* is one field of one segment; 0 is its value in the immutable transcript *)
(* (revision 0, nothing saved), the tab writes Mine, the others Theirs.    *)
(***************************************************************************)
EXTENDS Integers, Sequences, FiniteSets

CONSTANTS
  Cell,        \* fields of segments
  Nil,         \* no value
  MaxRevision, \* bound on saved revisions
  MaxLate      \* bound on saves, done or on their way, before one joins another on its way

VARIABLES
  drafts,      \* the drafts the Agent has saved, in order
  approvals,   \* the revisions an approval was written for
  wire,        \* saves on their way to the Agent
  tab          \* the controller and the open review

vars == <<drafts, approvals, wire, tab>>

Mine == 1
Theirs == 2
Value == {0, Mine, Theirs}
Status == {"draft", "reviewed", "approved_local"}
Content == [Cell -> Value]

unapproved(status) == IF status = "approved_local" THEN "reviewed" ELSE status

(* _response: what the Agent answers for the draft it has. *)
Revision == Len(drafts)
Saved == [status |-> IF Revision = 0 THEN "draft" ELSE drafts[Revision].status,
          content |-> IF Revision = 0 THEN [c \in Cell |-> 0] ELSE drafts[Revision].content]

(* What was approved as it is now is shown as approved. *)
Snapshot ==
  [revision |-> Revision, content |-> Saved.content,
   status |-> IF Revision \in approvals THEN "approved_local" ELSE unapproved(Saved.status)]

Unedited == [c \in Cell |-> Nil]

Closed ==
  [review |-> Nil, baseline |-> Nil, working |-> Nil, status |-> Nil, dirty |-> FALSE,
   plan |-> Nil, latest |-> Nil, conflict |-> FALSE, preview |-> Nil,
   call |-> Nil, typed |-> Unedited]

Init == drafts = <<>> /\ approvals = {} /\ wire = {} /\ tab = Closed

(* The key of ReviewEditor: another draft or approval mounts a new editor. *)
Mounted(t, review) ==
  IF t.review # Nil /\ t.review.revision = review.revision
       /\ (t.review.status = "approved_local") = (review.status = "approved_local")
    THEN [t EXCEPT !.review = review, !.conflict = FALSE, !.call = Nil]
    ELSE [Closed EXCEPT !.review = review, !.baseline = review, !.working = review.content,
                        !.status = review.status, !.latest = t.latest]

Open == tab.review # Nil
Busy == tab.call # Nil /\ tab.call.kind # "latest"
Comparing == tab.call # Nil /\ tab.call.kind = "latest"
editingBlocked == tab.call # Nil \/ tab.plan # Nil

Calls(call) == tab' = [tab EXCEPT !.call = call]
Answer(answer) == tab' = [tab EXCEPT !.call.answer = answer]
Call(kind, answer) == [kind |-> kind, answer |-> answer]

-----------------------------------------------------------------------------
(* The Agent. *)
Adopted(base) == base.revision = Revision

(* Mutant: an approval that comes with edits approves what is saved. *)
save_approves(q) ==
  IF ~Adopted(q.for) THEN "LOCAL_REVIEW_DRAFT_CONFLICT"
  ELSE IF q.status = "approved_local" /\ Revision > 0 THEN "approve"
  ELSE IF Revision > 0 /\ q.status = Snapshot.status /\ q.content = Saved.content
    THEN "same"
  ELSE "write"

(* save_review.  An approval is of the draft as it is saved. *)
save_review(q) ==
  IF ~Adopted(q.for) THEN "LOCAL_REVIEW_DRAFT_CONFLICT"
  ELSE IF q.status = "approved_local"
    THEN IF Revision = 0 \/ q.content # Saved.content
           THEN "LOCAL_REVIEW_APPROVAL_REQUIRES_SAVED_DRAFT"
           ELSE "approve"
  ELSE IF Revision > 0 /\ q.status = Snapshot.status /\ q.content = Saved.content
    THEN "same"
  ELSE "write"

Write(q, by) ==
  Append(drafts, [status |-> q.status, content |-> q.content, by |-> by, typed |-> q.typed])

(* The answer goes to the call that waits for it, if it still does: that   *)
(* of the last save.                                                       *)
Handle(q) ==
  LET did == save_review(q)
      awaited == q.last /\ tab.call # Nil /\ tab.call = Call("save", Nil)
  IN /\ q \in wire
     /\ wire' = wire \ {q}
     /\ did = "write" => Revision < MaxRevision
     /\ drafts' = IF did = "write" THEN Write(q, Mine) ELSE drafts
     /\ approvals' = IF did = "approve" THEN approvals \cup {Revision} ELSE approvals
     /\ IF awaited
          THEN Answer(IF did \in {"write", "approve", "same"} THEN Snapshot' ELSE [error |-> did])
          ELSE UNCHANGED tab

(* Another tab opens the draft and saves it, or approves it. *)
OtherSaves ==
  /\ Revision < MaxRevision
  /\ \E c \in Cell :
       drafts' = Write([status |-> "reviewed", content |-> [Saved.content EXCEPT ![c] = Theirs],
                        typed |-> [Unedited EXCEPT ![c] = Theirs]], Theirs)
  /\ UNCHANGED <<approvals, wire, tab>>

OtherApproves ==
  /\ Revision > 0 /\ Revision \notin approvals
  /\ approvals' = approvals \cup {Revision}
  /\ UNCHANGED <<drafts, wire, tab>>

-----------------------------------------------------------------------------
(* reviewAction: one at a time; open, repair of the target, save. *)
openLocalReview ==
  /\ ~Open /\ tab.call = Nil
  /\ Calls(Call("open", Snapshot))
  /\ UNCHANGED <<drafts, approvals, wire>>

repairPublicationTarget ==
  /\ Open /\ tab.call = Nil /\ ~tab.dirty
  /\ Calls(Call("open", Snapshot))
  /\ UNCHANGED <<drafts, approvals, wire>>

(* Saves that were not answered in time may still reach the Agent. *)
Superseded == {[q EXCEPT !.last = FALSE] : q \in wire}

(* saveLocalReview: a baseline that is neither the review that is open nor *)
(* the latest one that was compared is a conflict at once.                 *)
saveLocalReview ==
  LET t == tab
      known == IF t.baseline = t.latest THEN t.latest ELSE t.review
  IN /\ Open /\ ~editingBlocked /\ t.dirty
     /\ IF known.revision # t.baseline.revision
          THEN tab' = [tab EXCEPT !.conflict = TRUE] /\ UNCHANGED wire
          ELSE /\ wire = {} \/ Revision + Cardinality(wire) < MaxLate
               /\ wire' = Superseded \cup
                    {[for |-> t.baseline, status |-> t.status, content |-> t.working,
                      typed |-> t.typed, last |-> TRUE]}
               /\ Calls(Call("save", Nil))
     /\ UNCHANGED <<drafts, approvals>>

Answered ==
  LET t == tab
  IN /\ Busy /\ t.call.answer # Nil
     /\ tab' =
          IF "error" \in DOMAIN t.call.answer
            THEN [t EXCEPT !.call = Nil,
                           !.conflict = t.call.answer.error = "LOCAL_REVIEW_DRAFT_CONFLICT"]
            ELSE Mounted(t, t.call.answer)
     /\ UNCHANGED <<drafts, approvals, wire>>

(* A save is lost on its way. *)
Dies(q) ==
  /\ q \in wire
  /\ wire' = wire \ {q}
  /\ UNCHANGED <<drafts, approvals, tab>>

(* A timeout or a broken answer: the editor stays, the save may be done. *)
Lost ==
  /\ tab.call # Nil
  /\ tab' = [tab EXCEPT !.call = Nil, !.conflict = Comparing]
  /\ UNCHANGED <<drafts, approvals, wire>>

closeLocalReview ==
  /\ Open /\ ~Busy
  /\ tab' = Closed
  /\ UNCHANGED <<drafts, approvals, wire>>

-----------------------------------------------------------------------------
(* ReviewEditor. *)
Typed(cells) ==
  tab' = [tab EXCEPT
    !.working = [c \in Cell |-> IF c \in cells THEN Mine ELSE @[c]],
    !.typed = [c \in Cell |-> IF c \in cells THEN Mine ELSE @[c]],
    !.status = unapproved(@), !.dirty = TRUE, !.preview = Nil]

patch(c) ==
  /\ Open /\ ~editingBlocked /\ tab.working[c] # Mine
  /\ Typed({c})
  /\ UNCHANGED <<drafts, approvals, wire>>

setStatus(s) ==
  /\ Open /\ ~editingBlocked /\ tab.status # s
  /\ tab' = [tab EXCEPT !.status = s, !.dirty = TRUE]
  /\ UNCHANGED <<drafts, approvals, wire>>

(* ParticipantManager: the falas of one name, shown before they change.    *)
previewParticipantRename(v) == {c \in Cell : tab.working[c] = v}

Preview(v) ==
  /\ Open /\ ~editingBlocked /\ v # Mine /\ tab.preview = Nil
  /\ previewParticipantRename(v) # {}
  /\ tab' = [tab EXCEPT !.preview = [name |-> v, cells |-> previewParticipantRename(v)]]
  /\ UNCHANGED <<drafts, approvals, wire>>

ApplyRename ==
  LET p == tab.preview
      now == previewParticipantRename(p.name)
  IN /\ Open /\ ~editingBlocked /\ p # Nil
     /\ IF now # p.cells
          THEN tab' = [tab EXCEPT !.preview = [p EXCEPT !.cells = now]]
          ELSE IF now = {} THEN tab' = [tab EXCEPT !.preview = Nil]
          ELSE Typed(now)
     /\ UNCHANGED <<drafts, approvals, wire>>

(* loadLatestLocalReview and prepareReviewRebase. *)
Compare ==
  /\ Open /\ ~editingBlocked /\ tab.conflict
  /\ Calls(Call("latest", Snapshot))
  /\ UNCHANGED <<drafts, approvals, wire>>

Changed(t, c) == t.working[c] # t.baseline.content[c]
Collides(t, latest, c) ==
  /\ Changed(t, c)
  /\ latest.content[c] \notin {t.baseline.content[c], t.working[c]}
StatusCollides(t, latest) ==
  LET before == unapproved(t.baseline.status)
      remote == unapproved(latest.status)
  IN unapproved(t.status) # before /\ remote \notin {before, unapproved(t.status)}

(* Mutant: where both changed, the latest is taken and nobody is asked. *)
RebaseLatest(t, latest) ==
  [content |-> [c \in Cell |-> IF Changed(t, c) /\ ~Collides(t, latest, c)
                               THEN t.working[c] ELSE latest.content[c]],
   status |-> IF unapproved(t.status) # unapproved(t.baseline.status)
                   /\ ~StatusCollides(t, latest)
              THEN unapproved(t.status) ELSE unapproved(latest.status),
   cells |-> {}, collides |-> StatusCollides(t, latest), latest |-> latest]

prepareReviewRebase(t, latest) ==
  [content |-> [c \in Cell |-> IF Changed(t, c) /\ ~Collides(t, latest, c)
                               THEN t.working[c] ELSE latest.content[c]],
   status |-> IF unapproved(t.status) # unapproved(t.baseline.status)
                   /\ ~StatusCollides(t, latest)
              THEN unapproved(t.status) ELSE unapproved(latest.status),
   cells |-> {c \in Cell : Collides(t, latest, c)}, collides |-> StatusCollides(t, latest),
   latest |-> latest]

Compared ==
  LET t == tab
  IN /\ Comparing
     /\ tab' = [tab EXCEPT !.call = Nil, !.latest = t.call.answer,
                           !.plan = prepareReviewRebase(t, t.call.answer)]
     /\ UNCHANGED <<drafts, approvals, wire>>

CancelComparison ==
  /\ tab.plan # Nil
  /\ tab' = [tab EXCEPT !.plan = Nil]
  /\ UNCHANGED <<drafts, approvals, wire>>

(* resolveReviewRebase: every collision is decided before it is applied. *)
ApplyRebase ==
  LET t == tab
      p == t.plan
  IN /\ p # Nil
     /\ \E kept \in SUBSET p.cells, own \in (IF p.collides THEN BOOLEAN ELSE {FALSE}) :
          tab' =
            [t EXCEPT !.baseline = p.latest, !.plan = Nil, !.dirty = TRUE,
               !.working = [c \in Cell |-> IF c \in kept THEN t.working[c] ELSE p.content[c]],
               !.status = unapproved(IF own THEN t.status ELSE p.status),
               !.typed = [c \in Cell |->
                 IF c \in p.cells \ kept \/ p.latest.content[c] = @[c] THEN Nil ELSE @[c]]]
     /\ UNCHANGED <<drafts, approvals, wire>>

(* Another call of the controller fails: its snapshot goes, the review too. *)
Dropped ==
  /\ Open \/ tab.call # Nil
  /\ tab' = Closed
  /\ UNCHANGED <<drafts, approvals, wire>>

Next ==
  \/ OtherSaves \/ OtherApproves
  \/ \E q \in wire : Handle(q) \/ Dies(q)
  \/ openLocalReview \/ repairPublicationTarget \/ saveLocalReview
  \/ Answered \/ Lost \/ closeLocalReview \/ Dropped
  \/ \E c \in Cell : patch(c)
  \/ \E s \in Status : setStatus(s)
  \/ \E v \in Value : Preview(v)
  \/ ApplyRename \/ Compare \/ Compared \/ CancelComparison \/ ApplyRebase

Spec == Init /\ [][Next]_vars

-----------------------------------------------------------------------------
TypeOK ==
  /\ \A i \in DOMAIN drafts : drafts[i].content \in Content /\ drafts[i].status \in {"draft", "reviewed"}
  /\ approvals \subseteq 1 .. Revision
  /\ Open =>
       /\ tab.working \in Content /\ tab.status \in Status
       /\ tab.baseline.revision \in 0 .. Revision /\ tab.review.revision \in 0 .. Revision

(* What was typed stays on the screen until it is saved or given up cell   *)
(* by cell: no comparison, late answer or failure of a save changes it.    *)
TypedIsKept ==
  \A c \in Cell :
    Open /\ tab.typed[c] # Nil => tab.working[c] = tab.typed[c]

(* A revision changes only what its editor typed: the work of another tab  *)
(* is never reverted by one that had not seen it.                          *)
OnlyTyped ==
  \A i \in DOMAIN drafts, c \in Cell :
    LET before == IF i = 1 THEN 0 ELSE drafts[i - 1].content[c]
    IN drafts[i].content[c] # before => drafts[i].typed[c] = drafts[i].content[c]

(* A save that succeeds leaves on the screen exactly what was there: what  *)
(* was saved or approved is what the user saw.                             *)
SavesWhatIsShown ==
  (/\ Open /\ tab.call # Nil /\ tab.call.kind = "save" /\ tab'.call = Nil /\ tab'.review # Nil)
     => tab'.working = tab.working

(* A review that says it is saved shows what some revision holds. *)
CleanIsSaved ==
  Open /\ ~tab.dirty => tab.working = tab.review.content

(* What can be published is what was approved, as it is on the screen. *)
PublishableIsApproved ==
  Open /\ ~tab.dirty /\ tab.review.status = "approved_local" =>
      /\ tab.review.revision \in approvals
      /\ tab.working = drafts[tab.review.revision].content
=============================================================================

-------------------------- MODULE WorldEditSession --------------------------
(***************************************************************************)
(* The editing session of the World: one lease per campaign, which expires *)
(* when its holder stops renewing it, durable checkpoints of every draft,  *)
(* and pages that save through one queue each, publish, finish or discard. *)
(* A draft is the set of edits it contains, per kind: the layout has a     *)
(* revision of its own, and so has the graph.  A request and its answer    *)
(* are one step, the answer possibly lost: nothing the page does between   *)
(* them depends on either.                                                 *)
(***************************************************************************)
EXTENDS Integers, Sequences, FiniteSets

CONSTANTS
  Tab,       \* the pages
  Owner,     \* [Tab -> profiles]
  Layouter,  \* pages of profiles that may move nodes and not edit content
  Nil,       \* no value
  MaxToken,  \* bound on lease tokens
  MaxEdit,   \* bound on edits
  MaxQueue,  \* bound on saves that wait when another is added
  MaxExpiry, \* bound on expiries of the lease
  MaxFault   \* bound on reloads and lost answers

VARIABLES
  world,     \* what is published: a revision and a content per kind
  lease,     \* the row of the campaign
  drafts,    \* the durable checkpoints, by owner and token
  tabs,      \* the pages
  edits,     \* who made which edit
  tokens,    \* how many tokens were drawn
  promised,  \* drafts an editor was told are preserved but not applied
  expiries,
  faults

vars == <<world, lease, drafts, tabs, edits, tokens, promised, expiries, faults>>

Kind == {"layout", "graph"}
Blank == [k \in Kind |-> {}]
Marks == Kind \cup {"release", "discard"}
Kinds(t) == IF t \in Layouter THEN {"layout"} ELSE Kind

Closed ==
  [state |-> "view", pc |-> "idle", goal |-> Nil, stored |-> Nil, token |-> Nil,
   draft |-> Blank, base |-> 0, dirty |-> FALSE,
   armed |-> [k \in Kind |-> Nil], queue |-> <<>>, told |-> {}]

Init ==
  /\ world = [k \in Kind |-> [rev |-> 0, content |-> {}]]
  /\ lease = Nil
  /\ drafts = <<>>
  /\ tabs = [t \in Tab |-> Closed]
  /\ edits = <<>> /\ tokens = 0 /\ promised = {} /\ expiries = 0 /\ faults = 0

Tabs(t, r) == tabs' = [tabs EXCEPT ![t] = r]
Fault == faults < MaxFault /\ faults' = faults + 1
Content == [k \in Kind |-> world[k].content]
Revs == [k \in Kind |-> world[k].rev]

Untold(queue, whys, kinds) ==
  [i \in DOMAIN queue |->
    IF queue[i].why \in whys /\ queue[i].kind \in kinds
    THEN [queue[i] EXCEPT !.told = FALSE] ELSE queue[i]]

-----------------------------------------------------------------------------
(* What the database does.  The trigger on a changed draft of one holder:  *)
(* older checkpoints of the owner are superseded, this token's is written. *)
Row(l, status) == [base |-> l.base, draft |-> l.draft, init |-> l.init, status |-> status]

(* A function on pairs, with the pair p now mapped to r. *)
Put(f, p, r) == [q \in DOMAIN f \cup {p} |-> IF q = p THEN r ELSE f[q]]

Turn(f, owner, status) ==
  [q \in DOMAIN f |-> IF q[1] = owner /\ f[q].status = "active"
                      THEN [f[q] EXCEPT !.status = status] ELSE f[q]]

checkpoint_world_edit_draft_from_lease(l) ==
  Put(Turn(drafts, l.holder, "superseded"), <<l.holder, l.token>>, Row(l, "active"))

Owns(l, t, token) == l # Nil /\ l.holder = Owner[t] /\ l.token = token

Holds(t, token) == Owns(lease, t, token) /\ lease.live

FreshLease(t, token) ==
  [holder |-> Owner[t], token |-> token, base |-> [Revs EXCEPT !["graph"] = 0],
   draft |-> [Content EXCEPT !["graph"] = {}], init |-> FALSE, live |-> TRUE]

(* Mutant: the graph of another editor's draft stays in the lease. *)
HandoffKeeps(t, token) ==
  IF lease = Nil THEN FreshLease(t, token)
  ELSE [FreshLease(t, token) EXCEPT !.draft["graph"] = lease.draft["graph"],
         !.init = lease.init, !.base["graph"] = lease.base["graph"]]

(* reset_world_graph_draft_on_lease_handoff, or a new row. *)
Handoff(t, token) == FreshLease(t, token)

Active(owner) == {q \in DOMAIN drafts : q[1] = owner /\ drafts[q].status = "active"}

CurrentBase(row) ==
  /\ row.base["layout"] = world["layout"].rev
  /\ row.init => row.base["graph"] = world["graph"].rev

SameAsPublished(row) ==
  /\ row.draft["layout"] = world["layout"].content
  /\ row.init => row.draft["graph"] = world["graph"].content

(* What acquire_world_edit_lease_atomic answers, and its effects. *)
Answer(ok, status, l, d, kept) ==
  [ok |-> ok, status |-> status, lease |-> l, drafts |-> d, kept |-> kept]

Recovery(t, token) ==
  LET fresh == Handoff(t, token)
      mine == <<Owner[t], token>>
  IN IF mine \in DOMAIN drafts /\ drafts[mine].status = "published"
     THEN Answer(TRUE, "acquired", fresh, Turn(drafts, Owner[t], "superseded"), {})
     ELSE IF Active(Owner[t]) = {} THEN Answer(TRUE, "acquired", fresh, drafts, {})
     ELSE LET q == CHOOSE x \in Active(Owner[t]) : TRUE
              row == drafts[q]
              applied == [fresh EXCEPT !.base = row.base, !.draft = row.draft, !.init = row.init]
          IN CASE SameAsPublished(row) ->
                    Answer(TRUE, "acquired", fresh, [drafts EXCEPT ![q].status = "published"], {})
               [] ~SameAsPublished(row) /\ CurrentBase(row) ->
                    Answer(TRUE, "recovered", applied,
                           checkpoint_world_edit_draft_from_lease(applied), {})
               [] OTHER -> Answer(TRUE, "acquired", fresh, drafts, {[of |-> Owner[t], draft |-> row.draft]})

acquire_world_edit_lease_atomic(t, token) ==
  IF lease = Nil THEN Recovery(t, token)
  ELSE IF lease.live
       THEN IF Owns(lease, t, token) THEN Answer(TRUE, "resumed", lease, drafts, {})
            ELSE Answer(FALSE, "busy", lease, drafts, {})
  ELSE IF lease.holder = Owner[t]
       THEN Answer(TRUE, "recovered", [lease EXCEPT !.token = token, !.live = TRUE], drafts, {})
  ELSE Recovery(t, token)

(* acquire_world_graph_draft_atomic copies the published graph once. *)
GraphDraft ==
  IF lease.init THEN lease
  ELSE [lease EXCEPT !.init = TRUE, !.base["graph"] = world["graph"].rev,
                     !.draft["graph"] = world["graph"].content]

(* The publication: compare and set on both revisions, the receipt and the *)
(* end of the lease, in one transaction.  The checkpoint of the token was  *)
(* the only active one.                                                    *)
Changes(k, content) == world[k].content # content

Published(t, l) ==
  /\ world' = [k \in Kind |->
       IF k \in Kinds(t) /\ Changes(k, l.draft[k])
       THEN [rev |-> world[k].rev + 1, content |-> l.draft[k]] ELSE world[k]]
  /\ drafts' = Put(drafts, <<l.holder, l.token>>, Row(l, "published"))
  /\ lease' = Nil

publishWorldEditLayoutAction(t, token) ==
  CASE ~Holds(t, token) -> "lease_lost"
    [] Holds(t, token) /\ lease.base["layout"] # world["layout"].rev -> "conflict"
    [] OTHER -> "ok"

(* The gate of provenance and media reads the draft of the lease first. *)
MayRefuse(t, token) == t \notin Layouter /\ Owns(lease, t, token)

publishWorldEditStateAction(t, token) ==
  CASE ~Holds(t, token) -> "lease_lost"
    [] Holds(t, token) /\ lease.base # Revs -> "conflict"
    [] OTHER -> "ok"

PublishAnswer(t, token) ==
  IF t \in Layouter THEN publishWorldEditLayoutAction(t, token)
  ELSE publishWorldEditStateAction(t, token)

confirmedGraphPublishReceipt(t, token) ==
  /\ <<Owner[t], token>> \in DOMAIN drafts
  /\ drafts[<<Owner[t], token>>].status = "published"

-----------------------------------------------------------------------------
(* What the page does. *)
markLeaseLost(r) ==
  [Closed EXCEPT !.queue = Untold(r.queue, {"auto", "safety", "final", "drain"}, Marks), !.told = r.told]

(* What ends a session leaves the timers and the debounced saves alone. *)
EndSession(r) ==
  [Closed EXCEPT !.armed = r.armed, !.told = r.told,
                 !.queue = Untold(r.queue, {"safety", "final", "drain"}, Marks)]

cancelPendingDraftSaves(r) ==
  [r EXCEPT !.armed = Closed.armed, !.queue = Untold(@, {"auto"}, Kind)]

Room(r) == Len(r.queue) < MaxQueue

Save(r, k, why) ==
  [kind |-> k, token |-> r.token, content |-> r.draft[k], base |-> r.base, why |-> why,
   then |-> IF why = "safety" THEN r.draft["graph"] ELSE {}, told |-> TRUE]

(* The end of the queue as it is now. *)
Marker(r, goal) ==
  [kind |-> goal, token |-> r.token, content |-> {}, base |-> r.base, why |-> "drain",
   then |-> {}, told |-> TRUE]

Gone(t, token) == IF Owns(lease, t, token) THEN Nil ELSE lease

(* The token of the tab, or a new one.  It is kept when the World is busy; *)
(* a lost answer looks like a failure, and the token is forgotten.         *)
Start(t) ==
  LET r == tabs[t]
      token == IF r.stored = Nil THEN tokens + 1 ELSE r.stored
      a == acquire_world_edit_lease_atomic(t, token)
      got == [r EXCEPT !.draft = [a.lease.draft EXCEPT !["graph"] = {}], !.token = token,
                       !.stored = token, !.dirty = a.status # "acquired"]
  IN /\ r.state = "view"
     /\ r.stored = Nil => tokens < MaxToken
     /\ tokens' = IF r.stored = Nil THEN tokens + 1 ELSE tokens
     /\ lease' = a.lease /\ drafts' = a.drafts
     /\ \/ /\ promised' = promised \cup a.kept
           /\ Tabs(t, CASE ~a.ok -> [r EXCEPT !.stored = token]
                        [] a.ok /\ t \in Layouter -> [got EXCEPT !.state = "editing"]
                        [] OTHER -> [got EXCEPT !.state = "acquiring"])
           /\ UNCHANGED faults
        \/ Tabs(t, [r EXCEPT !.stored = Nil]) /\ Fault /\ UNCHANGED promised
     /\ UNCHANGED <<world, edits, expiries>>

(* The lease is given back when the graph cannot be read. *)
AcquireGraph(t) ==
  LET r == tabs[t]
      undone == [EndSession(r) EXCEPT !.queue = r.queue]
  IN /\ r.state = "acquiring"
     /\ \/ /\ Holds(t, r.token)
           /\ lease' = GraphDraft
           /\ Tabs(t, [r EXCEPT !.state = "editing",
                         !.draft["graph"] = GraphDraft.draft["graph"],
                         !.base = GraphDraft.base["graph"]])
           /\ UNCHANGED faults
        \/ /\ ~Holds(t, r.token)
           /\ lease' = Gone(t, r.token)
           /\ Tabs(t, undone) /\ UNCHANGED faults
        \/ /\ lease' = Gone(t, r.token)
           /\ Tabs(t, undone) /\ Fault
     /\ UNCHANGED <<world, drafts, edits, tokens, promised, expiries>>

(* An edit arms the timer of its kind. *)
Edit(t, k) ==
  LET r == tabs[t]
      e == Len(edits) + 1
      with == [r EXCEPT !.draft[k] = @ \cup {e}, !.dirty = TRUE,
                        !.queue = Untold(@, {"auto"}, {k})]
  IN /\ r.state = "editing" /\ k \in Kinds(t) /\ e <= MaxEdit
     /\ edits' = Append(edits, Owner[t])
     /\ Tabs(t, [with EXCEPT !.armed[k] = Save(with, k, "auto")])
     /\ UNCHANGED <<world, lease, drafts, tokens, promised, faults, expiries>>

DebounceEnds(t, k) ==
  LET r == tabs[t]
  IN /\ r.armed[k] # Nil /\ Room(r)
     /\ Tabs(t, [r EXCEPT !.armed[k] = Nil, !.queue = Append(@, r.armed[k])])
     /\ UNCHANGED <<world, lease, drafts, edits, tokens, promised, faults, expiries>>

(* The safety timer is for a debounce that is pushed back again and again; *)
(* it saves the same draft, so it is modelled while one is pending.        *)
SafetyFlush(t) ==
  LET r == tabs[t]
  IN /\ r.state = "editing" /\ Room(r)
     /\ \E k \in Kind : r.armed[k] # Nil
     /\ Tabs(t, [r EXCEPT !.queue = Append(@, Save(r, "layout", "safety"))])
     /\ UNCHANGED <<world, lease, drafts, edits, tokens, promised, faults, expiries>>

(* publish, finish and discard first save what is on the screen; another   *)
(* answer than a loss of the lease returns to the editing.                 *)
Ask(t, goal) ==
  LET r == cancelPendingDraftSaves(tabs[t])
      last == goal = "publish" \/ goal = "discard" \/ r.dirty
  IN /\ r.state = "editing" /\ r.pc = "idle" /\ Room(r)
     /\ goal = "publish" => r.dirty
     /\ Tabs(t, [r EXCEPT !.goal = goal, !.pc = "final",
                          !.state = IF goal = "publish" THEN "publishing" ELSE @,
                          !.queue = Append(@, IF last THEN Save(r, "layout", "final")
                                              ELSE Marker(r, goal))])
     /\ UNCHANGED <<world, lease, drafts, edits, tokens, promised, faults, expiries>>

(* After the last save: publish at once, or wait for the whole queue. *)
Saved(r) ==
  IF r.goal = "publish" THEN [r EXCEPT !.pc = "publish"]
  ELSE [r EXCEPT !.queue = Append(@, Marker(r, r.goal))]

(* How the page takes the answer to the save s. *)
Took(t, r, s, answer) ==
  LET graphToo == s.kind = "layout" /\ t \notin Layouter /\ r.token # Nil
  IN CASE ~s.told -> r
       [] s.told /\ answer = "lease_lost" -> markLeaseLost(r)
       [] s.told /\ s.why = "safety" /\ answer = "ok" /\ graphToo ->
            [r EXCEPT !.queue = Append(@, [s EXCEPT !.kind = "graph", !.content = s.then])]
       [] s.told /\ s.why = "final" /\ answer = "ok" ->
            IF graphToo THEN [r EXCEPT !.queue = Append(@, Save(r, "graph", "final"))]
            ELSE Saved(r)
       [] s.told /\ s.why = "final" /\ answer \notin {"ok", "lease_lost"} ->
            [r EXCEPT !.pc = "idle", !.state = "editing"]
       [] OTHER -> r

SaveAnswer(t, s) ==
  CASE ~Holds(t, s.token) \/ (s.kind = "graph" /\ ~lease.init) -> "lease_lost"
    [] Holds(t, s.token) /\ s.kind = "graph" /\ lease.init /\ s.base # lease.base["graph"] ->
         "invalid_payload"
    [] OTHER -> IF world[s.kind].rev # lease.base[s.kind] THEN "conflict" ELSE "ok"

(* The head of the queue: the draft is kept even when the answer is a      *)
(* conflict.                                                               *)
SaveDraft(t) ==
  LET r == [tabs[t] EXCEPT !.queue = Tail(@)]
      s == Head(tabs[t].queue)
      answer == SaveAnswer(t, s)
      kept == [lease EXCEPT !.draft[s.kind] = s.content]
  IN /\ tabs[t].queue # <<>> /\ s.why # "drain"
     /\ IF answer \in {"ok", "conflict"}
          THEN lease' = kept /\ drafts' = checkpoint_world_edit_draft_from_lease(kept)
          ELSE UNCHANGED <<lease, drafts>>
     /\ \/ Tabs(t, Took(t, r, s, answer)) /\ UNCHANGED faults
        \/ Tabs(t, Took(t, r, s, "dependency_unavailable")) /\ Fault
     /\ UNCHANGED <<world, edits, tokens, promised, expiries>>

SaveFails(t) ==
  /\ tabs[t].queue # <<>> /\ Head(tabs[t].queue).why # "drain"
  /\ Tabs(t, Took(t, [tabs[t] EXCEPT !.queue = Tail(@)], Head(tabs[t].queue),
                  "dependency_unavailable"))
  /\ Fault
  /\ UNCHANGED <<world, lease, drafts, edits, tokens, promised, expiries>>

completePublishedEdit(r) ==
  [EndSession(r) EXCEPT !.told = @ \cup r.draft["layout"] \cup r.draft["graph"]]

(* A loss of the answer, or of the lease, is looked up in the receipt; the *)
(* look up may fail as well.                                               *)
Publish(t) ==
  LET r == tabs[t]
      answer == PublishAnswer(t, r.token)
      back == [r EXCEPT !.pc = "idle", !.state = "editing"]
  IN /\ r.pc = "publish"
     /\ \/ /\ answer = "ok"
           /\ Published(t, lease)
           /\ \/ Tabs(t, completePublishedEdit(r)) /\ UNCHANGED faults
              \/ Tabs(t, back) /\ Fault
        \/ /\ answer = "lease_lost"
           /\ Tabs(t, IF confirmedGraphPublishReceipt(t, r.token) THEN completePublishedEdit(r)
                      ELSE markLeaseLost(r))
           /\ UNCHANGED <<world, lease, drafts, faults>>
        \/ /\ Tabs(t, back)
           /\ IF MayRefuse(t, r.token) THEN UNCHANGED faults ELSE Fault
           /\ UNCHANGED <<world, lease, drafts>>
     /\ UNCHANGED <<edits, tokens, promised, expiries>>

(* release deletes the row even if it expired; discard wants the row, and  *)
(* keeps a copy.                                                           *)
release_world_edit_lease_atomic(t, token) == lease' = Gone(t, token) /\ UNCHANGED drafts

discard_world_edit_lease_atomic(t, token) ==
  /\ lease' = Gone(t, token)
  /\ drafts' = IF Owns(lease, t, token)
       THEN Put(Turn(drafts, Owner[t], "discarded"), <<Owner[t], token>>, Row(lease, "discarded"))
       ELSE drafts

(* Both wait for the queue.  Then finish looks whether its session is      *)
(* still the current one; discard does not.                                *)
Ends(t, goal) ==
  /\ tabs[t].queue # <<>>
  /\ Head(tabs[t].queue).why = "drain" /\ Head(tabs[t].queue).kind = goal

Release(t) ==
  LET r == [tabs[t] EXCEPT !.queue = Tail(@)]
      s == Head(tabs[t].queue)
  IN /\ Ends(t, "release")
     /\ IF s.told THEN release_world_edit_lease_atomic(t, s.token) ELSE UNCHANGED <<lease, drafts>>
     /\ \/ Tabs(t, IF s.told THEN EndSession(r) ELSE r) /\ UNCHANGED faults
        \/ Tabs(t, IF s.told THEN [r EXCEPT !.pc = "idle"] ELSE r) /\ Fault
     /\ UNCHANGED <<world, edits, tokens, promised, expiries>>

Discard(t) ==
  LET r == [tabs[t] EXCEPT !.queue = Tail(@)]
      s == Head(tabs[t].queue)
      back == IF s.told THEN [r EXCEPT !.pc = "idle"] ELSE r
  IN /\ Ends(t, "discard")
     /\ discard_world_edit_lease_atomic(t, s.token)
     /\ \/ Tabs(t, IF Owns(lease, t, s.token) THEN EndSession(r) ELSE back) /\ UNCHANGED faults
        \/ Tabs(t, back) /\ Fault
     /\ UNCHANGED <<world, edits, tokens, promised, expiries>>

(* The heartbeat is stopped while the page publishes. *)
Heartbeat(t) ==
  /\ tabs[t].state = "editing" /\ ~Holds(t, tabs[t].token)
  /\ Tabs(t, markLeaseLost(tabs[t]))
  /\ UNCHANGED <<world, lease, drafts, edits, tokens, promised, faults, expiries>>

(* A reload keeps the token of the tab and nothing else. *)
Reload(t) ==
  /\ Fault
  /\ tabs[t] # [Closed EXCEPT !.stored = tabs[t].stored, !.told = tabs[t].told]
  /\ Tabs(t, [Closed EXCEPT !.stored = tabs[t].stored, !.told = tabs[t].told])
  /\ UNCHANGED <<world, lease, drafts, edits, tokens, promised, expiries>>

(* Sixty seconds without a renewal. *)
Expire ==
  /\ lease # Nil
  /\ lease.live /\ expiries < MaxExpiry
  /\ expiries' = expiries + 1
  /\ lease' = [lease EXCEPT !.live = FALSE]
  /\ UNCHANGED <<world, drafts, tabs, edits, tokens, promised, faults>>

Next ==
  \/ Expire
  \/ \E t \in Tab :
       \/ Start(t) \/ AcquireGraph(t)
       \/ \E k \in Kind : Edit(t, k) \/ DebounceEnds(t, k)
       \/ SafetyFlush(t) \/ SaveDraft(t) \/ SaveFails(t)
       \/ \E goal \in {"publish", "release", "discard"} : Ask(t, goal)
       \/ Publish(t) \/ Release(t) \/ Discard(t) \/ Heartbeat(t) \/ Reload(t)

Spec == Init /\ [][Next]_vars

-----------------------------------------------------------------------------
TypeOK ==
  /\ \A k \in Kind : world[k].content \subseteq DOMAIN edits
  /\ lease = Nil \/ lease.token \in 1 .. tokens
  /\ \A q \in DOMAIN drafts :
       drafts[q].status \in {"active", "superseded", "published", "discarded"}
  /\ \A t \in Tab : tabs[t].state \in {"view", "acquiring", "editing", "publishing"}

(* What an editor was told is published is published, and no later         *)
(* publication of anybody takes it away.                                   *)
ToldIsPublished ==
  \A t \in Tab : tabs[t].told \subseteq world["layout"].content \cup world["graph"].content

(* A draft holds what was published and what its own editor did: nobody    *)
(* sees or publishes the unpublished work of another.                      *)
DraftsArePrivate ==
  LET public == world["layout"].content \cup world["graph"].content
      own(owner) == {e \in DOMAIN edits : edits[e] = owner}
  IN /\ \A t \in Tab : \A k \in Kind : tabs[t].draft[k] \subseteq public \cup own(Owner[t])
     /\ \A q \in DOMAIN drafts : \A k \in Kind :
          drafts[q].draft[k] \subseteq public \cup own(q[1])
     /\ IF lease = Nil THEN TRUE
        ELSE \A k \in Kind : lease.draft[k] \subseteq public \cup own(lease.holder)

(* One checkpoint of an owner is the one to recover. *)
OneActive == \A t \in Tab : Cardinality(Active(Owner[t])) <= 1

(* A draft of which its editor was told that it is preserved, and not      *)
(* applied, is in some checkpoint or published.                            *)
StaleDraftIsKept ==
  \A p \in promised :
    \/ \E q \in DOMAIN drafts :
         q[1] = p.of /\ \A k \in Kind : p.draft[k] \subseteq drafts[q].draft[k]
    \/ \A k \in Kind : p.draft[k] \subseteq world[k].content
=============================================================================

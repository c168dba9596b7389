------------------------- MODULE WorldContentEditor -------------------------
(***************************************************************************)
(* The editor of the World's content: the draft that its panel and its     *)
(* canvas change, the check a relation passes before it may be public, the *)
(* panel that attaches canon decisions to a persisted relation, the upload *)
(* of a portrait, and what the database accepts when the draft is          *)
(* published.  Names, colours and summaries are left out: what is kept of  *)
(* a relation is its meaning (endpoints and type), status and audience.    *)
(*                                                                         *)
(* A publication waits here for the check and the upload in flight: what   *)
(* an answer does to a session that has ended is in WorldEditSession.      *)
(***************************************************************************)
EXTENDS Integers, FiniteSets

CONSTANTS
  Node,      \* elements; the ones of Drawn exist at first
  Drawn,
  Portrayed, \* elements whose portrait the editor uploads
  Relation,  \* identities of relations
  Old,       \* the one that is published at first
  Type,      \* relation types
  Directed,  \* the ones that are directed at first
  First,     \* what Old says at first
  Canon,     \* canon decisions
  Pair,      \* the connections <<source, target>> the editor draws
  Rank,      \* Rank[n]: the order of the identities in the database
  MaxEdit,   \* edits of the draft, over all the sessions
  Nil

VARIABLES
  draft,      \* [node, portrait, rel, type]: graphDraft of the edit session
  published,  \* the same, in the database
  sources,    \* sources[r]: the decisions attached to the persisted relation
  active,     \* the decisions that are active canon
  gate,       \* the last check of a promotion, or Nil
  panel,      \* the provenance panel of a relation, or Nil
  upload,     \* the upload in flight, with the draft of its render, or Nil
  edits,
  wish,       \* wish[r]: the last change of audience asked for r
  meant,      \* meant[r]: the meaning r had when its sources were attached
  turned      \* types made symmetric since the session started

vars == <<draft, published, sources, active, gate, panel, upload, edits, wish, meant, turned>>

(* Two audiences that are not the public stand for the others. *)
Audience == {"private_players", "review_only", "public"}
Meaning == [source: Node, target: Node, type: Type]
Edge == [source: Node, target: Node, type: Type, status: {"active", "archived"},
         vis: Audience]
Graph == [node: [Node -> {"absent", "active", "archived"}], portrait: [Node -> BOOLEAN],
          rel: [Relation -> Edge \cup {Nil}],
          type: [Type -> [directed: BOOLEAN, active: BOOLEAN]]]

TypeOK ==
  /\ draft \in Graph /\ published \in Graph
  /\ sources \in [Relation -> SUBSET Canon] /\ active \in SUBSET Canon
  /\ gate \in [rel: Relation, eligible: {"asked", "yes", "no"}] \cup {Nil}
  /\ panel \in [rel: Relation, options: SUBSET Canon] \cup {Nil}
  /\ upload \in [node: Node, base: Graph] \cup {Nil}
  /\ edits \in 0..MaxEdit
  /\ wish \in [Relation -> Audience]
  /\ meant \in [Relation -> Meaning \cup {Nil}]
  /\ turned \in SUBSET Type

Live(g) == {n \in Node : g.node[n] = "active"}
Exists(g, r) == IF g.rel[r] = Nil THEN FALSE ELSE TRUE
Active(g, r) == IF Exists(g, r) THEN g.rel[r].status = "active" ELSE FALSE
Public(g, r) == IF Exists(g, r) THEN g.rel[r].vis = "public" ELSE FALSE
MeaningOf(e) == [source |-> e.source, target |-> e.target, type |-> e.type]
Turn(m) == [m EXCEPT !.source = m.target, !.target = m.source]

(* Two relations that say the same: sameEndpoints of one type. *)
Same(g, m, e) ==
  \/ MeaningOf(e) = m
  \/ ~g.type[m.type].directed /\ MeaningOf(e) = Turn(m)

Duplicates(g, m, r) == {q \in Relation \ {r} : Active(g, q) /\ Same(g, m, g.rel[q])}

(* One more relation, for appendWorldDraftRelation. *)
CanAppend(g, m) ==
  /\ m.source # m.target /\ {m.source, m.target} \subseteq Live(g)
  /\ g.type[m.type].active
  /\ \A r \in Relation : Duplicates(g, m, r) = {}
Append(g, r, m, v) ==
  [g EXCEPT !.rel[r] = [source |-> m.source, target |-> m.target, type |-> m.type,
                        status |-> "active", vis |-> v]]

(* The edited relation takes a meaning and archives the equivalent ones. *)
archiveEquivalentRelations(g, r, m) ==
  [g EXCEPT !.rel = [q \in Relation |->
     IF q \in Duplicates(g, m, r) THEN [g.rel[q] EXCEPT !.status = "archived"] ELSE g.rel[q]]]
Remean(g, r, m) ==
  [archiveEquivalentRelations(g, r, m) EXCEPT
     !.rel[r].source = m.source, !.rel[r].target = m.target, !.rel[r].type = m.type]

(* What stops a checkpoint and a publication of the draft. *)
WellFormed(g) ==
  \A r \in Relation : Exists(g, r) =>
    /\ g.rel[r].source # g.rel[r].target
    /\ g.node[g.rel[r].source] # "absent" /\ g.node[g.rel[r].target] # "absent"
DuplicateFree(g) ==
  \A r \in Relation : Active(g, r) => Duplicates(g, MeaningOf(g.rel[r]), r) = {}

Init ==
  /\ \E s \in {{}, Canon} :
       /\ published = [node |-> [n \in Node |-> IF n \in Drawn THEN "active" ELSE "absent"],
                       portrait |-> [n \in Node |-> FALSE],
                       rel |-> [r \in Relation |->
                         IF r = Old THEN [source |-> First.source, target |-> First.target,
                                          type |-> First.type, status |-> "active",
                                          vis |-> "private_players"] ELSE Nil],
                       type |-> [y \in Type |-> [directed |-> y \in Directed, active |-> TRUE]]]
       /\ sources = [r \in Relation |-> IF r = Old THEN s ELSE {}]
       /\ meant = [r \in Relation |-> IF r = Old /\ s # {} THEN First ELSE Nil]
  /\ draft = published
  /\ active = Canon
  /\ gate = Nil /\ panel = Nil /\ upload = Nil
  /\ edits = 0
  /\ wish = [r \in Relation |-> "private_players"]
  /\ turned = {}

(* handleDraftChange: what the panel hands over becomes the draft, unless  *)
(* it makes a relation public; a change of audience retires the check.     *)
Changed(next) == {r \in Relation : Exists(next, r) /\
                    (Exists(draft, r) => draft.rel[r].vis # next.rel[r].vis)}
Promoted(next) == {r \in Changed(next) : Public(next, r)}
(* A defect: a change to a private audience leaves the check running. *)
ChangeKeepsCheck(next) ==
  /\ \/ Promoted(next) = {} /\ draft' = next /\ UNCHANGED gate
     \/ \E r \in Promoted(next) :
          /\ UNCHANGED draft
          /\ gate' = IF Exists(draft, r) THEN [rel |-> r, eligible |-> "asked"] ELSE Nil
  /\ edits' = edits + 1
handleDraftChange(next) ==
  /\ \/ /\ Promoted(next) = {}
        /\ draft' = next
        /\ gate' = IF Changed(next) = {} THEN gate ELSE Nil
     \/ \E r \in Promoted(next) :
          /\ UNCHANGED draft
          /\ gate' = IF Exists(draft, r) THEN [rel |-> r, eligible |-> "asked"] ELSE Nil
  /\ edits' = edits + 1

server == <<published, sources, active, meant>>
Rest == UNCHANGED <<server, panel, upload>>

CreateEntity(n) ==
  /\ draft.node[n] = "absent"
  /\ draft' = [draft EXCEPT !.node[n] = "active"]
  /\ edits' = edits + 1
  /\ Rest /\ UNCHANGED <<gate, wish, turned>>

(* onArchive: the element and its relations, in one change. *)
Archived(n) ==
  [draft EXCEPT !.node[n] = "archived",
     !.rel = [r \in Relation |->
       IF Exists(draft, r)
         THEN IF n \in {draft.rel[r].source, draft.rel[r].target}
                THEN [draft.rel[r] EXCEPT !.status = "archived"] ELSE draft.rel[r]
         ELSE Nil]]
ArchiveEntity(n) ==
  /\ draft.node[n] = "active"
  /\ handleDraftChange(Archived(n))
  /\ Rest /\ UNCHANGED <<wish, turned>>

(* The form of the panel, behind the gate, and the composer of the canvas, *)
(* which hands the draft straight to the session.                          *)
CreateRelation(r, m, v) ==
  /\ ~Exists(draft, r) /\ ~Exists(published, r) /\ CanAppend(draft, m)
  /\ wish' = [wish EXCEPT ![r] = v]
  /\ \/ handleDraftChange(Append(draft, r, m, v))
     \/ draft' = Append(draft, r, m, v) /\ edits' = edits + 1 /\ UNCHANGED gate
  /\ Rest /\ UNCHANGED turned

changeWorldDraftRelationType(r, y) ==
  /\ Active(draft, r) /\ draft.rel[r].type # y /\ draft.type[y].active
  /\ handleDraftChange(Remean(draft, r, [MeaningOf(draft.rel[r]) EXCEPT !.type = y]))
  /\ Rest /\ UNCHANGED <<wish, turned>>

reconnectRelation(r, p) ==
  /\ Active(draft, r) /\ {p[1], p[2]} \subseteq Live(draft)
  /\ <<draft.rel[r].source, draft.rel[r].target>> # p
  /\ draft' = Remean(draft, r, [source |-> p[1], target |-> p[2], type |-> draft.rel[r].type])
  /\ edits' = edits + 1
  /\ Rest /\ UNCHANGED <<gate, wish, turned>>

(* RelationEditor: it also shows a relation that has been archived.  To    *)
(* choose the audience that is shown changes nothing, so it retires no     *)
(* check either.                                                           *)
SetVisibility(r, v) ==
  /\ Exists(draft, r)
  /\ IF draft.rel[r].vis = v THEN gate # Nil ELSE TRUE
  /\ wish' = IF draft.rel[r].vis = v THEN wish ELSE [wish EXCEPT ![r] = v]
  /\ handleDraftChange([draft EXCEPT !.rel[r].vis = v])
  /\ Rest /\ UNCHANGED turned

ArchiveRelation(r) ==
  /\ Active(draft, r)
  /\ handleDraftChange([draft EXCEPT !.rel[r].status = "archived"])
  /\ Rest /\ UNCHANGED <<wish, turned>>

(* RelationTypeEditor. *)
SetType(y, d, a) ==
  /\ draft.type[y] # [directed |-> d, active |-> a]
  /\ d = draft.type[y].directed \/ a = draft.type[y].active
  /\ handleDraftChange([draft EXCEPT !.type[y] = [directed |-> d, active |-> a]])
  /\ turned' = IF draft.type[y].directed /\ ~d THEN turned \cup {y} ELSE turned
  /\ Rest /\ UNCHANGED wish

RemovePortrait(n) ==
  /\ upload = Nil /\ draft.portrait[n]
  /\ handleDraftChange([draft EXCEPT !.portrait[n] = FALSE])
  /\ Rest /\ UNCHANGED <<wish, turned>>

(* relationHasActiveCanonProvenance of what the server answers.  A load    *)
(* that fails blocks the promotion like a relation that is not eligible.   *)
Eligible(r) == Exists(published, r) /\ sources[r] \cap active # {}
GateReads ==
  /\ IF gate = Nil THEN FALSE ELSE gate.eligible = "asked"
  /\ \E a \in {"no"} \cup (IF Eligible(gate.rel) THEN {"yes"} ELSE {}) :
       gate' = [gate EXCEPT !.eligible = a]
  /\ Rest /\ UNCHANGED <<draft, edits, wish, turned>>

(* The answer arrives: only the audience is applied, to the latest draft.  *)
GateAnswers ==
  /\ IF gate = Nil THEN FALSE ELSE gate.eligible # "asked"
  /\ draft' = IF gate.eligible = "yes" /\ Active(draft, gate.rel)
                THEN [draft EXCEPT !.rel[gate.rel].vis = "public"] ELSE draft
  /\ gate' = Nil
  /\ Rest /\ UNCHANGED <<edits, wish, turned>>

(* WorldRelationProvenanceEditor: it loads the decisions there are, and    *)
(* saves, of the ones ticked, those among the loaded ones.                 *)
OpenPanel(r) ==
  /\ panel = Nil /\ Active(draft, r) /\ Exists(published, r)
  /\ panel' = [rel |-> r, options |-> active]
  /\ UNCHANGED <<server, draft, gate, upload, edits, wish, turned>>

ClosePanel ==
  /\ panel # Nil
  /\ panel' = Nil
  /\ UNCHANGED <<server, draft, gate, upload, edits, wish, turned>>

(* replace_world_relation_sources_atomic *)
Replaceable(r, requested) ==
  /\ requested \subseteq active
  /\ requested = {} => ~(Active(published, r) /\ Public(published, r))
saveProvenance(requested) ==
  /\ IF panel = Nil THEN FALSE ELSE requested \subseteq panel.options
  /\ Replaceable(panel.rel, requested)
  /\ sources' = [sources EXCEPT ![panel.rel] = requested]
  /\ meant' = IF requested = sources[panel.rel] THEN meant
              ELSE [meant EXCEPT ![panel.rel] = MeaningOf(published.rel[panel.rel])]
  /\ panel' = [panel EXCEPT !.options = active]
  /\ UNCHANGED <<published, active, draft, gate, upload, edits, wish, turned>>

(* Somebody retires a decision. *)
Retire(c) ==
  /\ c \in active
  /\ active' = active \ {c}
  /\ UNCHANGED <<published, sources, meant, draft, gate, panel, upload, edits, wish, turned>>

(* upload: at its end it calls the onChange of the render it started in,   *)
(* which hands over that render's draft with the portrait.                 *)
StartUpload(n) ==
  /\ upload = Nil /\ draft.node[n] = "active" /\ edits < MaxEdit
  /\ upload' = [node |-> n, base |-> draft]
  /\ UNCHANGED <<server, draft, gate, panel, edits, wish, turned>>
EndUpload ==
  /\ upload # Nil
  /\ upload' = Nil
  /\ \/ draft' = [upload.base EXCEPT !.portrait[upload.node] = TRUE]
     \/ UNCHANGED draft
  /\ UNCHANGED <<server, gate, panel, edits, wish, turned>>

(* publish_world_edit_state_atomic.  A symmetric relation is stored in the *)
(* order of the identities.                                                *)
Row(g, r) ==
  LET e == g.rel[r]
  IN IF ~g.type[e.type].directed /\ Rank[e.source] > Rank[e.target]
       THEN [e EXCEPT !.source = e.target, !.target = e.source] ELSE e
Rewritten(r) ==
  Exists(published, r) /\
    (\/ MeaningOf(Row(draft, r)) # MeaningOf(published.rel[r])
     \/ draft.rel[r].status # published.rel[r].status)
Proven(r) == sources[r] \cap active # {}
(* A defect: it asks for a decision, whatever the relation now says. *)
ReviewedOnce(r) == Active(draft, r) /\ Public(draft, r) => Proven(r)
Reviewed(r) == Active(draft, r) /\ Public(draft, r) => Proven(r) /\ ~Rewritten(r)
Publish ==
  /\ gate = Nil /\ upload = Nil /\ draft # published
  /\ WellFormed(draft) /\ DuplicateFree(draft)
  /\ \A r \in Relation : Reviewed(r)
  /\ published' = [draft EXCEPT !.rel = [r \in Relation |->
                     IF Exists(draft, r) THEN Row(draft, r) ELSE Nil]]
  /\ draft' = published'
  /\ sources' = [r \in Relation |-> IF Rewritten(r) THEN {} ELSE sources[r]]
  /\ wish' = [r \in Relation |-> IF Exists(draft, r) THEN draft.rel[r].vis ELSE wish[r]]
  /\ panel' = Nil
  /\ turned' = {}
  /\ UNCHANGED <<active, meant, gate, upload, edits>>

(* A change of a text, a colour or a style changes nothing kept here. *)
Retouch == handleDraftChange(draft) /\ Rest /\ UNCHANGED <<wish, turned>>

EntityEditor(n) ==
  \/ ArchiveEntity(n) \/ RemovePortrait(n)
  \/ draft.node[n] = "active" /\ Retouch

RelationEditor(r) ==
  \/ \E y \in Type : changeWorldDraftRelationType(r, y)
  \/ \E v \in Audience : SetVisibility(r, v)
  \/ ArchiveRelation(r)
  \/ Exists(draft, r) /\ Retouch

Edit ==
  /\ edits < MaxEdit
  /\ \/ \E n \in Node : CreateEntity(n) \/ EntityEditor(n)
     \/ \E r \in Relation :
          \/ \E p \in Pair, y \in Type, v \in Audience \ {"review_only"} :
               CreateRelation(r, [source |-> p[1], target |-> p[2], type |-> y], v)
          \/ \E p \in Pair : reconnectRelation(r, p)
          \/ RelationEditor(r)
     \/ \E y \in Type, d, a \in BOOLEAN : SetType(y, d, a)

Done ==
  /\ edits = MaxEdit /\ gate = Nil /\ upload = Nil /\ panel = Nil
  /\ UNCHANGED vars

Next ==
  \/ Edit \/ GateReads \/ GateAnswers
  \/ \E r \in Relation : OpenPanel(r)
  \/ \E c \in Canon : Retire(c)
  \/ ClosePanel
  \/ \E q \in SUBSET Canon : saveProvenance(q)
  \/ \E n \in Portrayed : StartUpload(n)
  \/ EndUpload \/ Publish \/ Done

Spec == Init /\ [][Next]_vars

-----------------------------------------------------------------------------
(* No change of the draft leaves a relation hanging: an active one joins   *)
(* two distinct active elements, and two of them say the same only when    *)
(* their type was made symmetric.                                          *)
GraphIsWhole ==
  \A r \in Relation : Active(draft, r) =>
    /\ draft.rel[r].source # draft.rel[r].target
    /\ {draft.rel[r].source, draft.rel[r].target} \subseteq Live(draft)
    /\ Duplicates(draft, MeaningOf(draft.rel[r]), r) # {} => draft.rel[r].type \in turned

(* A relation published for everybody has canon attached, and attached to  *)
(* what the relation says now, not to what it said before.                 *)
PublicIsProven ==
  \A r \in Relation : Active(published, r) /\ Public(published, r) =>
    /\ sources[r] # {}
    /\ meant[r] \in {MeaningOf(published.rel[r]), Turn(MeaningOf(published.rel[r]))}

(* A late answer of the check makes a relation public only if that is the  *)
(* last change of audience its editor asked for.                           *)
PromotionIsWanted ==
  \A r \in Relation :
    gate # gate' /\ ~Public(draft, r) /\ Public(draft', r) => wish[r] = "public"

=============================================================================

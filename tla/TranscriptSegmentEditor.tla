----------------------- MODULE TranscriptSegmentEditor -----------------------
(***************************************************************************)
(* One segment of a session's transcript and the pages that edit it: the   *)
(* editor's state, the server actions it asks (save at an expected         *)
(* revision, read the current version), the capability each of them looks  *)
(* up again, and the row, changed by one atomic function.                  *)
(*                                                                         *)
(* A text with its review status is one value.  A tab asks its actions one *)
(* after the other.  An answer of an editor that is no longer on the page  *)
(* is dropped.                                                             *)
(***************************************************************************)
EXTENDS Integers, Sequences

CONSTANTS
  Tab,
  Text,      \* what may be typed for the text,
  Speaker,   \*  and for the speaker, besides the names of the row
  Clean,     \* Clean[x]: x without the white space around it, or Blank
  Player,    \* the speaker's name of the row at first, and the name of the
  Character, \*  character shown in its place (Nil: none)
  First,     \* the text of the row at first
  MaxOp,     \* things a user does, failures, changes of a role
  Nil

VARIABLES
  row,       \* the row in transcript_segments, with its revision
  grants,    \* grants[t]: the capabilities of the user of t
  page,      \* page[t]: what the page of t was loaded with, or Nil
  editor,    \* editor[t]: the state of its SegmentEditor, or Nil: not on the page
  calls,     \* calls[t]: its actions asked and not answered, the oldest first
  ops,
  history,   \* history[n]: of revision n - 1, what the row showed, and what
             \*  the tab that saved it was told (the first: no tab)
  typed      \* typed[t]: what the user of t wants to be there

vars == <<row, grants, page, editor, calls, ops, history, typed>>

Blank == "blank"
Draft == [text : Text \cup {First}, speaker : (Speaker \cup {Player, Character}) \ {Nil}]
Phase == {"clean", "dirty", "saving", "saved", "error", "conflict"}
Answer == {"none", "ok", "conflict", "error"}

TypeOK ==
  /\ row \in [text : Text \cup {First}, name : (Speaker \cup {Player, Character}) \ {Nil},
              character : {Character, Nil}, revision : 0..MaxOp]
  /\ grants \in [Tab -> SUBSET {"read", "edit"}]
  /\ page \in [Tab -> [shown : Draft, revision : 0..MaxOp, editable : BOOLEAN] \cup {Nil}]
  /\ editor \in [Tab -> [saved : Draft, draft : Draft, phase : Phase,
                         active : Draft \cup {Nil}, remote : Draft \cup {Nil},
                         revision : 0..MaxOp, reloading : BOOLEAN] \cup {Nil}]
  /\ calls \in [Tab -> Seq([kind : {"save", "reload"}, draft : Draft \cup {Nil},
                            expected : 0..MaxOp, mine : BOOLEAN, answer : Answer,
                            result : [shown : Draft, revision : 0..MaxOp] \cup {Nil}])]
  /\ ops \in 0..MaxOp
  /\ history \in Seq([shown : Draft, told : Draft, by : Tab \cup {Nil}])
  /\ typed \in [Tab -> Draft \cup {Nil}]

(* The speaker shown is the character's name, if there is one. *)
shownSpeaker(r) == IF r.character # Nil THEN r.character ELSE r.name
Shown(r) == [text |-> r.text, speaker |-> shownSpeaker(r)]

Init ==
  /\ row = [text |-> First, name |-> Player, character |-> Character, revision |-> 0]
  /\ grants \in [Tab -> {{"read"}, {"read", "edit"}}]
  /\ page = [t \in Tab |-> Nil] /\ editor = [t \in Tab |-> Nil]
  /\ calls = [t \in Tab |-> <<>>]
  /\ ops = 0 /\ history = <<[shown |-> Shown(row), told |-> Shown(row), by |-> Nil]>>
  /\ typed = [t \in Tab |-> Nil]

(* Each page and action looks the capabilities up again. *)
loadEditAccessContext(t) == grants[t]
authorizeCampaignCapability(t, c) == c \in loadEditAccessContext(t)
requireCapability(t, c) == authorizeCampaignCapability(t, c)

readTranscriptSegment == [shown |-> Shown(row), revision |-> row.revision]

-----------------------------------------------------------------------------
(* The editor's state. *)
createTranscriptEditorState(d, n) ==
  [saved |-> d, draft |-> d, phase |-> "clean", active |-> Nil, remote |-> Nil,
   revision |-> n, reloading |-> FALSE]

isTranscriptEditorDirty(s) == s.saved # s.draft

(* A key typed in a conflict stays in the conflict: only what the user     *)
(* decides about the other version leaves it.                              *)
Edited(s, d) ==
  [s EXCEPT !.draft = d, !.remote = Nil,
            !.phase = IF @ = "saving" THEN "saving"
                      ELSE IF s.saved # d THEN "dirty" ELSE "clean"]
EditedAlways(s, d) == Edited(s, d)
editTranscriptDraft(s, d) ==
  IF s.phase = "conflict" THEN [s EXCEPT !.draft = d] ELSE Edited(s, d)

CanBegin(s) == s.phase \notin {"saving", "conflict"} /\ isTranscriptEditorDirty(s)
beginTranscriptSave(s) == [s EXCEPT !.phase = "saving", !.active = s.draft, !.remote = Nil]

completeTranscriptSaveSuccess(s, d, persisted) ==
  IF s.active # d THEN s
  ELSE LET draft == IF s.draft = d THEN persisted ELSE s.draft
       IN  [s EXCEPT !.saved = persisted, !.draft = draft, !.active = Nil, !.remote = Nil,
                     !.phase = IF draft = persisted THEN "saved" ELSE "dirty"]

completeTranscriptSaveFailure(s, d, failure) ==
  IF s.active # d THEN s
  ELSE [s EXCEPT !.phase = failure, !.active = Nil, !.remote = Nil]

loadTranscriptConflictRemote(s, d) ==
  IF s.phase = "conflict" THEN [s EXCEPT !.remote = d] ELSE s

CanReconcile(s) == s.phase = "conflict" /\ s.remote # Nil
reapplyTranscriptConflictDraft(s) ==
  [s EXCEPT !.saved = s.remote, !.active = Nil, !.remote = Nil,
            !.phase = IF s.remote = s.draft THEN "clean" ELSE "dirty"]
acceptTranscriptConflictRemote(s) ==
  [s EXCEPT !.saved = s.remote, !.draft = s.remote, !.active = Nil, !.remote = Nil,
            !.phase = "clean"]

CanReset(s) == s.phase \notin {"saving", "conflict"}
resetTranscriptDraft(s) ==
  [s EXCEPT !.draft = s.saved, !.active = Nil, !.remote = Nil, !.phase = "clean"]

-----------------------------------------------------------------------------
(* What the user does. *)
On(t) == editor[t] # Nil
Editable(t) == IF page[t] = Nil THEN FALSE ELSE page[t].editable
Becomes(t, s) == editor' = [editor EXCEPT ![t] = s]
Wants(t, d) == typed' = [typed EXCEPT ![t] = d]
Dropped(q) == [i \in DOMAIN q |-> [q[i] EXCEPT !.mine = FALSE]]

(* The page is loaded, or loaded again. *)
EditSessionPage(t) ==
  /\ requireCapability(t, "read")
  /\ page' = [page EXCEPT ![t] = [shown |-> Shown(row), revision |-> row.revision,
                                  editable |-> authorizeCampaignCapability(t, "edit")]]
  /\ Becomes(t, createTranscriptEditorState(Shown(row), row.revision))
  /\ calls' = [calls EXCEPT ![t] = Dropped(@)]
  /\ Wants(t, Shown(row))
  /\ UNCHANGED <<row, grants, history>>

(* The filter of the page takes the segment away, with what was typed, and *)
(* brings it back as it was loaded.                                        *)
TranscriptEditor(t) ==
  /\ page[t] # Nil
  /\ IF On(t) THEN Becomes(t, Nil) /\ Wants(t, Nil)
     ELSE /\ Becomes(t, createTranscriptEditorState(page[t].shown, page[t].revision))
          /\ Wants(t, page[t].shown)
  /\ calls' = [calls EXCEPT ![t] = Dropped(@)]
  /\ UNCHANGED <<row, grants, page, history>>

(* The field of the speaker takes any name: also the one that the row has  *)
(* while its character's is shown.                                         *)
Type(t, d) ==
  /\ On(t) /\ Editable(t) /\ d # editor[t].draft
  /\ Becomes(t, editTranscriptDraft(editor[t], d)) /\ Wants(t, d)
  /\ UNCHANGED <<row, grants, page, calls, history>>

Cancel(t) ==
  /\ On(t) /\ Editable(t) /\ CanReset(editor[t]) /\ editor[t].phase # "clean"
  /\ Becomes(t, resetTranscriptDraft(editor[t])) /\ Wants(t, editor[t].saved)
  /\ UNCHANGED <<row, grants, page, calls, history>>

Reconcile(t) ==
  /\ On(t) /\ CanReconcile(editor[t])
  /\ \/ Becomes(t, reapplyTranscriptConflictDraft(editor[t])) /\ UNCHANGED typed
     \/ Becomes(t, acceptTranscriptConflictRemote(editor[t])) /\ Wants(t, editor[t].remote)
  /\ UNCHANGED <<row, grants, page, calls, history>>

Ask(t, k, d) ==
  calls' = [calls EXCEPT ![t] = Append(@,
    [kind |-> k, draft |-> d, expected |-> editor[t].revision, mine |-> TRUE,
     answer |-> "none", result |-> Nil])]

save(t) ==
  /\ On(t) /\ Editable(t) /\ CanBegin(editor[t])
  /\ Becomes(t, beginTranscriptSave(editor[t]))
  /\ Ask(t, "save", editor[t].draft)
  /\ UNCHANGED <<row, grants, page, history, typed>>

loadCurrentVersion(t) ==
  /\ On(t) /\ Editable(t)
  /\ editor[t].phase = "conflict" /\ editor[t].remote = Nil /\ ~editor[t].reloading
  /\ Becomes(t, [editor[t] EXCEPT !.reloading = TRUE])
  /\ Ask(t, "reload", Nil)
  /\ UNCHANGED <<row, grants, page, history, typed>>

-----------------------------------------------------------------------------
(* The server. *)
Waiting(t) == IF calls[t] = <<>> THEN FALSE ELSE Head(calls[t]).answer = "none"
Answered(t) == IF calls[t] = <<>> THEN FALSE ELSE Head(calls[t]).answer # "none"
Answers(t, a, r) ==
  calls' = [calls EXCEPT ![t][1].answer = a, ![t][1].result = r]

(* prepareTranscriptEdit trims, and refuses what is empty. *)
cleaned(d) == [text |-> Clean[d.text], speaker |-> Clean[d.speaker]]
prepareTranscriptEdit(d) == Blank \notin {cleaned(d).text, cleaned(d).speaker}

(* edit_transcript_segment_atomic: the name of the character goes when the *)
(* speaker's name changes, whichever of the two was shown.                 *)
edit_transcript_segment_atomic(d) ==
  row' = [text |-> d.text, name |-> d.speaker,
          character |-> IF d.speaker = Clean[row.name] THEN row.character ELSE Nil,
          revision |-> row.revision + 1]

mutateTranscriptSegment(t, c) ==
  IF ~prepareTranscriptEdit(c.draft) \/ ~authorizeCampaignCapability(t, "edit") THEN "error"
  ELSE IF c.expected # row.revision THEN "conflict" ELSE "ok"

updateTranscriptSegmentAction(t) ==
  LET c == Head(calls[t])
      a == mutateTranscriptSegment(t, c) IN
  /\ Waiting(t) /\ c.kind = "save"
  /\ \/ a # "ok" /\ Answers(t, a, Nil) /\ UNCHANGED <<row, history>>
     \/ /\ a = "ok"
        /\ edit_transcript_segment_atomic(cleaned(c.draft))
        /\ history' = Append(history, [shown |-> Shown(row'), told |-> cleaned(c.draft), by |-> t])
        /\ Answers(t, "ok", [shown |-> cleaned(c.draft), revision |-> row.revision + 1])
  /\ UNCHANGED <<grants, page, editor, ops, typed>>

reloadTranscriptSegmentAction(t) ==
  /\ Waiting(t) /\ Head(calls[t]).kind = "reload"
  /\ IF requireCapability(t, "read") THEN Answers(t, "ok", readTranscriptSegment)
     ELSE Answers(t, "error", Nil)
  /\ UNCHANGED <<row, grants, page, editor, ops, history, typed>>

(* The answer. *)
Saved(t) ==
  LET c == Head(calls[t]) IN
  /\ c.kind = "save"
  /\ IF c.answer = "ok"
       THEN Becomes(t, [completeTranscriptSaveSuccess(editor[t], c.draft, c.result.shown)
                          EXCEPT !.revision = c.result.revision])
       ELSE Becomes(t, completeTranscriptSaveFailure(editor[t], c.draft, c.answer))
  /\ typed' = IF c.answer = "ok" /\ typed[t] = c.draft
                THEN [typed EXCEPT ![t] = c.result.shown] ELSE typed

Reloaded(t) ==
  LET c == Head(calls[t])
      s == [editor[t] EXCEPT !.reloading = FALSE] IN
  /\ c.kind = "reload" /\ UNCHANGED typed
  /\ IF c.answer = "ok"
       THEN Becomes(t, [loadTranscriptConflictRemote(s, c.result.shown)
                          EXCEPT !.revision = c.result.revision])
       ELSE Becomes(t, s)

Receive(t) ==
  /\ Answered(t)
  /\ calls' = [calls EXCEPT ![t] = Tail(@)]
  /\ IF Head(calls[t]).mine THEN Saved(t) \/ Reloaded(t) ELSE UNCHANGED <<editor, typed>>
  /\ UNCHANGED <<row, grants, page, ops, history>>

(* A request or its answer is lost: save() has no handler, and its editor  *)
(* goes on saving; loadCurrentVersion has a finally.                       *)
Lost(t) ==
  /\ calls[t] # <<>>
  /\ calls' = [calls EXCEPT ![t] = Tail(@)]
  /\ editor' = IF Head(calls[t]).mine /\ Head(calls[t]).kind = "reload"
                 THEN [editor EXCEPT ![t].reloading = FALSE] ELSE editor
  /\ UNCHANGED <<row, grants, page, history, typed>>

Role(t) ==
  /\ \E g \in {{}, {"read"}, {"read", "edit"}} : g # grants[t] /\ grants' = [grants EXCEPT ![t] = g]
  /\ UNCHANGED <<row, page, editor, calls, history, typed>>

User ==
  /\ ops < MaxOp /\ ops' = ops + 1
  /\ \E t \in Tab :
       \/ EditSessionPage(t) \/ TranscriptEditor(t) \/ Cancel(t) \/ Lost(t) \/ Role(t)
       \/ \E x \in Text, y \in (Speaker \cup {Player, Character}) \ {Nil} :
            Type(t, [text |-> x, speaker |-> y])

Next ==
  \/ User
  \/ /\ UNCHANGED ops
     /\ \E t \in Tab : save(t) \/ loadCurrentVersion(t) \/ Reconcile(t)
  \/ \E t \in Tab : updateTranscriptSegmentAction(t) \/ reloadTranscriptSegmentAction(t)
                    \/ Receive(t)

Spec == Init /\ [][Next]_vars

-----------------------------------------------------------------------------
(* Revision n showed d to whoever loaded it, and the tab t was told of d if *)
(* it saved that revision itself.                                          *)
Showed(n, d) == history[n + 1].shown = d
Told(t, n, d) == history[n + 1].by = t /\ history[n + 1].told = d

(* What an editor compares its draft with is what the row showed at the    *)
(* revision it would save over, or what the answer to its own save of that *)
(* revision told: so nobody overwrites what was never on the page.  In a   *)
(* conflict, the other version is what the row shows.                      *)
SavesOverWhatItShows ==
  \A t \in Tab : On(t) =>
    LET s == editor[t] IN
    /\ s.phase # "conflict" => Showed(s.revision, s.saved) \/ Told(t, s.revision, s.saved)
    /\ s.remote # Nil => Showed(s.revision, s.remote)

(* What was typed is on the page until it is saved, given up by its user,  *)
(* or taken away with the segment; and "saved" is said of what the editor  *)
(* was told of its own save.                                               *)
TypedIsShown ==
  \A t \in Tab : On(t) =>
    /\ editor[t].draft = typed[t]
    /\ editor[t].phase = "saved" => Told(t, editor[t].revision, typed[t])

(* A save tells what the row shows from then on, with one exception: while *)
(* the character's name is shown, the row's own name may be typed, and the *)
(* row goes on showing the character (the SQL test asks for that), while   *)
(* the editor is told of the name.                                         *)
ToldIsShown ==
  \A n \in DOMAIN history :
    LET e == history[n] IN
    e.told # e.shown =>
      /\ n > 1 /\ e.told.text = e.shown.text
      /\ e.told.speaker = Clean[Player] /\ e.shown.speaker = Character
      /\ history[n - 1].shown.speaker = Character
=============================================================================

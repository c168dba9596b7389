--------------------------- MODULE LembraLibrary ---------------------------
(***************************************************************************)
(* Lembra, the shared library of visual references: the page of one user   *)
(* (gallery, filters, viewer, composer), the server actions it calls, the  *)
(* upload of an image in parts and its verification in the private bucket, *)
(* the rows, and the other users, who edit and remove what they like.      *)
(*                                                                         *)
(* The page calls its server actions one after the other, in the order in  *)
(* which they were asked; the parts of an upload do not wait in that queue.*)
(* A title with its description is one text; order and layout are left out.*)
(***************************************************************************)
EXTENDS Integers, Sequences, FiniteSets

CONSTANTS
  Ref,     \* identities of references
  Old,     \* the one that is in the library at first, by another user
  First,   \* its text and image
  File,    \* files the user may choose, of an image's type
  Image,   \* the ones that are images
  Text,
  Part,    \* the parts an image is sent in: 1..Part
  MaxOp,   \* operations of the user
  MaxFault,\* calls that fail, parts that are spoilt, steps of other users
  Nil

VARIABLES
  row,        \* row[r]: the row of r in lembra_references, or Nil
  pending,    \* pending[r]: the parts received for r
  object,     \* object[r]: the verified bytes kept for r, or Nil
  favorites,  \* the rows of lembra_favorites of this user
  references, \* references[r]: the text the page shows for r, or Nil
  favoriteIds,
  broken,     \* brokenImageIds
  filter,     \* view, and the text the query finds (Nil: no query)
  draft,      \* the image chosen and its text, or Nil
  viewer,     \* the reference open, the text typed, and the question to remove it
  saving,     \* the save, edit or removal going on, or Nil
  calls,      \* server actions asked and not answered, the oldest first
  ops, faults,
  chosen,     \* chosen[r]: the image and the text r was saved with, or Nil;
              \* the text is then the last one somebody gave it
  doubtful    \* favourites toggled again before an answer, or whose answer was lost

vars == <<row, pending, object, favorites, references, favoriteIds, broken, filter,
          draft, viewer, saving, calls, ops, faults, chosen, doubtful>>
server == <<row, pending, object, favorites>>
page == <<references, favoriteIds, broken, filter, draft, viewer, saving>>
ghost == <<chosen, doubtful>>

Spoilt == "spoilt"       \* bytes that are no part of the file
Closed == [ref |-> Nil, typed |-> Nil, confirm |-> FALSE]
Open(r) == [Closed EXCEPT !.ref = r]
Call == [kind : {"request", "finalize", "update", "retire", "favorite"}, ref : Ref,
         text : Text \cup {Nil}, file : File \cup {Nil}, on : BOOLEAN,
         answer : {"none", "ok", "refused", "lost"}]

TypeOK ==
  /\ row \in [Ref -> [text : Text, file : File, status : {"active", "retired"}]
                     \cup {Nil}]
  /\ pending \in [Ref -> Seq(File \cup {Spoilt})]
  /\ object \in [Ref -> File \cup {Nil}]
  /\ favorites \in SUBSET Ref /\ favoriteIds \in SUBSET Ref /\ broken \in SUBSET Ref
  /\ references \in [Ref -> Text \cup {Nil}]
  /\ filter \in [view : {"all", "mine", "favorites"}, query : Text \cup {Nil}]
  /\ draft \in [file : File, text : Text \cup {Nil}] \cup {Nil}
  /\ viewer \in [ref : Ref \cup {Nil}, typed : Text \cup {Nil}, confirm : BOOLEAN]
  /\ saving \in [kind : {"upload", "edit", "remove"}, phase : {"asked", "sending"},
                 ref : Ref \cup {Nil}] \cup {Nil}
  /\ calls \in Seq(Call)
  /\ ops \in 0..MaxOp /\ faults \in 0..MaxFault
  /\ chosen \in [Ref -> [file : File, text : Text] \cup {Nil}]
  /\ doubtful \in SUBSET Ref

Idle == saving = Nil
Shown(r) == references[r] # Nil
Mine(r) == chosen[r] # Nil
Active(r) == IF row[r] = Nil THEN FALSE ELSE row[r].status = "active"

matchesLembraSearch(r) == filter.query # Nil => references[r] = filter.query
Visible ==
  {r \in Ref : /\ Shown(r) /\ matchesLembraSearch(r)
               /\ filter.view = "mine" => Mine(r)
               /\ filter.view = "favorites" => r \in favoriteIds}

(* What can be pressed.  The viewer and the composer are modal: what is    *)
(* behind them cannot, and while something is saved neither can theirs.    *)
CardOffers(r) == draft = Nil /\ viewer.ref = Nil /\ r \in Visible
ViewerOffers == viewer.ref # Nil /\ draft = Nil /\ Idle
ComposerOffers == draft # Nil /\ Idle

(* presentLembraRow of the rows that are active. *)
Loaded == [r \in Ref |-> IF Active(r) THEN row[r].text ELSE Nil]

Init ==
  /\ row = [r \in Ref |-> IF r = Old
              THEN [text |-> First.text, file |-> First.file, status |-> "active"] ELSE Nil]
  /\ object = [r \in Ref |-> IF r = Old THEN First.file ELSE Nil]
  /\ favorites \in SUBSET {Old}
  /\ pending = [r \in Ref |-> <<>>]
  /\ references = Loaded /\ favoriteIds = favorites
  /\ broken = {} /\ filter = [view |-> "all", query |-> Nil]
  /\ draft = Nil /\ viewer = Closed /\ saving = Nil /\ calls = <<>>
  /\ ops = 0 /\ faults = 0
  /\ chosen = [r \in Ref |-> Nil] /\ doubtful = {}

(* The page is loaded again, when nothing is in flight. *)
LembraPage ==
  /\ calls = <<>> /\ Idle /\ references # Loaded
  /\ references' = Loaded
  /\ favoriteIds' = {r \in favorites : Active(r)}
  /\ broken' = {} /\ filter' = [view |-> "all", query |-> Nil]
  /\ draft' = Nil /\ viewer' = Closed /\ doubtful' = {}
  /\ UNCHANGED <<server, saving, calls, faults, chosen>>

-----------------------------------------------------------------------------
(* The viewer, and the effect that closes it when what it shows leaves the *)
(* gallery.                                                                *)
Kept(v) == IF v.ref # Nil /\ v.ref \in Visible' THEN v ELSE Closed

openViewer(r) ==
  /\ CardOffers(r)
  /\ viewer' = Open(r) /\ broken' = broken \ {r}
  /\ UNCHANGED <<server, references, favoriteIds, filter, draft, saving, calls, faults, ghost>>

closeViewer ==
  /\ viewer.ref # Nil /\ draft = Nil
  /\ viewer' = IF viewer.typed # Nil THEN [viewer EXCEPT !.typed = Nil] ELSE Closed
  /\ viewer.typed = Nil => Idle
  /\ UNCHANGED <<server, references, favoriteIds, broken, filter, draft, saving, calls,
                 faults, ghost>>

(* With the keys it also moves while a removal is going on. *)
moveViewer(r) ==
  /\ viewer.ref # Nil /\ viewer.typed = Nil
  /\ r \in Visible \ {viewer.ref}
  /\ viewer' = Open(r)
  /\ UNCHANGED <<server, references, favoriteIds, broken, filter, draft, saving, calls,
                 faults, ghost>>

startEditing(x) ==
  /\ ViewerOffers /\ viewer.typed # x
  /\ viewer' = [viewer EXCEPT !.typed = x, !.confirm = FALSE]
  /\ UNCHANGED <<server, references, favoriteIds, broken, filter, draft, saving, calls,
                 faults, ghost>>

AskToRemove ==
  /\ ViewerOffers
  /\ viewer' = [Open(viewer.ref) EXCEPT !.confirm = ~viewer.confirm]
  /\ UNCHANGED <<server, references, favoriteIds, broken, filter, draft, saving, calls,
                 faults, ghost>>

(* The navigation, the search and the period. *)
Toolbar(v, q) ==
  /\ viewer.ref = Nil /\ draft = Nil /\ filter # [view |-> v, query |-> q]
  /\ filter' = [view |-> v, query |-> q]
  /\ UNCHANGED <<server, references, favoriteIds, broken, draft, viewer, saving, calls,
                 faults, ghost>>

(* prepareFile, from the button, a paste or a drop: the last two are heard *)
(* whatever is open, and whatever is being saved.                          *)
prepareFile(f, x) ==
  /\ draft # [file |-> f, text |-> x]
  /\ draft' = [file |-> f, text |-> x]
  /\ UNCHANGED <<server, references, favoriteIds, broken, filter, viewer, saving, calls,
                 faults, ghost>>

Compose(x) ==
  /\ ComposerOffers /\ draft.text # x
  /\ draft' = [draft EXCEPT !.text = x]
  /\ UNCHANGED <<server, references, favoriteIds, broken, filter, viewer, saving, calls,
                 faults, ghost>>

closeDraft ==
  /\ ComposerOffers
  /\ draft' = Nil
  /\ UNCHANGED <<server, references, favoriteIds, broken, filter, viewer, saving, calls,
                 faults, ghost>>

-----------------------------------------------------------------------------
(* What the page asks of the server. *)
Asked(k, r, x, f, on) ==
  [kind |-> k, ref |-> r, text |-> x, file |-> f, on |-> on, answer |-> "none"]
Ask(c) == calls' = Append(calls, c)

(* saveReference: the image and the text are the ones of its render.  The  *)
(* identity is drawn by the server; here it is known from the request on.  *)
saveReference(r) ==
  /\ ComposerOffers
  /\ draft.text # Nil /\ row[r] = Nil /\ chosen[r] = Nil
  /\ saving' = [kind |-> "upload", phase |-> "asked", ref |-> r]
  /\ chosen' = [chosen EXCEPT ![r] = draft]
  /\ Ask(Asked("request", r, draft.text, draft.file, FALSE))
  /\ UNCHANGED <<server, references, favoriteIds, broken, filter, draft, viewer, faults,
                 doubtful>>

saveReferenceEdit ==
  /\ ViewerOffers /\ viewer.typed # Nil
  /\ saving' = [kind |-> "edit", phase |-> "asked", ref |-> viewer.ref]
  /\ Ask(Asked("update", viewer.ref, viewer.typed, Nil, FALSE))
  /\ UNCHANGED <<server, references, favoriteIds, broken, filter, draft, viewer, faults, ghost>>

removeSelectedReference ==
  /\ ViewerOffers /\ viewer.confirm
  /\ saving' = [kind |-> "remove", phase |-> "asked", ref |-> viewer.ref]
  /\ Ask(Asked("retire", viewer.ref, Nil, Nil, FALSE))
  /\ UNCHANGED <<server, references, favoriteIds, broken, filter, draft, viewer, faults, ghost>>

(* toggleFavorite: the heart changes at once. *)
With(s, r, on) == IF on THEN s \cup {r} ELSE s \ {r}
Toggling(r) == \E i \in DOMAIN calls : calls[i].kind = "favorite" /\ calls[i].ref = r
toggleFavorite(r) ==
  /\ CardOffers(r) \/ (ViewerOffers /\ r = viewer.ref)
  /\ favoriteIds' = With(favoriteIds, r, r \notin favoriteIds)
  /\ Ask(Asked("favorite", r, Nil, Nil, r \notin favoriteIds))
  /\ doubtful' = IF Toggling(r) THEN doubtful \cup {r} ELSE doubtful
  /\ UNCHANGED <<server, references, broken, filter, draft, saving, faults, chosen>>
  /\ viewer' = Kept(viewer)

User ==
  /\ ops < MaxOp /\ ops' = ops + 1
  /\ \/ LembraPage \/ closeViewer \/ AskToRemove \/ closeDraft
     \/ saveReferenceEdit \/ removeSelectedReference
     \/ \E r \in Ref : openViewer(r) \/ moveViewer(r) \/ toggleFavorite(r) \/ saveReference(r)
     \/ \E x \in Text : startEditing(x) \/ Compose(x)
     \/ \E v \in {"all", "mine", "favorites"}, q \in Text \cup {Nil} : Toolbar(v, q)
     \/ \E f \in File, x \in Text \cup {Nil} : prepareFile(f, x)

-----------------------------------------------------------------------------
(* The server.  A call may be refused without any effect, and the answer   *)
(* of one that was served may be lost.                                     *)
Fault == faults < MaxFault /\ faults' = faults + 1
(* getLembraIdentity has nobody to give, or a service does not answer. *)
NoIdentity == Fault

(* writeLembraUploadChunk: the page sends the parts in order, each when    *)
(* the one before has been received.                                       *)
Sending == IF Idle THEN FALSE ELSE saving.phase = "sending"
SendPart ==
  /\ Sending
  /\ LET r == saving.ref
     IN /\ Len(pending[r]) < Part
        /\ \/ pending' = [pending EXCEPT ![r] = Append(@, chosen[r].file)]
              /\ UNCHANGED <<saving, faults>>
           \/ pending' = [pending EXCEPT ![r] = Append(@, Spoilt)] /\ Fault /\ UNCHANGED saving
           \/ saving' = Nil /\ Fault /\ UNCHANGED pending
  /\ UNCHANGED <<row, object, favorites, references, favoriteIds, broken, filter, draft,
                 viewer, calls, ops, ghost>>

(* All the parts are there: the page asks for the reference. *)
AskToFinalize ==
  /\ Sending /\ Len(pending[saving.ref]) = Part
  /\ saving' = [saving EXCEPT !.phase = "asked"]
  /\ Ask(Asked("finalize", saving.ref, chosen[saving.ref].text, chosen[saving.ref].file, FALSE))
  /\ UNCHANGED <<server, references, favoriteIds, broken, filter, draft, viewer, ops,
                 faults, ghost>>

(* finalizeLembraPendingUpload: the bytes put together are the ones of the *)
(* intent, or nothing is kept.                                             *)
inspectLembraImage(f) == f \in Image
Verified(c) ==
  inspectLembraImage(c.file) /\ \A i \in DOMAIN pending[c.ref] : pending[c.ref][i] = c.file
putImmutable(r) ==
  /\ object' = [object EXCEPT ![r] = pending[r][1]]
  /\ pending' = [pending EXCEPT ![r] = <<>>]
insertLembraReference(c) ==
  row' = [row EXCEPT ![c.ref] = [text |-> c.text, file |-> c.file, status |-> "active"]]
finalizeLembraUploadAction(c) ==
  /\ putImmutable(c.ref) /\ insertLembraReference(c)
  /\ UNCHANGED <<favorites, chosen>>

updateLembraReferenceMetadata(r, x) ==
  /\ row' = [row EXCEPT ![r].text = x]
  /\ chosen' = IF Mine(r) THEN [chosen EXCEPT ![r].text = x] ELSE chosen
  /\ UNCHANGED <<pending, object, favorites>>
retireLembraReference(r) ==
  /\ row' = [row EXCEPT ![r].status = "retired"]
  /\ UNCHANGED <<pending, object, favorites, chosen>>
setLembraFavorite(r, on) ==
  /\ favorites' = With(favorites, r, on)
  /\ UNCHANGED <<row, pending, object, chosen>>

Served(c) ==
  CASE c.kind = "request" -> UNCHANGED <<server, chosen>>
    [] c.kind = "finalize" -> finalizeLembraUploadAction(c)
    [] c.kind = "update" -> updateLembraReferenceMetadata(c.ref, c.text)
    [] c.kind = "retire" -> retireLembraReference(c.ref)
    [] c.kind = "favorite" -> setLembraFavorite(c.ref, c.on)
Servable(c) ==
  CASE c.kind = "request" -> TRUE
    [] c.kind = "finalize" -> Verified(c)
    [] OTHER -> Active(c.ref)

Serve ==
  /\ calls # <<>> /\ Head(calls).answer = "none"
  /\ LET c == Head(calls)
         Answer(a) == calls' = [calls EXCEPT ![1].answer = a]
     IN \/ /\ Servable(c) /\ Served(c)
           /\ \/ Answer("ok") /\ UNCHANGED faults
              \/ Answer("lost") /\ Fault
        \/ ~Servable(c) /\ Answer("refused") /\ UNCHANGED <<server, faults, chosen>>
        \/ NoIdentity /\ Answer("refused") /\ UNCHANGED <<server, chosen>>
  /\ UNCHANGED <<page, ops, doubtful>>

(* Another user edits the row or removes it. *)
Other(r) ==
  /\ Active(r) /\ Fault
  /\ (\E x \in Text \ {row[r].text} : updateLembraReferenceMetadata(r, x))
       \/ retireLembraReference(r)
  /\ UNCHANGED <<page, calls, ops, doubtful>>

(* The image of a card or of the viewer: readVerifiedLembraObject of an    *)
(* active row.                                                             *)
ImageFails(r) ==
  /\ Shown(r) /\ r \notin broken /\ ~(Active(r) /\ object[r] = row[r].file)
  /\ broken' = broken \cup {r}
  /\ UNCHANGED <<server, references, favoriteIds, filter, draft, viewer, saving, calls, ops,
                 faults, ghost>>

-----------------------------------------------------------------------------
(* What the page does with an answer. *)
Requested(c) ==
  /\ saving' = IF c.answer = "ok" THEN [saving EXCEPT !.phase = "sending"] ELSE Nil
  /\ UNCHANGED <<references, favoriteIds, filter, draft, viewer, doubtful>>

(* The draft that is closed is the one that is open then. *)
Finalized(c) ==
  /\ saving' = Nil
  /\ IF c.answer = "ok"
       THEN /\ references' = [references EXCEPT ![c.ref] = c.text]
            /\ filter' = [filter EXCEPT !.view = "all"]
            /\ draft' = Nil
       ELSE UNCHANGED <<references, filter, draft>>
  /\ UNCHANGED <<favoriteIds, doubtful>>
  /\ viewer' = Kept(viewer)

Updated(c) ==
  /\ saving' = Nil
  /\ references' = IF c.answer = "ok" /\ Shown(c.ref)
                     THEN [references EXCEPT ![c.ref] = c.text] ELSE references
  /\ UNCHANGED <<favoriteIds, filter, draft, doubtful>>
  /\ viewer' = Kept(IF c.answer = "ok" THEN [viewer EXCEPT !.typed = Nil] ELSE viewer)

Retired(c) ==
  /\ saving' = Nil
  /\ IF c.answer = "ok"
       THEN /\ references' = [references EXCEPT ![c.ref] = Nil]
            /\ favoriteIds' = favoriteIds \ {c.ref}
            /\ viewer' = Closed
       ELSE UNCHANGED <<references, favoriteIds, viewer>>
  /\ UNCHANGED <<filter, draft, doubtful>>

\* A defect: a heart whose change is refused stays as it was changed.
FavoredKept(c) ==
  UNCHANGED <<references, favoriteIds, filter, draft, viewer, saving, doubtful>>
Favored(c) ==
  /\ favoriteIds' = IF c.answer = "ok" THEN favoriteIds ELSE With(favoriteIds, c.ref, ~c.on)
  /\ doubtful' = IF c.answer = "lost" THEN doubtful \cup {c.ref} ELSE doubtful
  /\ UNCHANGED <<references, filter, draft, saving>>
  /\ viewer' = Kept(viewer)

Answered ==
  /\ calls # <<>> /\ Head(calls).answer # "none"
  /\ calls' = Tail(calls)
  /\ UNCHANGED <<server, broken, ops, faults, chosen>>
  /\ LET c == Head(calls)
     IN CASE c.kind = "request" -> Requested(c)
          [] c.kind = "finalize" -> Finalized(c)
          [] c.kind = "update" -> Updated(c)
          [] c.kind = "retire" -> Retired(c)
          [] c.kind = "favorite" -> Favored(c)

Done == ops = MaxOp /\ calls = <<>> /\ Idle /\ UNCHANGED vars

Next ==
  \/ User
  \/ SendPart \/ AskToFinalize \/ Serve \/ Answered \/ Done
  \/ \E r \in Ref : Other(r) \/ ImageFails(r)

Spec == Init /\ [][Next]_vars

-----------------------------------------------------------------------------
(* What a user saved is in the library as it was chosen: the bytes kept    *)
(* are the ones of the image, and the text is the one typed with it,       *)
(* whatever was pasted or dropped while it was being sent.                 *)
SavedAsChosen ==
  \A r \in Ref : row[r] # Nil /\ Mine(r) =>
    /\ inspectLembraImage(object[r]) /\ object[r] = chosen[r].file /\ row[r].file = chosen[r].file
    /\ row[r].text = chosen[r].text

(* A heart shows what is saved, once its call is answered: unless it was   *)
(* changed again before, its answer was lost, or the reference was removed.*)
FavoriteIsSaved ==
  \A r \in Ref \ doubtful : Shown(r) /\ Active(r) /\ ~Toggling(r) =>
    (r \in favoriteIds <=> r \in favorites)

=============================================================================

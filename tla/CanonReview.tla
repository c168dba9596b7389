---------------------------- MODULE CanonReview ----------------------------
(***************************************************************************)
(* The review of canon candidates: reviewers open the queue, look at the   *)
(* sources of a claim and register a decision, of which one alone makes    *)
(* canon.  A page is read in several steps and may be old when its form is *)
(* sent; the action asks for the reviewer's authority, and the database    *)
(* asks again and decides in one transaction.  An administrator gives and  *)
(* takes capabilities; answers are lost and forms are sent again.          *)
(***************************************************************************)
EXTENDS Naturals, Sequences, FiniteSets

CONSTANTS
  Reviewer,
  Candidate,
  Declared,   \* Declared[c]: the source rows a candidate names, in order
  Row,        \* the source rows that exist
  Transcript, \* the ones that are transcript segments (others are of Roll20)
  SessionOf,  \* the session of a candidate and of a source row
  Preview,    \* how many sources a page shows
  Granted,    \* the capabilities each reviewer has at first
  Triage,     \* the decisions that make no canon
  MaxOp,      \* forms sent
  MaxChange,  \* capabilities given or taken
  Nil

VARIABLES
  grants,     \* grants[r]: capabilities of reviewer r
  status,     \* canon_candidates.status
  canon,      \* the candidates with an entry in canon_entries
  decisions,  \* review_decisions, with their audit rows
  page,       \* page[r]: what r sees, or what was read of it so far; or Nil
  call,       \* call[r]: the form of r being handled, or Nil
  told,       \* what reviewers were told is registered
  ops, changes

vars == <<grants, status, canon, decisions, page, call, told, ops, changes>>
database == <<status, canon, decisions>>

Canon == "approved_canon"
Decision == Triage \cup {Canon}
Capability == {"read", "transcript", "manage", "approve"}
Named == UNION {{Declared[c][i] : i \in 1 .. Len(Declared[c])} : c \in Candidate}
Blank == [pc |-> "access", access |-> {}, queue |-> {}, shown |-> [c \in Candidate |-> {}],
          texts |-> {}]

TypeOK ==
  /\ grants \in [Reviewer -> SUBSET Capability]
  /\ status \in [Candidate -> Decision \cup {"candidate"}]
  /\ canon \subseteq Candidate
  /\ decisions \in Seq([candidate : Candidate, decision : Decision])
  /\ \A r \in Reviewer : page[r] # Nil =>
       /\ page[r].pc \in {"access", "candidates", "shown"}
       /\ page[r].access \subseteq Capability /\ page[r].queue \subseteq Candidate
       /\ page[r].shown \in [Candidate -> SUBSET Named] /\ page[r].texts \subseteq Named
  /\ \A r \in Reviewer : call[r] # Nil =>
       call[r] \in [candidate : Candidate, decision : Decision,
                    pc : {"action", "rpc", "done", "failed"}]
  /\ told \subseteq [candidate : Candidate, decision : Decision]
  /\ ops \in 0 .. MaxOp /\ changes \in 0 .. MaxChange

Init ==
  /\ grants = Granted
  /\ status = [c \in Candidate |-> "candidate"] /\ canon = {} /\ decisions = <<>>
  /\ page = [r \in Reviewer |-> Nil] /\ call = [r \in Reviewer |-> Nil]
  /\ told = {} /\ ops = 0 /\ changes = 0

-----------------------------------------------------------------------------
(* The page and loadCanonReviewQueue.                                      *)

(* requireCapability: without it there is no page. *)
Open(r) ==
  /\ "read" \in grants[r] /\ call[r] = Nil
  /\ page[r] # Nil => page[r].pc = "shown"
  /\ page' = [page EXCEPT ![r] = Blank]
  /\ UNCHANGED <<grants, database, call, told, ops, changes>>

(* What the reader may do and see is asked once, before anything is read.  *)
LoadAccess(r) ==
  /\ page[r] # Nil /\ page[r].pc = "access"
  /\ page' = [page EXCEPT ![r] =
                IF "read" \in grants[r]
                  THEN [@ EXCEPT !.pc = "candidates", !.access = grants[r]]
                  ELSE Nil]
  /\ UNCHANGED <<grants, database, call, told, ops, changes>>

(* candidatePreviewIds: segments first, then events, up to a number.       *)
Segments(c) == SelectSeq(Declared[c], LAMBDA x : x \in Transcript)
Events(c) == SelectSeq(Declared[c], LAMBDA x : x \notin Transcript)
previewIds(c) ==
  LET ids == Segments(c) \o Events(c)
  IN {ids[i] : i \in 1 .. (IF Len(ids) < Preview THEN Len(ids) ELSE Preview)}

(* A row that exists in a session of the campaign is shown, its text only  *)
(* to who may read transcripts; an event's never.                          *)
LoadQueue(r) ==
  /\ page[r] # Nil /\ page[r].pc = "candidates"
  /\ LET queue == {c \in Candidate : status[c] = "candidate"}
         shown == [c \in Candidate |-> IF c \in queue THEN previewIds(c) \cap Row ELSE {}]
     IN page' = [page EXCEPT ![r] =
          [@ EXCEPT !.pc = "shown", !.queue = queue, !.shown = shown,
                    !.texts = IF "transcript" \in page[r].access
                                THEN UNION {shown[c] : c \in queue} \cap Transcript
                                ELSE {}]]
  /\ UNCHANGED <<grants, database, call, told, ops, changes>>

(* "Fila indisponível": a page without a form is as good as none. *)
LoadFails(r) ==
  /\ page[r] # Nil /\ page[r].pc \in {"access", "candidates"}
  /\ page' = [page EXCEPT ![r] = Nil]
  /\ UNCHANGED <<grants, database, call, told, ops, changes>>

-----------------------------------------------------------------------------
(* reviewCanonCandidateFormAction                                          *)
Needs(decision) == IF decision = Canon THEN "approve" ELSE "manage"

(* The page offers the decisions its reader could make when it was read.   *)
Submit(r) ==
  /\ page[r] # Nil /\ page[r].pc = "shown" /\ call[r] = Nil
  /\ ops < MaxOp /\ ops' = ops + 1
  /\ \E c \in page[r].queue, d \in Decision :
       /\ Needs(d) \in page[r].access
       /\ call' = [call EXCEPT ![r] = [candidate |-> c, decision |-> d, pc |-> "action"]]
  /\ UNCHANGED <<grants, database, page, told, changes>>

Action(r) ==
  /\ call[r] # Nil /\ call[r].pc = "action"
  /\ call' = [call EXCEPT ![r].pc =
                IF Needs(call[r].decision) \in grants[r] THEN "rpc" ELSE "failed"]
  /\ UNCHANGED <<grants, database, page, told, ops, changes>>

(* The source gate: a row that exists, of the candidate's own session.     *)
HasSource(c) ==
  \E i \in 1 .. Len(Declared[c]) :
    Declared[c][i] \in Row /\ SessionOf[Declared[c][i]] = SessionOf[c]

Registered(c, d) ==
  \E i \in 1 .. Len(decisions) : decisions[i].candidate = c /\ decisions[i].decision = d

(* What both transactions write: the status, the decision and its audit.   *)
Register(c, d) ==
  /\ status' = [status EXCEPT ![c] = d]
  /\ decisions' = Append(decisions, [candidate |-> c, decision |-> d])
  /\ canon' = IF d = Canon THEN canon \cup {c} ELSE canon

(* What is undecided; approval asks for a source as well.                  *)
(* Mutant: a triage looks at whether it was made before, no further.       *)
UndecidedByThis(c, d) ==
  IF d = Canon THEN c \notin canon /\ status[c] = "candidate" /\ HasSource(c)
  ELSE status[c] # d
Undecided(c, d) ==
  status[c] = "candidate" /\ (d = Canon => c \notin canon /\ HasSource(c))
Repeated(c, d) ==
  IF d = Canon THEN c \in canon /\ status[c] = Canon
  ELSE status[c] = d /\ Registered(c, d)

(* approve_canon_candidate_atomic, review_canon_candidate_atomic: the      *)
(* authority is asked for again, the candidate's row is locked.            *)
Rpc(r) ==
  /\ call[r] # Nil /\ call[r].pc = "rpc"
  /\ LET c == call[r].candidate  d == call[r].decision
         allowed == Needs(d) \in grants[r] IN
     \/ /\ allowed /\ Undecided(c, d)
        /\ Register(c, d) /\ call' = [call EXCEPT ![r].pc = "done"]
     \/ /\ allowed /\ ~ Undecided(c, d) /\ Repeated(c, d)
        /\ call' = [call EXCEPT ![r].pc = "done"] /\ UNCHANGED database
     \/ /\ ~ allowed \/ (~ Undecided(c, d) /\ ~ Repeated(c, d))
        /\ call' = [call EXCEPT ![r].pc = "failed"] /\ UNCHANGED database
  /\ UNCHANGED <<grants, page, told, ops, changes>>

(* reviewRedirect: the reviewer is told and gets the page anew.            *)
Answer(r) ==
  /\ call[r] # Nil /\ call[r].pc \in {"done", "failed"}
  /\ told' = IF call[r].pc = "failed" THEN told
             ELSE told \cup {[candidate |-> call[r].candidate,
                              decision |-> call[r].decision]}
  /\ call' = [call EXCEPT ![r] = Nil]
  /\ page' = [page EXCEPT ![r] = IF "read" \in grants[r] THEN Blank ELSE Nil]
  /\ UNCHANGED <<grants, database, ops, changes>>

(* The form, the call of the database, or the answer is lost: the page     *)
(* stays, and its form may be sent again.                                  *)
Lose(r) ==
  /\ call[r] # Nil /\ call' = [call EXCEPT ![r] = Nil]
  /\ UNCHANGED <<grants, database, page, told, ops, changes>>

(* An administrator gives or takes a capability. *)
Change(r) ==
  /\ changes < MaxChange /\ changes' = changes + 1
  /\ \E x \in Capability :
       grants' = [grants EXCEPT ![r] = IF x \in @ THEN @ \ {x} ELSE @ \cup {x}]
  /\ UNCHANGED <<database, page, call, told, ops>>

Next == \E r \in Reviewer :
  \/ Open(r) \/ LoadAccess(r) \/ LoadQueue(r) \/ LoadFails(r)
  \/ Submit(r) \/ Action(r) \/ Rpc(r) \/ Answer(r) \/ Lose(r) \/ Change(r)
Spec == Init /\ [][Next]_vars

-----------------------------------------------------------------------------
(* However many reviewers decide from old pages and send again, a          *)
(* candidate is decided once: its status, its one registered decision and  *)
(* its canon entry say the same (the two atomic functions).                *)
DecidedOnce ==
  \A c \in Candidate :
    LET of == {i \in 1 .. Len(decisions) : decisions[i].candidate = c} IN
    /\ Cardinality(of) = IF status[c] = "candidate" THEN 0 ELSE 1
    /\ \A i \in of : decisions[i].decision = status[c]
    /\ c \in canon <=> status[c] = Canon

(* What a reviewer was told is registered is what stands, from whatever    *)
(* page it was decided and however often it was sent.                      *)
ToldIsRegistered ==
  \A t \in told : status[t.candidate] = t.decision /\ Registered(t.candidate, t.decision)

(* "Nothing becomes canon without source": one that is there, and of the   *)
(* session of the claim.                                                   *)
CanonIsSourced ==
  \A c \in canon : \E x \in Row \cap Named :
    SessionOf[x] = SessionOf[c] /\ \E i \in 1 .. Len(Declared[c]) : Declared[c][i] = x
=============================================================================

---------------------------- MODULE ReviewProofs ----------------------------
(***************************************************************************)
(* Proofs about the components in which people review and edit what others *)
(* read.  They share no state: each theorem is about one of them, for any  *)
(* values of its constants.                                                *)
(***************************************************************************)
EXTENDS Integers, Sequences, FiniteSets, FiniteSetTheorems, TLAPS

CONSTANT Nil

-----------------------------------------------------------------------------
(* CanonReview *)
CONSTANTS Reviewer, Candidate, Declared, Row, Transcript, SessionOf, Preview, Granted,
  Triage, MaxForm, MaxChange
VARIABLES grants, status, canon, decisions, page, call, told, forms, changes

Canon == INSTANCE CanonReview WITH MaxOp <- MaxForm, ops <- forms

(* A candidate that waits is no decision. *)
CanonInstance ==
  /\ "candidate" \notin Triage
  /\ Granted \in [Reviewer -> SUBSET Canon!Capability]
  /\ MaxForm \in Nat /\ MaxChange \in Nat

CallTyped ==
  \A r \in Reviewer : call[r] # Nil =>
    call[r] \in [candidate : Candidate, decision : Canon!Decision,
                 pc : {"action", "rpc", "done", "failed"}]

RegisterTyped ==
  /\ DOMAIN call = Reviewer /\ CallTyped
  /\ status \in [Candidate -> Canon!Decision \cup {"candidate"}]
  /\ canon \subseteq Candidate
  /\ decisions \in Seq([candidate : Candidate, decision : Canon!Decision])
  /\ told \subseteq [candidate : Candidate, decision : Canon!Decision]

(* What is registered of a candidate: nothing while it waits, one decision *)
(* ever after.                                                             *)
Once ==
  \A c \in Candidate :
    /\ \A i \in DOMAIN decisions : decisions[i].candidate = c =>
         /\ decisions[i].decision = status[c] /\ status[c] # "candidate"
         /\ \A k \in DOMAIN decisions : decisions[k].candidate = c => k = i
    /\ status[c] # "candidate" => \E i \in DOMAIN decisions : decisions[i].candidate = c
    /\ c \in canon <=> status[c] = Canon!Canon

(* A call that the database has answered says what stands. *)
Stands(c, d) == status[c] = d /\ Canon!Registered(c, d)
DoneStands ==
  \A r \in Reviewer : call[r] # Nil /\ call[r].pc = "done" =>
    Stands(call[r].candidate, call[r].decision)

(* What a page has read, but for the sources it shows. *)
Read(p) ==
  /\ p.pc \in {"access", "candidates", "shown"}
  /\ p.access \subseteq Canon!Capability /\ p.queue \subseteq Candidate
PagesTyped ==
  /\ DOMAIN page = Reviewer /\ \A r \in Reviewer : page[r] # Nil => Read(page[r])
  /\ grants \in [Reviewer -> SUBSET Canon!Capability]
  /\ forms \in 0 .. MaxForm /\ changes \in 0 .. MaxChange

CanonInv ==
  RegisterTyped /\ PagesTyped /\ Once /\ DoneStands /\ Canon!ToldIsRegistered /\ Canon!CanonIsSourced

\* The database answers for one candidate, and what was decided stays.
LEMMA RegisterKeeps ==
  ASSUME CanonInstance, RegisterTyped, Once, Canon!CanonIsSourced,
         NEW c \in Candidate, NEW d \in Canon!Decision,
         Canon!Undecided(c, d), Canon!Register(c, d)
  PROVE  /\ status' \in [Candidate -> Canon!Decision \cup {"candidate"}]
         /\ canon' \subseteq Candidate
         /\ decisions' \in Seq([candidate : Candidate, decision : Canon!Decision])
         /\ Once' /\ Canon!CanonIsSourced'
         /\ Stands(c, d)'
         /\ \A x \in Candidate, y \in Canon!Decision : Stands(x, y) => Stands(x, y)'
<1>1. /\ status' = [status EXCEPT ![c] = d]
      /\ decisions' = Append(decisions, [candidate |-> c, decision |-> d])
      /\ canon' = IF d = Canon!Canon THEN canon \cup {c} ELSE canon
      /\ status[c] = "candidate"
  BY DEF Canon!Register, Canon!Undecided
<1>2. d # "candidate" /\ Canon!Canon # "candidate"
  BY DEF CanonInstance, Canon!Decision, Canon!Canon
<1>3. status' \in [Candidate -> Canon!Decision \cup {"candidate"}]
  BY <1>1 DEF RegisterTyped
<1>4. canon' \subseteq Candidate
  BY <1>1 DEF RegisterTyped
<1>5. /\ decisions' \in Seq([candidate : Candidate, decision : Canon!Decision])
      /\ Len(decisions') = Len(decisions) + 1 /\ Len(decisions) \in Nat
      /\ \A i \in 1 .. Len(decisions) : decisions'[i] = decisions[i]
      /\ decisions'[Len(decisions) + 1] = [candidate |-> c, decision |-> d]
  <2> [candidate |-> c, decision |-> d] \in [candidate : Candidate, decision : Canon!Decision]
    OBVIOUS
  <2> HIDE DEF Canon!Decision
  <2> QED BY <1>1 DEF RegisterTyped
<1>6. DOMAIN decisions = 1 .. Len(decisions) /\ DOMAIN decisions' = 1 .. Len(decisions) + 1
  BY <1>5 DEF RegisterTyped
<1>7. \A x \in Candidate : status'[x] = IF x = c THEN d ELSE status[x]
  BY <1>1 DEF RegisterTyped
<1>8. \A i \in DOMAIN decisions : decisions[i].candidate # c
  BY <1>1 DEF Once
<1>9. Once'
  <2> SUFFICES ASSUME NEW x \in Candidate
               PROVE  /\ \A i \in DOMAIN decisions' : decisions'[i].candidate = x =>
                           /\ decisions'[i].decision = status'[x] /\ status'[x] # "candidate"
                           /\ \A k \in DOMAIN decisions' : decisions'[k].candidate = x => k = i
                      /\ status'[x] # "candidate" =>
                           \E i \in DOMAIN decisions' : decisions'[i].candidate = x
                      /\ x \in canon' <=> status'[x] = Canon!Canon
    BY DEF Once
  <2>1. CASE x = c
    <3>1. \A i \in DOMAIN decisions' : decisions'[i].candidate = c <=> i = Len(decisions) + 1
      BY <1>5, <1>6, <1>8
    <3>2. c \notin canon
      BY <1>1, <1>2 DEF Once
    <3> QED BY <2>1, <3>1, <3>2, <1>1, <1>2, <1>5, <1>6, <1>7
  <2>2. CASE x # c
    <3>1. \A i \in DOMAIN decisions' : decisions'[i].candidate = x =>
            i \in DOMAIN decisions /\ decisions'[i] = decisions[i]
      BY <2>2, <1>5, <1>6
    <3>2. \A i \in DOMAIN decisions : i \in DOMAIN decisions' /\ decisions'[i] = decisions[i]
      BY <1>5, <1>6
    <3> QED BY <2>2, <3>1, <3>2, <1>1, <1>7 DEF Once
  <2> QED BY <2>1, <2>2
<1>10. Canon!CanonIsSourced'
  <2>1. d = Canon!Canon => Canon!HasSource(c)
    BY DEF Canon!Undecided
  <2>2. Canon!HasSource(c) => \E x \in Row \cap Canon!Named :
          SessionOf[x] = SessionOf[c] /\ \E i \in 1 .. Len(Declared[c]) : Declared[c][i] = x
    BY DEF Canon!HasSource, Canon!Named
  <2> QED BY <1>1, <2>1, <2>2 DEF Canon!CanonIsSourced
<1>11. Stands(c, d)'
  BY <1>5, <1>7 DEF Stands, Canon!Registered
<1>12. \A x \in Candidate, y \in Canon!Decision : Stands(x, y) => Stands(x, y)'
  <2> SUFFICES ASSUME NEW x \in Candidate, NEW y \in Canon!Decision, Stands(x, y)
               PROVE  Stands(x, y)'
    OBVIOUS
  <2>1. PICK i \in 1 .. Len(decisions) : decisions[i].candidate = x /\ decisions[i].decision = y
    BY DEF Stands, Canon!Registered
  <2>2. x # c
    BY <1>6, <1>8, <2>1
  <2>3. i \in 1 .. Len(decisions') /\ decisions'[i] = decisions[i]
    BY <1>5
  <2> QED BY <2>1, <2>2, <2>3, <1>7 DEF Stands, Canon!Registered
<1> QED BY <1>3, <1>4, <1>5, <1>9, <1>10, <1>11, <1>12

\* The empty register satisfies the invariant.
LEMMA CanonInit == ASSUME CanonInstance PROVE Canon!Init => CanonInv
BY DEF CanonInstance, Canon!Init, CanonInv, RegisterTyped, PagesTyped, CallTyped, Once,
  DoneStands,
       Canon!ToldIsRegistered, Canon!CanonIsSourced, Canon!Decision, Canon!Canon

\* A step of a page or of an administrator leaves the register alone.
LEMMA RegisterStill ==
  ASSUME CanonInv, PagesTyped', UNCHANGED <<status, canon, decisions, told, call>>
  PROVE  CanonInv'
BY DEF CanonInv, RegisterTyped, CallTyped, DoneStands, Stands, Once, Canon!ToldIsRegistered,
       Canon!Registered, Canon!CanonIsSourced

\* One page is read on, or left.
LEMMA PageStep ==
  ASSUME CanonInv, NEW r \in Reviewer, NEW p, p = Nil \/ Read(p),
         page' = [page EXCEPT ![r] = p], UNCHANGED <<grants, forms, changes>>
  PROVE  PagesTyped'
<1>1. DOMAIN page' = Reviewer
  BY DEF CanonInv, PagesTyped
<1>2. \A s \in Reviewer : page'[s] = IF s = r THEN p ELSE page[s]
  BY DEF CanonInv, PagesTyped
<1>3. \A s \in Reviewer : page[s] # Nil => Read(page[s])
  BY DEF CanonInv, PagesTyped
<1>4. \A s \in Reviewer : page'[s] # Nil => Read(page'[s])
  BY <1>2, <1>3
<1>5. \A s \in Reviewer : page'[s] # Nil => Read(page[s])'
  BY <1>4 DEF Read
<1> QED BY <1>1, <1>5 DEF CanonInv, PagesTyped

LEMMA BlankIsRead == Read(Canon!Blank)
BY DEF Read, Canon!Blank

\* Whoever acts, the invariant is kept.
LEMMA CanonStep ==
  ASSUME CanonInstance, CanonInv, [Canon!Next]_(Canon!vars) PROVE CanonInv'
<1>p. ASSUME NEW r \in Reviewer, page[r] # Nil PROVE Read(page[r])
  BY <1>p DEF CanonInv, PagesTyped
<1>1. ASSUME NEW r \in Reviewer, Canon!Open(r) PROVE CanonInv'
  BY <1>1, PageStep, BlankIsRead, RegisterStill DEF Canon!Open, Canon!database
<1>2. ASSUME NEW r \in Reviewer, Canon!LoadAccess(r) PROVE CanonInv'
  <2>1. Read([page[r] EXCEPT !.pc = "candidates", !.access = grants[r]])
    BY <1>2, <1>p DEF Read, CanonInv, PagesTyped, Canon!LoadAccess
  <2> QED BY <1>2, <2>1, PageStep, RegisterStill DEF Canon!LoadAccess, Canon!database
<1>3. ASSUME NEW r \in Reviewer, Canon!LoadQueue(r) PROVE CanonInv'
  <2>1. PICK w, x :
          page' = [page EXCEPT ![r] =
                     [page[r] EXCEPT !.pc = "shown", !.queue = {c \in Candidate : status[c] = "candidate"},
                                     !.shown = w, !.texts = x]]
    BY <1>3 DEF Canon!LoadQueue
  <2>2. Read([page[r] EXCEPT !.pc = "shown", !.queue = {c \in Candidate : status[c] = "candidate"},
                             !.shown = w, !.texts = x])
    BY <1>3, <1>p DEF Read, Canon!LoadQueue
  <2>3. UNCHANGED <<grants, forms, changes, status, canon, decisions, told, call>>
    BY <1>3 DEF Canon!LoadQueue, Canon!database
  <2> QED BY <2>1, <2>2, <2>3, PageStep, RegisterStill
<1>4. ASSUME NEW r \in Reviewer, Canon!LoadFails(r) PROVE CanonInv'
  BY <1>4, PageStep, RegisterStill DEF Canon!LoadFails, Canon!database
<1>5. ASSUME NEW r \in Reviewer, Canon!Submit(r) PROVE CanonInv'
  <2>1. PICK c \in page[r].queue, d \in Canon!Decision :
          call' = [call EXCEPT ![r] = [candidate |-> c, decision |-> d, pc |-> "action"]]
    BY <1>5 DEF Canon!Submit
  <2>2. c \in Candidate
    BY <1>5, <1>p DEF Canon!Submit, Read
  <2>3. /\ UNCHANGED <<grants, status, canon, decisions, page, told, changes>>
        /\ forms' \in 0 .. MaxForm
    BY <1>5 DEF Canon!Submit, Canon!database, CanonInv, PagesTyped, CanonInstance
  <2>4. PagesTyped'
    BY <2>3 DEF CanonInv, PagesTyped, Read
  <2>5. RegisterTyped' /\ DoneStands'
    BY <2>1, <2>2, <2>3 DEF CanonInv, RegisterTyped, CallTyped, DoneStands, Stands,
      Canon!Registered
  <2> QED BY <2>3, <2>4, <2>5 DEF CanonInv, Once, Canon!ToldIsRegistered, Canon!Registered,
    Canon!CanonIsSourced
<1>6. ASSUME NEW r \in Reviewer, NEW z, call' = [call EXCEPT ![r] = z],
             z = Nil \/ (z \in [candidate : Candidate, decision : Canon!Decision,
                                pc : {"action", "rpc", "done", "failed"}]
                         /\ (z.pc = "done" => Stands(z.candidate, z.decision)')),
             \A x \in Candidate, y \in Canon!Decision : Stands(x, y) => Stands(x, y)'
      PROVE  DOMAIN call' = Reviewer /\ CallTyped' /\ DoneStands'
  <2>1. DOMAIN call' = Reviewer /\ \A s \in Reviewer : call'[s] = IF s = r THEN z ELSE call[s]
    BY <1>6 DEF CanonInv, RegisterTyped
  <2>2. CallTyped'
    BY <1>6, <2>1 DEF CanonInv, RegisterTyped, CallTyped
  <2>3. ASSUME NEW s \in Reviewer, call'[s] # Nil, call'[s].pc = "done"
        PROVE  Stands(call[s].candidate, call[s].decision)'
    <3>1. CASE s = r
      BY <1>6, <2>1, <2>3, <3>1 DEF Stands
    <3>2. CASE s # r
      <4>1. call'[s] = call[s] /\ call[s].candidate \in Candidate /\ call[s].decision \in Canon!Decision
        BY <2>1, <2>3, <3>2 DEF CanonInv, RegisterTyped, CallTyped
      <4>2. Stands(call[s].candidate, call[s].decision)
        BY <2>3, <4>1 DEF CanonInv, DoneStands
      <4>3. \A x, y : Stands(x, y)' <=> (status'[x] = y /\ Canon!Registered(x, y)')
        BY DEF Stands
      <4>4. status'[call[s].candidate] = call[s].decision
            /\ \E i \in 1 .. Len(decisions') : decisions'[i].candidate = call[s].candidate
                                               /\ decisions'[i].decision = call[s].decision
        BY <1>6, <4>1, <4>2 DEF Stands, Canon!Registered
      <4> QED BY <4>1, <4>4 DEF Stands, Canon!Registered
    <3> QED BY <3>1, <3>2
  <2>4. DoneStands'
    BY <2>3 DEF DoneStands
  <2> QED BY <2>1, <2>2, <2>4
<1>t. ASSUME NEW r \in Reviewer, call[r] # Nil
      PROVE  call[r] \in [candidate : Candidate, decision : Canon!Decision,
                          pc : {"action", "rpc", "done", "failed"}]
  BY <1>t DEF CanonInv, RegisterTyped, CallTyped
<1>7. ASSUME NEW r \in Reviewer, Canon!Rpc(r) PROVE CanonInv'
  <2>0. PICK c \in Candidate, d \in Canon!Decision : c = call[r].candidate /\ d = call[r].decision
    BY <1>7, <1>t DEF Canon!Rpc
  <2>1. call[r] # Nil /\ UNCHANGED <<grants, page, told, forms, changes>>
    BY <1>7 DEF Canon!Rpc
  <2>2. PagesTyped'
    BY <2>1 DEF CanonInv, PagesTyped, Read
  <2>3. CASE Canon!Undecided(c, d) /\ Canon!Register(c, d) /\ call' = [call EXCEPT ![r].pc = "done"]
    <3>1. /\ status' \in [Candidate -> Canon!Decision \cup {"candidate"}]
          /\ canon' \subseteq Candidate
          /\ decisions' \in Seq([candidate : Candidate, decision : Canon!Decision])
          /\ Once' /\ Canon!CanonIsSourced'
          /\ status'[c] = d /\ Canon!Registered(c, d)'
          /\ \A x \in Candidate, y \in Canon!Decision : Stands(x, y) => Stands(x, y)'
      BY <2>3, RegisterKeeps DEF CanonInv, Stands
    <3>2. PICK z : z = [call[r] EXCEPT !.pc = "done"]
      OBVIOUS
    <3>3. /\ z \in [candidate : Candidate, decision : Canon!Decision,
                    pc : {"action", "rpc", "done", "failed"}]
          /\ z.candidate = c /\ z.decision = d /\ call' = [call EXCEPT ![r] = z]
      BY <2>0, <2>1, <2>3, <3>2, <1>t
    <3>4. Stands(z.candidate, z.decision)'
      BY <3>1, <3>3 DEF Stands, Canon!Registered
    <3>5. DOMAIN call' = Reviewer /\ CallTyped' /\ DoneStands'
      BY <1>6, <3>1, <3>3, <3>4
    <3>6. Canon!ToldIsRegistered'
      BY <2>1, <3>1 DEF CanonInv, RegisterTyped, Canon!ToldIsRegistered, Stands
    <3>7. RegisterTyped'
      BY <2>1, <3>1, <3>5 DEF CanonInv, RegisterTyped
    <3> QED BY <2>2, <3>1, <3>5, <3>6, <3>7 DEF CanonInv
  <2>4. CASE \/ ~ Canon!Undecided(c, d) /\ Canon!Repeated(c, d) /\ call' = [call EXCEPT ![r].pc = "done"]
                /\ UNCHANGED Canon!database
             \/ call' = [call EXCEPT ![r].pc = "failed"] /\ UNCHANGED Canon!database
    <3>1. UNCHANGED <<status, canon, decisions, told>>
      BY <2>1, <2>4 DEF Canon!database
    <3>2. Canon!Repeated(c, d) => Stands(c, d)
      <4>1. ASSUME d = Canon!Canon, c \in canon, status[c] = Canon!Canon PROVE Canon!Registered(c, d)
        BY <2>1, <4>1 DEF CanonInv, Once, Canon!Registered, RegisterTyped, CanonInstance,
          Canon!Canon
      <4> QED BY <4>1 DEF Canon!Repeated, Stands
    <3>3. PICK z : /\ \/ z = [call[r] EXCEPT !.pc = "done"] /\ Stands(c, d)
                      \/ z = [call[r] EXCEPT !.pc = "failed"]
                   /\ call' = [call EXCEPT ![r] = z]
      BY <2>4, <3>2
    <3>4. /\ z \in [candidate : Candidate, decision : Canon!Decision,
                    pc : {"action", "rpc", "done", "failed"}]
          /\ z.candidate = c /\ z.decision = d /\ (z.pc = "done" => Stands(c, d))
      BY <2>0, <2>1, <3>3, <1>t
    <3>5. z.pc = "done" => Stands(z.candidate, z.decision)'
      BY <3>1, <3>4 DEF Stands, Canon!Registered
    <3>6. \A x \in Candidate, y \in Canon!Decision : Stands(x, y) => Stands(x, y)'
      BY <3>1 DEF Stands, Canon!Registered
    <3>7. DOMAIN call' = Reviewer /\ CallTyped' /\ DoneStands'
      BY <1>6, <3>3, <3>4, <3>5, <3>6
    <3> QED BY <2>2, <3>1, <3>7 DEF CanonInv, RegisterTyped, Once, Canon!ToldIsRegistered,
                                    Canon!Registered, Canon!CanonIsSourced
  <2> QED BY <1>7, <2>0, <2>3, <2>4 DEF Canon!Rpc
<1>8. ASSUME NEW r \in Reviewer, Canon!Answer(r) PROVE CanonInv'
  <2>1. /\ call[r] # Nil /\ call' = [call EXCEPT ![r] = Nil]
        /\ UNCHANGED <<grants, status, canon, decisions, forms, changes>>
    BY <1>8 DEF Canon!Answer, Canon!database
  <2>2. \A x \in Candidate, y \in Canon!Decision : Stands(x, y) => Stands(x, y)'
    BY <2>1 DEF Stands, Canon!Registered
  <2>3. DOMAIN call' = Reviewer /\ CallTyped' /\ DoneStands'
    BY <1>6, <2>1, <2>2
  <2>4. \A t \in told' : t \in [candidate : Candidate, decision : Canon!Decision]
                         /\ Stands(t.candidate, t.decision)
    <3>1. \A t \in told : t \in [candidate : Candidate, decision : Canon!Decision]
                          /\ Stands(t.candidate, t.decision)
      BY DEF CanonInv, RegisterTyped, Canon!ToldIsRegistered, Stands
    <3>2. CASE call[r].pc = "failed"
      BY <1>8, <3>1, <3>2 DEF Canon!Answer
    <3>3. CASE call[r].pc = "done"
      <4>1. Stands(call[r].candidate, call[r].decision)
        BY <2>1, <3>3 DEF CanonInv, DoneStands
      <4>2. told' = told \cup {[candidate |-> call[r].candidate, decision |-> call[r].decision]}
        BY <1>8, <3>3 DEF Canon!Answer
      <4> QED BY <2>1, <3>1, <4>1, <4>2, <1>t
    <3> QED BY <1>8, <3>2, <3>3 DEF Canon!Answer
  <2>5. Canon!ToldIsRegistered'
    BY <2>1, <2>4 DEF Canon!ToldIsRegistered, Stands, Canon!Registered
  <2>6. PagesTyped'
    BY <1>8, <2>1, PageStep, BlankIsRead DEF Canon!Answer
  <2>7. RegisterTyped'
    BY <2>1, <2>3, <2>4 DEF CanonInv, RegisterTyped
  <2> QED BY <2>1, <2>3, <2>5, <2>6, <2>7 DEF CanonInv, Once, Canon!Registered,
    Canon!CanonIsSourced
<1>9. ASSUME NEW r \in Reviewer, NEW z, call' = [call EXCEPT ![r] = z],
             UNCHANGED <<grants, Canon!database, page, told, forms, changes>>,
             z = Nil \/ (z \in [candidate : Candidate, decision : Canon!Decision,
                                pc : {"action", "rpc", "done", "failed"}] /\ z.pc # "done")
      PROVE  CanonInv'
  <2>1. UNCHANGED <<status, canon, decisions, told>> /\ PagesTyped'
    BY <1>9 DEF Canon!database, CanonInv, PagesTyped, Read
  <2>2. \A x \in Candidate, y \in Canon!Decision : Stands(x, y) => Stands(x, y)'
    BY <2>1 DEF Stands, Canon!Registered
  <2>3. DOMAIN call' = Reviewer /\ CallTyped' /\ DoneStands'
    BY <1>6, <1>9, <2>2
  <2> QED BY <2>1, <2>3 DEF CanonInv, RegisterTyped, Once, Canon!ToldIsRegistered,
                            Canon!Registered, Canon!CanonIsSourced
<1>10. ASSUME NEW r \in Reviewer, Canon!Action(r) PROVE CanonInv'
  <2>1. PICK z : /\ z = [call[r] EXCEPT !.pc = "rpc"] \/ z = [call[r] EXCEPT !.pc = "failed"]
                 /\ call' = [call EXCEPT ![r] = z]
    BY <1>10 DEF Canon!Action
  <2>2. call[r] # Nil /\ UNCHANGED <<grants, Canon!database, page, told, forms, changes>>
    BY <1>10 DEF Canon!Action
  <2>3. z \in [candidate : Candidate, decision : Canon!Decision,
               pc : {"action", "rpc", "done", "failed"}] /\ z.pc # "done"
    BY <2>1, <2>2, <1>t
  <2> QED BY <1>9, <2>1, <2>2, <2>3
<1>11. ASSUME NEW r \in Reviewer, Canon!Lose(r) PROVE CanonInv'
  BY <1>9, <1>11 DEF Canon!Lose
<1>12. ASSUME NEW r \in Reviewer, Canon!Change(r) PROVE CanonInv'
  <2>1. PagesTyped' /\ UNCHANGED <<status, canon, decisions, told, call>>
    BY <1>12 DEF Canon!Change, Canon!database, CanonInv, PagesTyped, CanonInstance, Read
  <2> QED BY <2>1, RegisterStill
<1>13. CASE UNCHANGED Canon!vars
  <2>1. PagesTyped' /\ UNCHANGED <<status, canon, decisions, told, call>>
    BY <1>13 DEF Canon!vars, CanonInv, PagesTyped, Read
  <2> QED BY <2>1, RegisterStill
<1> QED BY <1>1, <1>2, <1>3, <1>4, <1>5, <1>7, <1>8, <1>10, <1>11, <1>12, <1>13 DEF Canon!Next

\* The register and what its readers believe of it, whatever they do.
THEOREM CanonInvariant == ASSUME CanonInstance PROVE Canon!Spec => []CanonInv
<1>1. Canon!Init => CanonInv
  BY CanonInit
<1>2. CanonInv /\ [Canon!Next]_(Canon!vars) => CanonInv'
  BY CanonStep
<1> QED BY <1>1, <1>2, PTL DEF Canon!Spec

(* However many reviewers decide, from whatever pages and however often, a *)
(* candidate has one registered decision, its status, and its canon entry  *)
(* if that is an approval.                                                 *)
THEOREM CanonDecidedOnce == ASSUME CanonInstance PROVE Canon!Spec => []Canon!DecidedOnce
<1>1. CanonInv => Canon!DecidedOnce
  <2>1. ASSUME CanonInv, NEW c \in Candidate
        PROVE  /\ Cardinality({i \in 1 .. Len(decisions) : decisions[i].candidate = c})
                    = IF status[c] = "candidate" THEN 0 ELSE 1
               /\ \A i \in {i \in 1 .. Len(decisions) : decisions[i].candidate = c} :
                    decisions[i].decision = status[c]
               /\ c \in canon <=> status[c] = Canon!Canon
    <3>1. PICK of : of = {i \in 1 .. Len(decisions) : decisions[i].candidate = c}
      OBVIOUS
    <3>2. DOMAIN decisions = 1 .. Len(decisions)
      BY <2>1 DEF CanonInv, RegisterTyped
    <3>3. /\ \A i \in of : decisions[i].decision = status[c] /\ status[c] # "candidate" /\ of = {i}
          /\ status[c] # "candidate" => of # {}
          /\ c \in canon <=> status[c] = Canon!Canon
      BY <2>1, <3>1, <3>2 DEF CanonInv, Once
    <3>4. CASE of = {}
      BY <3>1, <3>3, <3>4, FS_EmptySet
    <3>5. CASE of # {}
      <4>1. PICK i \in of : of = {i}
        BY <3>3, <3>5
      <4>2. Cardinality(of) = 1 /\ status[c] # "candidate"
        BY <3>3, <4>1, FS_Singleton
      <4> QED BY <3>1, <3>3, <4>2
    <3> QED BY <3>4, <3>5
  <2>2. \A S : Canon!Cardinality(S) = Cardinality(S)
    BY DEF Canon!Cardinality, Cardinality
  <2> QED BY <2>1, <2>2, Zenon DEF Canon!DecidedOnce
<1> QED BY <1>1, CanonInvariant, PTL

(* What a reviewer was told is registered stays registered, and stands.    *)
THEOREM CanonToldStands == ASSUME CanonInstance PROVE Canon!Spec => []Canon!ToldIsRegistered
<1>1. CanonInv => Canon!ToldIsRegistered
  BY DEF CanonInv
<1> QED BY <1>1, CanonInvariant, PTL

(* Every canon entry has a source that exists, of the session of its claim. *)
THEOREM CanonHasSource == ASSUME CanonInstance PROVE Canon!Spec => []Canon!CanonIsSourced
<1>1. CanonInv => Canon!CanonIsSourced
  BY DEF CanonInv
<1> QED BY <1>1, CanonInvariant, PTL

-----------------------------------------------------------------------------
(* GlobalLoading *)
CONSTANTS Component, Event, Element, Quiet
VARIABLES mounted, tokens, phase, showTimer, hideTimer, waiting, busy, changed, sent

Loading == INSTANCE GlobalLoading

(* The tokens of the page's own bridges are nobody else's, and the overlay *)
(* is no element of the page.                                              *)
LoadingInstance ==
  /\ "observer" \notin Component \cup Event /\ "form" \notin Component \cup Event
  /\ "overlay" \notin Element

LoadingInv == Loading!TypeOK /\ Loading!CoveredWhileWaiting /\ Loading!TokensHaveOwners

\* A caller, the observer or a form begins: the page is covered, or will be.
LEMMA BeginCovers ==
  ASSUME LoadingInv, NEW t \in Loading!Caller \cup {"observer", "form"}, NEW im \in BOOLEAN,
         Loading!begin(t, im)
  PROVE  /\ Loading!CoveredWhileWaiting'
         /\ tokens' = tokens \cup {t} /\ phase' \in {"hidden", "active"}
         /\ {showTimer', hideTimer'} \subseteq BOOLEAN
BY DEF LoadingInv, Loading!TypeOK, Loading!CoveredWhileWaiting, Loading!begin

\* One token is given back: the page is free, or will be.
LEMMA StopFrees ==
  ASSUME LoadingInv, NEW t, Loading!stop(t)
  PROVE  /\ Loading!CoveredWhileWaiting'
         /\ tokens' = tokens \ {t} /\ phase' \in {"hidden", "active", "leaving"}
         /\ {showTimer', hideTimer'} \subseteq BOOLEAN
         /\ ~ mounted => phase' = "hidden"
BY DEF LoadingInv, Loading!TypeOK, Loading!CoveredWhileWaiting, Loading!stop

\* The observer leaves a token of its own exactly if an element is busy.
LEMMA ObserverSees ==
  ASSUME LoadingInstance, LoadingInv, Loading!syncBusyState
  PROVE  /\ Loading!CoveredWhileWaiting'
         /\ tokens' \ {"observer"} = tokens \ {"observer"}
         /\ "observer" \in tokens' <=> busy \ Quiet # {}
         /\ phase' \in {"hidden", "active", "leaving"}
         /\ {showTimer', hideTimer'} \subseteq BOOLEAN
<1>1. Loading!hasBlockingBusyElement <=> busy \ Quiet # {}
  BY DEF LoadingInstance, LoadingInv, Loading!TypeOK, Loading!hasBlockingBusyElement,
    Loading!Overlay
<1>2. CASE Loading!begin("observer", FALSE) /\ busy \ Quiet # {}
  BY ZenonT(30), <1>2, BeginCovers
<1>3. CASE Loading!stop("observer") /\ busy \ Quiet = {}
  BY <1>3, StopFrees
<1>4. CASE UNCHANGED Loading!loader /\ ("observer" \in tokens <=> busy \ Quiet # {})
  BY <1>4 DEF LoadingInv, Loading!TypeOK, Loading!CoveredWhileWaiting, Loading!loader
<1> QED BY <1>1, <1>2, <1>3, <1>4 DEF Loading!syncBusyState, Loading!Observer

\* Whoever waits or stops, and whenever the timers end, the invariant is kept.
LEMMA LoadingStep ==
  ASSUME LoadingInstance, LoadingInv, [Loading!Next]_(Loading!vars) PROVE LoadingInv'
<1> USE DEF Loading!TypeOK, Loading!TokensHaveOwners, Loading!Caller, Loading!Observer,
            Loading!Form, Loading!Redrawn
<1>1. ASSUME NEW c \in Component, Loading!Begin(c) PROVE LoadingInv'
  <2>1. PICK im \in BOOLEAN : Loading!begin(c, im)
    BY <1>1 DEF Loading!Begin
  <2> QED BY <1>1, <2>1, BeginCovers DEF LoadingInv, LoadingInstance, Loading!Begin
<1>2. ASSUME NEW e \in Event, Loading!Emit(e) PROVE LoadingInv'
  <2>1. CASE mounted
    BY <1>2, <2>1, BeginCovers DEF LoadingInv, LoadingInstance, Loading!Emit
  <2>2. CASE ~ mounted
    BY <1>2, <2>2 DEF LoadingInv, Loading!Emit, Loading!loader, Loading!CoveredWhileWaiting
  <2> QED BY <2>1, <2>2
<1>3. ASSUME NEW c \in Loading!Caller, Loading!Stop(c) PROVE LoadingInv'
  BY <1>3, StopFrees DEF LoadingInv, LoadingInstance, Loading!Stop
<1>4. CASE Loading!Show
  BY <1>4 DEF LoadingInv, Loading!Show, Loading!Redrawn, Loading!TypeOK,
    Loading!CoveredWhileWaiting, Loading!TokensHaveOwners
<1>5. CASE Loading!Hide
  BY <1>5 DEF LoadingInv, Loading!Hide, Loading!Redrawn, Loading!TypeOK,
    Loading!CoveredWhileWaiting, Loading!TokensHaveOwners
<1>6. CASE Loading!SubmitForm
  <2>1. /\ mounted /\ Loading!begin("form", FALSE)
        /\ UNCHANGED <<mounted, waiting, busy>> /\ changed' = (changed \/ phase' # phase)
        /\ sent' = TRUE
    BY <1>6 DEF Loading!SubmitForm
  <2>2. /\ Loading!CoveredWhileWaiting'
        /\ tokens' = tokens \cup {"form"} /\ phase' \in {"hidden", "active"}
        /\ {showTimer', hideTimer'} \subseteq BOOLEAN
    BY <2>1, BeginCovers
  <2>3. Loading!TokensHaveOwners'
    BY <2>1, <2>2 DEF LoadingInv, LoadingInstance
  <2>4. Loading!TypeOK'
    <3>1. changed' \in BOOLEAN /\ mounted' \in BOOLEAN /\ mounted'
      BY <2>1 DEF LoadingInv
    <3>2. tokens' \subseteq Loading!Caller \cup {"observer", "form"} /\ waiting' \subseteq Loading!Caller
          /\ busy' \subseteq Element
      BY <2>1, <2>2 DEF LoadingInv
    <3>3. {mounted', showTimer', hideTimer', changed', sent'} \subseteq BOOLEAN
      BY <2>1, <2>2, <3>1
    <3>4. phase' \in {"hidden", "active", "leaving"}
      BY <2>2
    <3> QED BY <3>1, <3>2, <3>3, <3>4
  <2> QED BY <2>2, <2>3, <2>4 DEF LoadingInv
<1>7. CASE Loading!Navigate
  BY <1>7 DEF LoadingInv, Loading!Navigate, Loading!TypeOK, Loading!CoveredWhileWaiting,
    Loading!TokensHaveOwners
<1>8. CASE Loading!Mark
  BY <1>8 DEF LoadingInv, Loading!Mark, Loading!loader, Loading!TypeOK,
    Loading!CoveredWhileWaiting, Loading!TokensHaveOwners
<1>9. CASE Loading!Observe
  <2>1. tokens' \ {"observer"} = tokens \ {"observer"} /\ ("observer" \in tokens' <=> busy \ Quiet # {})
    BY <1>9, ObserverSees DEF Loading!Observe
  <2>2. tokens' \subseteq Loading!Caller \cup {"observer", "form"}
        /\ tokens' \cap Loading!Caller \subseteq waiting
    BY <2>1 DEF LoadingInv, LoadingInstance
  <2> QED BY <1>9, <2>1, <2>2, ObserverSees DEF LoadingInv, Loading!Observe
<1>10. CASE Loading!Mount
  <2>1. tokens' \ {"observer"} = tokens \ {"observer"} /\ ("observer" \in tokens' <=> busy \ Quiet # {})
    BY <1>10, ObserverSees DEF Loading!Mount
  <2>2. tokens' \subseteq Loading!Caller \cup {"observer", "form"}
        /\ tokens' \cap Loading!Caller \subseteq waiting
    BY <2>1 DEF LoadingInv, LoadingInstance
  <2> QED BY <1>10, <2>1, <2>2, ObserverSees DEF LoadingInv, Loading!Mount
<1>11. CASE Loading!Unmount
  BY <1>11 DEF LoadingInv, Loading!Unmount, Loading!TypeOK, Loading!CoveredWhileWaiting,
    Loading!TokensHaveOwners
<1>12. CASE UNCHANGED Loading!vars
  BY <1>12 DEF LoadingInv, Loading!vars, Loading!TypeOK, Loading!CoveredWhileWaiting,
    Loading!TokensHaveOwners, Loading!Caller
<1> QED BY <1>1, <1>2, <1>3, <1>4, <1>5, <1>6, <1>7, <1>8, <1>9, <1>10, <1>11,
  <1>12 DEF Loading!Next

\* The page before its provider is there, and whatever happens then.
THEOREM LoadingInvariant == ASSUME LoadingInstance PROVE Loading!Spec => []LoadingInv
<1>1. Loading!Init => LoadingInv
  BY DEF Loading!Init, Loading!Empty, LoadingInv, Loading!TypeOK, Loading!CoveredWhileWaiting,
         Loading!TokensHaveOwners
<1>2. LoadingInv /\ [Loading!Next]_(Loading!vars) => LoadingInv'
  BY LoadingStep
<1> QED BY <1>1, <1>2, PTL DEF Loading!Spec

(* While anybody waits the page is covered or a timer will cover it, and   *)
(* it is never left covered, for any number of callers and elements.       *)
THEOREM LoadingCovers == ASSUME LoadingInstance PROVE Loading!Spec => []Loading!CoveredWhileWaiting
<1>1. LoadingInv => Loading!CoveredWhileWaiting
  BY DEF LoadingInv
<1> QED BY <1>1, LoadingInvariant, PTL

(* Who holds the page covered still waits, and the overlay never holds     *)
(* itself.                                                                 *)
THEOREM LoadingHasOwners == ASSUME LoadingInstance PROVE Loading!Spec => []Loading!TokensHaveOwners
<1>1. LoadingInv => Loading!TokensHaveOwners
  BY DEF LoadingInv
<1> QED BY <1>1, LoadingInvariant, PTL

-----------------------------------------------------------------------------
(* LocalReviewEditor *)
CONSTANTS Cell, MaxRevision, MaxLate
VARIABLES drafts, approvals, wire, tab

Editor == INSTANCE LocalReviewEditor

EditorInstance == Nil \notin {0, 1, 2}

Draft == [status : {"draft", "reviewed"}, content : Editor!Content, by : {1, 2},
          typed : [Cell -> {Nil, 1, 2}]]

(* What the n-th of the saved drafts ds holds, and a review that shows one *)
(* of them as it is approved in as.                                        *)
ContentIn(ds, n) == IF n = 0 THEN [c \in Cell |-> 0] ELSE ds[n].content
Shows(ds, as, x) ==
  /\ x \in [revision : 0 .. Len(ds), content : Editor!Content, status : Editor!Status]
  /\ x.content = ContentIn(ds, x.revision)
  /\ x.status = "approved_local" => x.revision \in as

(* What an edit holds of what it began with: all that was not typed.       *)
EditOf(content, typed, from) ==
  /\ content \in Editor!Content /\ typed \in [Cell -> {Nil, 1}]
  /\ \A c \in Cell : content[c] = IF typed[c] = Nil THEN from[c] ELSE 1

SavedInv ==
  /\ drafts \in Seq(Draft) /\ approvals \subseteq 1 .. Len(drafts)
  /\ Editor!OnlyTyped

Shaped(t) ==
  t = [review |-> t.review, baseline |-> t.baseline, working |-> t.working, status |-> t.status,
       dirty |-> t.dirty, plan |-> t.plan, latest |-> t.latest, conflict |-> t.conflict,
       preview |-> t.preview, call |-> t.call, typed |-> t.typed]

(* The review that is open: its parts are true of the saved drafts, what   *)
(* is shown is the baseline with what was typed, and a plan is of what is  *)
(* shown still.                                                            *)
Reviewing(ds, as, t) ==
  /\ Shows(ds, as, t.review) /\ Shows(ds, as, t.baseline)
  /\ t.status \in Editor!Status
  /\ EditOf(t.working, t.typed, t.baseline.content)
  /\ \A c \in Cell : t.typed[c] # Nil => t.baseline.content[c] # 1
  /\ t.dirty \in BOOLEAN /\ (~ t.dirty => t.working = t.review.content)
  /\ t.preview # Nil => t.preview \in [name : {0, 2}, cells : SUBSET Cell]

Planned(ds, as, t) ==
  t.plan # Nil =>
    /\ Shows(ds, as, t.plan.latest) /\ t.plan = Editor!prepareReviewRebase(t, t.plan.latest)
    /\ t.call = Nil /\ t.dirty /\ t.review # Nil
Conflicts(t) ==
  /\ t.conflict \in BOOLEAN
  /\ t.conflict \/ (t.call # Nil /\ t.call.kind # "open") => t.dirty

(* The call in flight, and what it was answered.                           *)
Called(ds, as, t) ==
  t.call # Nil =>
    /\ t.call = [kind |-> t.call.kind, answer |-> t.call.answer]
    /\ \/ t.call.kind = "open" /\ Shows(ds, as, t.call.answer)
       \/ t.call.kind = "latest" /\ Shows(ds, as, t.call.answer) /\ t.review # Nil
       \/ t.call.kind = "save" /\ t.call.answer = Nil
       \/ t.call.kind = "save" /\ DOMAIN t.call.answer = {"error"}
       \/ /\ t.call.kind = "save" /\ Shows(ds, as, t.call.answer)
          /\ t.call.answer.content = t.working

TabInv(ds, as, t) ==
  /\ Shaped(t)
  /\ t.review # Nil => Reviewing(ds, as, t)
  /\ Planned(ds, as, t) /\ Conflicts(t) /\ Called(ds, as, t)

(* A save on its way; the one that is waited for is what is shown.         *)
Sent(ds, as, q) ==
  /\ q = [for |-> q.for, status |-> q.status, content |-> q.content, typed |-> q.typed, last |-> q.last]
  /\ Shows(ds, as, q.for) /\ q.status \in Editor!Status
  /\ EditOf(q.content, q.typed, q.for.content)
WireInv ==
  \A q \in wire :
    /\ Sent(drafts, approvals, q)
    /\ q.last /\ tab.call # Nil /\ tab.call = Editor!Call("save", Nil) => q.content = tab.working

EditorInv == SavedInv /\ TabInv(drafts, approvals, tab) /\ WireInv

\* A review of the saved drafts stays one when more is saved and approved.
LEMMA ShowsLasts ==
  ASSUME NEW ds \in Seq(Draft), NEW es \in Seq(Draft), Len(ds) <= Len(es),
         \A i \in 1 .. Len(ds) : es[i] = ds[i],
         NEW as, NEW bs, as \subseteq bs, NEW x, Shows(ds, as, x)
  PROVE  Shows(es, bs, x)
<1>1. ContentIn(es, x.revision) = ContentIn(ds, x.revision)
  BY DEF Shows, ContentIn
<1>2. x \in [revision : 0 .. Len(es), content : Editor!Content, status : Editor!Status]
  <2> x.revision \in 0 .. Len(es)
    BY DEF Shows
  <2> HIDE DEF Editor!Content, Editor!Status
  <2> QED BY DEF Shows
<1> QED BY <1>1, <1>2 DEF Shows

LEMMA TabLasts ==
  ASSUME NEW ds \in Seq(Draft), NEW es \in Seq(Draft), Len(ds) <= Len(es),
         \A i \in 1 .. Len(ds) : es[i] = ds[i],
         NEW as, NEW bs, as \subseteq bs, NEW t, TabInv(ds, as, t)
  PROVE  TabInv(es, bs, t)
<1>1. \A x : Shows(ds, as, x) => Shows(es, bs, x)
  BY ShowsLasts
<1> HIDE DEF Shows
<1>2. Reviewing(ds, as, t) => Reviewing(es, bs, t)
  BY <1>1 DEF Reviewing
<1>3. Planned(es, bs, t)
  BY <1>1 DEF Planned, TabInv
<1>4. Called(es, bs, t)
  BY <1>1 DEF Called, TabInv
<1> QED BY <1>2, <1>3, <1>4 DEF TabInv

LEMMA SentLasts ==
  ASSUME NEW ds \in Seq(Draft), NEW es \in Seq(Draft), Len(ds) <= Len(es),
         \A i \in 1 .. Len(ds) : es[i] = ds[i],
         NEW as, NEW bs, as \subseteq bs, NEW q, Sent(ds, as, q)
  PROVE  Sent(es, bs, q)
BY ShowsLasts DEF Sent

LEMMA LastContent ==
  ASSUME NEW ds \in Seq(Draft) PROVE ContentIn(ds, Len(ds)) \in Editor!Content
<1>1. Len(ds) \in Nat /\ (Len(ds) # 0 => ds[Len(ds)] \in Draft)
  OBVIOUS
<1> QED BY <1>1 DEF ContentIn, Draft, Editor!Content, Editor!Value

(* What the Agent answers of the drafts ds. *)
SnapshotOf(ds, as) ==
  [revision |-> Len(ds), content |-> ContentIn(ds, Len(ds)),
   status |-> IF Len(ds) \in as THEN "approved_local"
              ELSE Editor!unapproved(IF Len(ds) = 0 THEN "draft" ELSE ds[Len(ds)].status)]

\* It shows the last draft.
LEMMA SnapshotShows ==
  ASSUME NEW ds \in Seq(Draft), NEW as \in SUBSET (1 .. Len(ds))
  PROVE  Shows(ds, as, SnapshotOf(ds, as))
<1>1. Len(ds) \in Nat /\ (Len(ds) # 0 => ds[Len(ds)] \in Draft)
  OBVIOUS
<1>2. ContentIn(ds, Len(ds)) \in Editor!Content
  BY LastContent
<1>3. /\ SnapshotOf(ds, as).status \in Editor!Status
      /\ SnapshotOf(ds, as).status = "approved_local" => Len(ds) \in as
  BY <1>1 DEF SnapshotOf, Draft, Editor!unapproved, Editor!Status
<1>4. PICK s \in Editor!Status :
        /\ SnapshotOf(ds, as) = [revision |-> Len(ds), content |-> ContentIn(ds, Len(ds)), status |-> s]
        /\ s = "approved_local" => Len(ds) \in as
  BY <1>3 DEF SnapshotOf
<1>5. Len(ds) \in 0 .. Len(ds)
  BY <1>1
<1> HIDE DEF Editor!Content, Editor!Status, SnapshotOf, ContentIn
<1>6. PICK n \in 0 .. Len(ds), k \in Editor!Content : n = Len(ds) /\ k = ContentIn(ds, n)
  BY <1>2, <1>5
<1>7. SnapshotOf(ds, as) = [revision |-> n, content |-> k, status |-> s]
  BY <1>4, <1>6
<1>8. PICK x : x = SnapshotOf(ds, as)
  OBVIOUS
<1>9. x = [revision |-> n, content |-> k, status |-> s]
  BY <1>7, <1>8
<1>10. x.revision = n /\ x.content = k /\ x.status = s
  BY <1>9
<1>11. x \in [revision : 0 .. Len(ds), content : Editor!Content, status : Editor!Status]
  BY <1>9
<1>12. x.content = ContentIn(ds, x.revision)
  BY <1>6, <1>10
<1>13. x.status = "approved_local" => x.revision \in as
  BY <1>4, <1>6, <1>10
<1>14. Shows(ds, as, x)
  BY <1>11, <1>12, <1>13 DEF Shows
<1> QED BY <1>8, <1>14

LEMMA SnapshotIs == Editor!Snapshot = SnapshotOf(drafts, approvals)
BY DEF Editor!Snapshot, SnapshotOf, Editor!Saved, Editor!Revision, ContentIn

\* Another draft is saved, or the last one approved: what was saved stays.
LEMMA SavedGrows ==
  ASSUME EditorInstance, SavedInv, NEW d \in Draft, drafts' = Append(drafts, d), approvals' = approvals,
         \A c \in Cell : d.content[c] # ContentIn(drafts, Len(drafts))[c] => d.typed[c] = d.content[c]
  PROVE  SavedInv'
<1>1. /\ drafts' \in Seq(Draft) /\ Len(drafts') = Len(drafts) + 1 /\ Len(drafts) \in Nat
      /\ \A i \in 1 .. Len(drafts) : drafts'[i] = drafts[i]
      /\ drafts'[Len(drafts) + 1] = d
  <2> HIDE DEF Draft
  <2> QED BY DEF SavedInv
<1>2. DOMAIN drafts = 1 .. Len(drafts) /\ DOMAIN drafts' = 1 .. Len(drafts) + 1
  BY <1>1 DEF SavedInv
<1>3. approvals' \subseteq 1 .. Len(drafts')
  BY <1>1 DEF SavedInv
<1>4. ASSUME NEW i \in DOMAIN drafts', NEW c \in Cell,
             drafts'[i].content[c] # IF i = 1 THEN 0 ELSE drafts'[i - 1].content[c]
      PROVE  drafts'[i].typed[c] = drafts'[i].content[c]
  <2>1. CASE i \in DOMAIN drafts
    <3>1. drafts'[i] = drafts[i] /\ (i # 1 => drafts'[i - 1] = drafts[i - 1])
      BY <2>1, <1>1, <1>2
    <3> QED BY <2>1, <3>1, <1>4 DEF SavedInv, Editor!OnlyTyped
  <2>2. CASE i = Len(drafts) + 1
    <3>1. ContentIn(drafts, Len(drafts))[c] = IF i = 1 THEN 0 ELSE drafts'[i - 1].content[c]
      BY <2>2, <1>1 DEF ContentIn
    <3> QED BY <2>2, <3>1, <1>1, <1>4
  <2> QED BY <2>1, <2>2, <1>2
<1> QED BY <1>1, <1>3, <1>4 DEF SavedInv, Editor!OnlyTyped

\* Another tab saves what it typed over what it opened.
LEMMA OtherSavesStep ==
  ASSUME EditorInstance, EditorInv, Editor!OtherSaves PROVE EditorInv'
<1>1. PICK c \in Cell : drafts' = Append(drafts,
        [status |-> "reviewed", content |-> [ContentIn(drafts, Len(drafts)) EXCEPT ![c] = 2],
         by |-> 2, typed |-> [Editor!Unedited EXCEPT ![c] = 2]])
  BY DEF Editor!OtherSaves, Editor!Write, Editor!Saved, Editor!Revision, ContentIn, Editor!Theirs
<1>2. PICK d : d = [status |-> "reviewed", content |-> [ContentIn(drafts, Len(drafts)) EXCEPT ![c] = 2],
                    by |-> 2, typed |-> [Editor!Unedited EXCEPT ![c] = 2]]
  OBVIOUS
<1>3. ContentIn(drafts, Len(drafts)) \in Editor!Content
  BY LastContent DEF EditorInv, SavedInv
<1>4. d \in Draft
  <2>1. d.content \in Editor!Content
    BY <1>2, <1>3 DEF Editor!Content, Editor!Value, Editor!Theirs, Editor!Mine
  <2>2. d.typed \in [Cell -> {Nil, 1, 2}]
    BY <1>2 DEF Editor!Unedited
  <2> QED BY <1>2, <2>1, <2>2 DEF Draft
<1>5. \A x \in Cell : d.content[x] # ContentIn(drafts, Len(drafts))[x] => d.typed[x] = d.content[x]
  BY <1>2, <1>3 DEF Editor!Content, Editor!Unedited
<1>6. UNCHANGED <<approvals, wire, tab>> /\ drafts' = Append(drafts, d)
  BY <1>1, <1>2 DEF Editor!OtherSaves
<1>7. SavedInv'
  BY <1>4, <1>5, <1>6, SavedGrows DEF EditorInv
<1>8. /\ drafts' \in Seq(Draft) /\ drafts \in Seq(Draft) /\ Len(drafts) <= Len(drafts')
      /\ \A i \in 1 .. Len(drafts) : drafts'[i] = drafts[i]
  <2> HIDE DEF Draft
  <2> QED BY <1>4, <1>6 DEF EditorInv, SavedInv
<1>9. TabInv(drafts', approvals', tab)
  BY <1>6, <1>8, TabLasts DEF EditorInv
<1>10. \A q \in wire : Sent(drafts', approvals', q)
  BY <1>6, <1>8, SentLasts DEF EditorInv, WireInv
<1> QED BY <1>6, <1>7, <1>9, <1>10 DEF EditorInv, WireInv

(* A step that leaves the edit as it is: only the call, the conflict, the  *)
(* plan or what was compared changes.                                      *)
SameEdit(t, u) ==
  /\ u.review = t.review /\ u.baseline = t.baseline /\ u.working = t.working
  /\ u.status = t.status /\ u.dirty = t.dirty /\ u.preview = t.preview /\ u.typed = t.typed

LEMMA EditKept ==
  ASSUME NEW ds, NEW as, NEW t, NEW u, SameEdit(t, u), t.review # Nil => Reviewing(ds, as, t)
  PROVE  u.review # Nil => Reviewing(ds, as, u)
BY DEF SameEdit, Reviewing

(* The records the actions write, field by field. *)
LEMMA WithCall ==
  ASSUME NEW t, NEW u, NEW x, Shaped(t), u = [t EXCEPT !.call = x]
  PROVE  /\ Shaped(u) /\ SameEdit(t, u) /\ u.call = x
         /\ u.plan = t.plan /\ u.latest = t.latest /\ u.conflict = t.conflict
<1>1. u = [review |-> t.review, baseline |-> t.baseline, working |-> t.working, status |-> t.status,
           dirty |-> t.dirty, plan |-> t.plan, latest |-> t.latest, conflict |-> t.conflict,
           preview |-> t.preview, call |-> x, typed |-> t.typed]
  BY DEF Shaped
<1> QED BY <1>1 DEF Shaped, SameEdit

\* A call begins, or gets its answer.
LEMMA CallTab ==
  ASSUME NEW ds, NEW as, NEW t, NEW u, NEW x, TabInv(ds, as, t), u = [t EXCEPT !.call = x],
         t.plan = Nil, Called(ds, as, u), x # Nil => t.dirty \/ x.kind = "open"
  PROVE  TabInv(ds, as, u) /\ u.working = t.working /\ u.call = x
<1>1. /\ Shaped(u) /\ SameEdit(t, u) /\ u.call = x
      /\ u.plan = t.plan /\ u.latest = t.latest /\ u.conflict = t.conflict
  BY WithCall DEF TabInv
<1>2. u.review # Nil => Reviewing(ds, as, u)
  BY <1>1, EditKept DEF TabInv
<1>3. Planned(ds, as, u)
  BY <1>1 DEF Planned
<1>4. Conflicts(u)
  BY <1>1 DEF Conflicts, TabInv, SameEdit
<1> QED BY <1>1, <1>2, <1>3, <1>4 DEF TabInv, SameEdit

\* Nothing is saved or sent by the step, and no save is waited for after it.
LEMMA TabStep ==
  ASSUME EditorInv, UNCHANGED <<drafts, approvals, wire>>, NEW u, tab' = u,
         TabInv(drafts, approvals, u), u.call = Nil \/ u.call # Editor!Call("save", Nil)
  PROVE  EditorInv'
BY DEF EditorInv, WireInv, SavedInv, Editor!OnlyTyped

\* A review is asked for, of what the Agent has.
LEMMA OpenStep ==
  ASSUME EditorInv, Editor!openLocalReview \/ Editor!repairPublicationTarget \/ Editor!Compare
  PROVE  EditorInv'
<1>1. PICK k \in {"open", "latest"} :
        /\ tab' = [tab EXCEPT !.call = Editor!Call(k, Editor!Snapshot)]
        /\ k = "latest" => tab.review # Nil /\ tab.dirty
        /\ tab.plan = Nil /\ UNCHANGED <<drafts, approvals, wire>>
  BY DEF Editor!openLocalReview, Editor!repairPublicationTarget, Editor!Compare, Editor!Calls,
         Editor!Open, Editor!editingBlocked, EditorInv, TabInv, Planned, Conflicts
<1>2. PICK x : x = Editor!Call(k, Editor!Snapshot)
  OBVIOUS
<1>3. /\ x = [kind |-> x.kind, answer |-> x.answer] /\ x.kind = k
      /\ Shows(drafts, approvals, x.answer)
  BY <1>2, SnapshotIs, SnapshotShows DEF Editor!Call, EditorInv, SavedInv
<1>4. PICK u : u = [tab EXCEPT !.call = x]
  OBVIOUS
<1>5. u.call = x /\ SameEdit(tab, u)
  BY <1>4, WithCall DEF EditorInv, TabInv
<1>6. Called(drafts, approvals, u)
  BY <1>1, <1>3, <1>5 DEF Called, SameEdit
<1>7. TabInv(drafts, approvals, u)
  BY <1>1, <1>3, <1>4, <1>6, CallTab DEF EditorInv
<1>8. x # Editor!Call("save", Nil)
  BY <1>3, <1>1 DEF Editor!Call
<1> QED BY <1>1, <1>2, <1>4, <1>5, <1>7, <1>8, TabStep

\* The edit is sent as it is shown, or is known to conflict already.
LEMMA SaveStep == ASSUME EditorInv, Editor!saveLocalReview PROVE EditorInv'
<1>1. tab.call = Nil /\ tab.plan = Nil /\ tab.dirty /\ tab.review # Nil /\ UNCHANGED <<drafts, approvals>>
  BY DEF Editor!saveLocalReview, Editor!editingBlocked, Editor!Open, EditorInv, TabInv, Conflicts
<1>2. Reviewing(drafts, approvals, tab) /\ Shaped(tab)
  BY <1>1 DEF EditorInv, TabInv
<1>3. CASE tab' = [tab EXCEPT !.conflict = TRUE] /\ UNCHANGED wire
  <2>1. PICK u : u = [tab EXCEPT !.conflict = TRUE]
    OBVIOUS
  <2>2. u = [review |-> tab.review, baseline |-> tab.baseline, working |-> tab.working,
             status |-> tab.status, dirty |-> tab.dirty, plan |-> tab.plan, latest |-> tab.latest,
             conflict |-> TRUE, preview |-> tab.preview, call |-> tab.call, typed |-> tab.typed]
    BY <1>2, <2>1 DEF Shaped
  <2>3. /\ Shaped(u) /\ SameEdit(tab, u) /\ u.call = Nil /\ u.plan = Nil /\ u.conflict = TRUE
    BY <1>1, <2>2 DEF Shaped, SameEdit
  <2>4. Reviewing(drafts, approvals, u)
    BY <1>2, <2>3 DEF SameEdit, Reviewing
  <2>5. TabInv(drafts, approvals, u)
    BY <1>1, <2>3, <2>4 DEF TabInv, Planned, Conflicts, Called, SameEdit
  <2> QED BY <1>1, <1>3, <2>1, <2>3, <2>5, TabStep
<1>4. CASE /\ wire' = Editor!Superseded \cup
                {[for |-> tab.baseline, status |-> tab.status, content |-> tab.working,
                  typed |-> tab.typed, last |-> TRUE]}
           /\ tab' = [tab EXCEPT !.call = Editor!Call("save", Nil)]
  <2>1. PICK u, x : x = Editor!Call("save", Nil) /\ u = [tab EXCEPT !.call = x]
    OBVIOUS
  <2>2. x.kind = "save" /\ x.answer = Nil /\ x = [kind |-> x.kind, answer |-> x.answer]
    BY <2>1 DEF Editor!Call
  <2>3. u.call = x /\ SameEdit(tab, u)
    BY <1>2, <2>1, WithCall
  <2>4. Called(drafts, approvals, u)
    BY <2>2, <2>3 DEF Called
  <2>5. TabInv(drafts, approvals, u) /\ u.working = tab.working
    BY <1>1, <2>1, <2>4, CallTab DEF EditorInv
  <2>6. PICK q : q = [for |-> tab.baseline, status |-> tab.status, content |-> tab.working,
                      typed |-> tab.typed, last |-> TRUE]
    OBVIOUS
  <2>7. Sent(drafts, approvals, q) /\ q.content = tab.working
    BY <1>2, <2>6 DEF Sent, Reviewing
  <2>8. wire' = Editor!Superseded \cup {q} /\ tab' = u
    BY <1>4, <2>1, <2>6
  <2>9. ASSUME NEW p \in Editor!Superseded PROVE Sent(drafts, approvals, p) /\ p.last = FALSE
    <3>1. PICK o \in wire : p = [o EXCEPT !.last = FALSE]
      BY DEF Editor!Superseded
    <3>2. Sent(drafts, approvals, o)
      BY DEF EditorInv, WireInv
    <3>3. p = [for |-> o.for, status |-> o.status, content |-> o.content, typed |-> o.typed, last |-> FALSE]
      BY <3>1, <3>2 DEF Sent
    <3> QED BY <3>2, <3>3 DEF Sent
  <2>10. \A p \in wire' : Sent(drafts, approvals, p) /\ (p.last => p.content = tab.working)
    BY <2>7, <2>8, <2>9
  <2>11. WireInv'
    BY <1>1, <2>5, <2>8, <2>10 DEF WireInv
  <2> QED BY <1>1, <2>5, <2>8, <2>11 DEF EditorInv, SavedInv, Editor!OnlyTyped
<1> QED BY <1>3, <1>4 DEF Editor!saveLocalReview, Editor!Calls

\* The Agent handles a save: it writes what was sent over what its sender
\* had seen, or writes nothing; who still waits is answered with what is
\* shown.
LEMMA HandleStep ==
  ASSUME EditorInstance, EditorInv, NEW q \in wire, Editor!Handle(q) PROVE EditorInv'
<1>1. PICK did : did = Editor!save_review(q)
  OBVIOUS
<1>2. /\ wire' = wire \ {q}
      /\ drafts' = IF did = "write" THEN Editor!Write(q, 1) ELSE drafts
      /\ approvals' = IF did = "approve" THEN approvals \cup {Len(drafts)} ELSE approvals
  BY <1>1 DEF Editor!Handle, Editor!Mine, Editor!Revision
<1>3. Sent(drafts, approvals, q)
  BY DEF EditorInv, WireInv
<1>4. /\ did \in {"write", "approve", "same"} => q.for.revision = Len(drafts)
      /\ did = "write" => q.status # "approved_local"
      /\ did = "approve" => Len(drafts) # 0
      /\ did \in {"approve", "same"} => q.content = ContentIn(drafts, Len(drafts))
  BY <1>1 DEF Editor!save_review, Editor!Adopted, Editor!Revision, Editor!Saved, ContentIn
<1>5. /\ drafts \in Seq(Draft) /\ approvals \subseteq 1 .. Len(drafts) /\ Len(drafts) \in Nat
  BY DEF EditorInv, SavedInv
<1>6. ASSUME did = "write"
      PROVE  /\ SavedInv' /\ drafts' \in Seq(Draft) /\ Len(drafts') = Len(drafts) + 1
             /\ \A i \in 1 .. Len(drafts) : drafts'[i] = drafts[i]
             /\ drafts'[Len(drafts')].content = q.content
  <2>1. PICK d : d = [status |-> q.status, content |-> q.content, by |-> 1, typed |-> q.typed]
    OBVIOUS
  <2>2. drafts' = Append(drafts, d) /\ approvals' = approvals
    BY <1>2, <1>6, <2>1 DEF Editor!Write
  <2>3. q.content \in Editor!Content /\ q.typed \in [Cell -> {Nil, 1, 2}]
        /\ q.status \in {"draft", "reviewed"}
    BY <1>3, <1>4, <1>6 DEF Sent, EditOf, Editor!Status
  <2>4. d \in Draft
    <3> HIDE DEF Editor!Content
    <3>1. d.status = q.status /\ d.content = q.content /\ d.by = 1 /\ d.typed = q.typed
      BY <2>1
    <3> QED BY <2>1, <2>3 DEF Draft
  <2>5. q.for.content = ContentIn(drafts, Len(drafts))
    BY <1>3, <1>4, <1>6 DEF Sent, Shows
  <2>6. \A c \in Cell : d.content[c] # ContentIn(drafts, Len(drafts))[c] => d.typed[c] = d.content[c]
    <3> SUFFICES ASSUME NEW c \in Cell, q.content[c] # q.for.content[c]
                 PROVE  q.typed[c] = q.content[c]
      BY <2>1, <2>5
    <3> QED BY <1>3 DEF Sent, EditOf
  <2>7. SavedInv'
    BY <2>2, <2>4, <2>6, SavedGrows DEF EditorInv
  <2>8. /\ Len(drafts') = Len(drafts) + 1 /\ drafts'[Len(drafts) + 1] = d
        /\ \A i \in 1 .. Len(drafts) : drafts'[i] = drafts[i]
    <3> HIDE DEF Draft
    <3> QED BY <1>5, <2>2, <2>4
  <2> QED BY <2>1, <2>7, <2>8 DEF SavedInv
<1>7. ASSUME did # "write"
      PROVE  drafts' = drafts /\ SavedInv' /\ approvals \subseteq approvals'
  <2>1. drafts' = drafts /\ approvals \subseteq approvals'
    BY <1>2, <1>7
  <2>2. did = "approve" => Len(drafts) \in 1 .. Len(drafts)
    BY <1>4, <1>5
  <2>3. approvals' \subseteq 1 .. Len(drafts)
    BY <1>2, <1>5, <2>2, Zenon
  <2> QED BY <2>1, <2>3 DEF EditorInv, SavedInv, Editor!OnlyTyped
<1>8. /\ SavedInv' /\ drafts' \in Seq(Draft) /\ Len(drafts) <= Len(drafts')
      /\ \A i \in 1 .. Len(drafts) : drafts'[i] = drafts[i]
      /\ approvals \subseteq approvals' /\ approvals' \subseteq 1 .. Len(drafts')
  <2>1. CASE did = "write"
    BY <1>2, <1>5, <1>6, <2>1 DEF SavedInv
  <2>2. CASE did # "write"
    BY <1>5, <1>7, <2>2 DEF SavedInv
  <2> QED BY <2>1, <2>2
<1>9. PICK ds, as : ds = drafts' /\ as = approvals'
  OBVIOUS
<1>10. /\ ds \in Seq(Draft) /\ as \in SUBSET (1 .. Len(ds)) /\ Len(drafts) <= Len(ds)
       /\ \A i \in 1 .. Len(drafts) : ds[i] = drafts[i]
       /\ approvals \subseteq as
  BY <1>8, <1>9
<1>11. TabInv(ds, as, tab)
  BY <1>5, <1>10, TabLasts DEF EditorInv
<1>12. \A p \in wire' : Sent(ds, as, p)
  BY <1>2, <1>5, <1>10, SentLasts DEF EditorInv, WireInv
<1>13. did \in {"write", "approve", "same"} => ContentIn(ds, Len(ds)) = q.content
  <2>1. CASE did = "write"
    BY <1>5, <1>6, <1>9, <2>1 DEF ContentIn
  <2>2. CASE did # "write"
    BY <1>4, <1>7, <1>9, <2>2
  <2> QED BY <2>1, <2>2
<1>14. CASE q.last /\ tab.call # Nil /\ tab.call = Editor!Call("save", Nil)
  <2>1. PICK answer : answer = IF did \in {"write", "approve", "same"} THEN SnapshotOf(ds, as)
                               ELSE [error |-> did]
    OBVIOUS
  <2>2. Editor!Snapshot' = SnapshotOf(ds, as)
    BY <1>9 DEF Editor!Snapshot, SnapshotOf, Editor!Saved, Editor!Revision, ContentIn
  <2>3. tab' = [tab EXCEPT !.call.answer = answer]
    BY <1>1, <1>14, <2>1, <2>2 DEF Editor!Handle, Editor!Answer
  <2>4. PICK x : x = Editor!Call("save", answer)
    OBVIOUS
  <2>5. PICK u : u = [tab EXCEPT !.call = x]
    OBVIOUS
  <2>6. Shaped(tab)
    BY DEF EditorInv, TabInv
  <2>7. tab' = u
    BY <1>14, <2>3, <2>4, <2>5, <2>6 DEF Editor!Call, Shaped
  <2>8. u.call = x /\ SameEdit(tab, u)
    BY <2>5, <2>6, WithCall
  <2>9. x.kind = "save" /\ x.answer = answer /\ x = [kind |-> x.kind, answer |-> x.answer]
    BY <2>4 DEF Editor!Call
  <2>10. q.content = tab.working
    BY <1>14 DEF EditorInv, WireInv
  <2>11. Called(ds, as, u)
    <3>1. CASE did \in {"write", "approve", "same"}
      <4>1. answer = SnapshotOf(ds, as)
        BY <2>1, <3>1
      <4>2. Shows(ds, as, answer)
        BY <1>10, <4>1, SnapshotShows
      <4>3. answer.content = tab.working
        BY <1>13, <2>10, <3>1, <4>1 DEF SnapshotOf
      <4> QED BY <2>8, <2>9, <4>2, <4>3 DEF Called, SameEdit
    <3>2. CASE did \notin {"write", "approve", "same"}
      <4>1. DOMAIN answer = {"error"}
        BY <2>1, <3>2
      <4> QED BY <2>8, <2>9, <4>1 DEF Called
    <3> QED BY <3>1, <3>2
  <2>12. tab.dirty /\ tab.plan = Nil
    <3>1. tab.call.kind = "save"
      BY <1>14 DEF Editor!Call
    <3> QED BY <1>14, <3>1 DEF EditorInv, TabInv, Conflicts, Planned
  <2>13. TabInv(ds, as, u) /\ u.working = tab.working
    <3>1. x # Nil => tab.dirty \/ x.kind = "open"
      BY <2>12
    <3>2. tab.plan = Nil
      BY <2>12
    <3>3. TabInv(ds, as, u)
      BY <1>11, <2>5, <2>11, <3>1, <3>2, CallTab
    <3> QED BY <2>8, <3>3 DEF SameEdit
  <2>14. \A p \in wire' : p.last => p.content = tab.working
    BY <1>2, <1>14 DEF EditorInv, WireInv
  <2>15. WireInv'
    BY <1>9, <1>12, <2>7, <2>13, <2>14 DEF WireInv
  <2> QED BY <1>8, <1>9, <2>7, <2>13, <2>15 DEF EditorInv
<1>15. CASE ~ (q.last /\ tab.call # Nil /\ tab.call = Editor!Call("save", Nil))
  <2>1. tab' = tab
    BY <1>15 DEF Editor!Handle
  <2>2. WireInv'
    <3>1. \A p \in wire' : p.last /\ tab.call # Nil /\ tab.call = Editor!Call("save", Nil)
                             => p.content = tab.working
      BY <1>2 DEF EditorInv, WireInv
    <3> QED BY <1>9, <1>12, <2>1, <3>1 DEF WireInv
  <2> QED BY <1>8, <1>9, <1>11, <2>1, <2>2 DEF EditorInv
<1> QED BY <1>14, <1>15

\* Another tab approves what is saved.
LEMMA OtherApprovesStep == ASSUME EditorInv, Editor!OtherApproves PROVE EditorInv'
<1>1. /\ Len(drafts) > 0 /\ approvals' = approvals \cup {Len(drafts)}
      /\ UNCHANGED <<drafts, wire, tab>>
  BY DEF Editor!OtherApproves, Editor!Revision
<1>2. drafts \in Seq(Draft) /\ Len(drafts) \in Nat /\ approvals \subseteq 1 .. Len(drafts)
  BY DEF EditorInv, SavedInv
<1>3. Len(drafts) \in 1 .. Len(drafts) /\ Len(drafts) <= Len(drafts)
  BY <1>1, <1>2
<1>4. PICK as : as = approvals'
  OBVIOUS
<1>5. as \subseteq 1 .. Len(drafts) /\ approvals \subseteq as
  BY <1>1, <1>2, <1>3, <1>4, Zenon
<1>6. \A i \in 1 .. Len(drafts) : drafts[i] = drafts[i]
  OBVIOUS
<1>7. TabInv(drafts, as, tab)
  BY <1>2, <1>3, <1>5, <1>6, TabLasts, Zenon DEF EditorInv
<1>8. \A q \in wire : Sent(drafts, as, q)
  BY <1>2, <1>3, <1>5, <1>6, SentLasts, Zenon DEF EditorInv, WireInv
<1> QED BY <1>1, <1>4, <1>5, <1>7, <1>8 DEF EditorInv, SavedInv, Editor!OnlyTyped, WireInv

\* What is not answered, or is given up, leaves the edit as it is.
LEMMA QuietStep ==
  ASSUME EditorInv, UNCHANGED <<drafts, approvals, wire>>, NEW cl, NEW cf \in BOOLEAN,
         tab' = [tab EXCEPT !.call = cl, !.conflict = cf], cl = Nil \/ (cl = tab.call /\ tab.call = Nil),
         cf => tab.dirty, tab.plan = Nil
  PROVE  EditorInv'
<1>1. PICK u : u = [tab EXCEPT !.call = cl, !.conflict = cf]
  OBVIOUS
<1>2. u = [review |-> tab.review, baseline |-> tab.baseline, working |-> tab.working,
           status |-> tab.status, dirty |-> tab.dirty, plan |-> tab.plan, latest |-> tab.latest,
           conflict |-> cf, preview |-> tab.preview, call |-> cl, typed |-> tab.typed]
  BY <1>1 DEF Shaped, EditorInv, TabInv
<1>3. Shaped(u) /\ SameEdit(tab, u) /\ u.call = Nil /\ u.plan = Nil /\ u.conflict = cf
  BY <1>2 DEF Shaped, SameEdit
<1>4. u.review # Nil => Reviewing(drafts, approvals, u)
  BY <1>3, EditKept DEF EditorInv, TabInv
<1>5. TabInv(drafts, approvals, u)
  BY <1>3, <1>4 DEF TabInv, Planned, Conflicts, Called, SameEdit
<1> QED BY <1>1, <1>3, <1>5, TabStep

LEMMA LostStep == ASSUME EditorInv, Editor!Lost PROVE EditorInv'
<1>1. PICK cf : cf = Editor!Comparing
  OBVIOUS
<1>2. tab.call # Nil /\ tab' = [tab EXCEPT !.call = Nil, !.conflict = cf]
      /\ UNCHANGED <<drafts, approvals, wire>>
  BY <1>1 DEF Editor!Lost
<1>3. cf \in BOOLEAN /\ (cf => tab.dirty)
  BY <1>1, <1>2 DEF Editor!Comparing, EditorInv, TabInv, Conflicts
<1>4. tab.plan = Nil
  BY <1>2 DEF EditorInv, TabInv, Planned
<1> QED BY <1>2, <1>3, <1>4, QuietStep

\* A save that dies on its way.
LEMMA DiesStep == ASSUME EditorInv, NEW q \in wire, Editor!Dies(q) PROVE EditorInv'
BY DEF Editor!Dies, EditorInv, SavedInv, Editor!OnlyTyped, WireInv

\* The editor that is closed, or has lost its review.
LEMMA ClosedStep ==
  ASSUME EditorInv, tab' = Editor!Closed, UNCHANGED <<drafts, approvals, wire>> PROVE EditorInv'
<1>1. PICK u : u = Editor!Closed
  OBVIOUS
<1>2. Shaped(u) /\ u.review = Nil /\ u.plan = Nil /\ u.call = Nil /\ u.conflict = FALSE
  BY <1>1 DEF Editor!Closed, Shaped
<1>3. TabInv(drafts, approvals, u)
  BY <1>2 DEF TabInv, Planned, Conflicts, Called
<1> QED BY <1>1, <1>2, <1>3, TabStep

\* A new editor shows the review it was mounted with.
LEMMA MountedInv ==
  ASSUME EditorInstance, NEW ds \in Seq(Draft), NEW as, NEW t, TabInv(ds, as, t), t.plan = Nil,
         NEW review, Shows(ds, as, review)
  PROVE  LET u == Editor!Mounted(t, review)
         IN  TabInv(ds, as, u) /\ u.call = Nil
<1>1. PICK u : u = Editor!Mounted(t, review)
  OBVIOUS
<1>2. CASE t.review # Nil /\ t.review.revision = review.revision
           /\ (t.review.status = "approved_local") = (review.status = "approved_local")
  <2>1. u = [review |-> review, baseline |-> t.baseline, working |-> t.working,
             status |-> t.status, dirty |-> t.dirty, plan |-> t.plan, latest |-> t.latest,
             conflict |-> FALSE, preview |-> t.preview, call |-> Nil, typed |-> t.typed]
    BY <1>1, <1>2 DEF Editor!Mounted, Shaped, TabInv
  <2>2. /\ u.review = review /\ u.baseline = t.baseline /\ u.working = t.working
        /\ u.status = t.status /\ u.dirty = t.dirty /\ u.preview = t.preview /\ u.typed = t.typed
        /\ u.plan = Nil /\ u.call = Nil /\ u.conflict = FALSE /\ Shaped(u)
    BY <2>1 DEF Shaped
  <2>3. Reviewing(ds, as, t)
    BY <1>2 DEF TabInv
  <2>4. review.content = t.review.content
    BY <1>2, <2>3 DEF Reviewing, Shows
  <2>5. Reviewing(ds, as, u)
    BY <2>2, <2>3, <2>4 DEF Reviewing
  <2>6. TabInv(ds, as, u)
    BY <2>2, <2>5 DEF TabInv, Planned, Conflicts, Called
  <2> QED BY <1>1, <2>2, <2>6
<1>3. CASE ~ (t.review # Nil /\ t.review.revision = review.revision
              /\ (t.review.status = "approved_local") = (review.status = "approved_local"))
  <2>1. u = [review |-> review, baseline |-> review, working |-> review.content,
             status |-> review.status, dirty |-> FALSE, plan |-> Nil, latest |-> t.latest,
             conflict |-> FALSE, preview |-> Nil, call |-> Nil, typed |-> Editor!Unedited]
    BY <1>1, <1>3 DEF Editor!Mounted, Editor!Closed
  <2>2. /\ u.review = review /\ u.baseline = review /\ u.working = review.content
        /\ u.status = review.status /\ u.dirty = FALSE /\ u.preview = Nil
        /\ u.typed = [c \in Cell |-> Nil]
        /\ u.plan = Nil /\ u.call = Nil /\ u.conflict = FALSE /\ Shaped(u)
    BY <2>1 DEF Shaped, Editor!Unedited
  <2>3. EditOf(u.working, u.typed, u.baseline.content)
    <3>1. u.working \in Editor!Content /\ u.baseline.content = u.working
      BY <2>2 DEF Shows
    <3>2. u.typed \in [Cell -> {Nil, 1}] /\ \A c \in Cell : u.typed[c] = Nil
      BY <2>2
    <3> QED BY <3>1, <3>2 DEF EditOf
  <2>4. review.status \in Editor!Status
    BY DEF Shows
  <2>5. \A c \in Cell : u.typed[c] = Nil
    BY <2>2
  <2>6. Reviewing(ds, as, u)
    BY <2>2, <2>3, <2>4, <2>5 DEF Reviewing
  <2>7. TabInv(ds, as, u)
    BY <2>2, <2>6 DEF TabInv, Planned, Conflicts, Called
  <2> QED BY <1>1, <2>2, <2>7
<1> QED BY <1>2, <1>3

\* The answer is read: an error keeps the edit, a review is mounted.
LEMMA AnsweredStep == ASSUME EditorInstance, EditorInv, Editor!Answered PROVE EditorInv'
<1>1. /\ tab.call # Nil /\ tab.call.kind # "latest" /\ tab.call.answer # Nil
      /\ UNCHANGED <<drafts, approvals, wire>>
  BY DEF Editor!Answered, Editor!Busy
<1>2. tab.plan = Nil
  BY <1>1 DEF EditorInv, TabInv, Planned
<1>3. CASE "error" \in DOMAIN tab.call.answer
  <2>1. PICK cf \in BOOLEAN : tab' = [tab EXCEPT !.call = Nil, !.conflict = cf]
    BY <1>3 DEF Editor!Answered
  <2>2. tab.dirty
    <3>1. ~ Shows(drafts, approvals, tab.call.answer)
      BY <1>3 DEF Shows
    <3>2. tab.call.kind = "save"
      BY <1>1, <3>1 DEF EditorInv, TabInv, Called
    <3> QED BY <1>1, <3>2 DEF EditorInv, TabInv, Conflicts
  <2> QED BY <1>1, <1>2, <2>1, <2>2, QuietStep
<1>4. CASE "error" \notin DOMAIN tab.call.answer
  <2>1. Shows(drafts, approvals, tab.call.answer)
    BY <1>1, <1>4 DEF EditorInv, TabInv, Called
  <2>2. PICK u : u = Editor!Mounted(tab, tab.call.answer)
    OBVIOUS
  <2>3. tab' = u
    BY <1>4, <2>2 DEF Editor!Answered
  <2>4. TabInv(drafts, approvals, u) /\ u.call = Nil
    BY <1>2, <2>1, <2>2, MountedInv DEF EditorInv, SavedInv
  <2> QED BY <1>1, <2>3, <2>4, TabStep
<1> QED BY <1>3, <1>4

\* The user types over fields that do not show it yet.
LEMMA TypedStep ==
  ASSUME EditorInstance, EditorInv, NEW cells \in SUBSET Cell, Editor!Typed(cells),
         tab.review # Nil, tab.call = Nil, tab.plan = Nil, \A c \in cells : tab.working[c] # 1,
         UNCHANGED <<drafts, approvals, wire>>
  PROVE  EditorInv'
<1>1. PICK w, ty : /\ w = [c \in Cell |-> IF c \in cells THEN 1 ELSE tab.working[c]]
                   /\ ty = [c \in Cell |-> IF c \in cells THEN 1 ELSE tab.typed[c]]
  OBVIOUS
<1>2. PICK s : s = Editor!unapproved(tab.status)
  OBVIOUS
<1>3. Reviewing(drafts, approvals, tab) /\ Shaped(tab)
  BY DEF EditorInv, TabInv
<1>4. PICK u : u = [tab EXCEPT !.working = w, !.typed = ty, !.status = s, !.dirty = TRUE, !.preview = Nil]
  OBVIOUS
<1>5. tab' = u
  BY <1>1, <1>2, <1>4 DEF Editor!Typed, Editor!Mine
<1>11. u = [review |-> tab.review, baseline |-> tab.baseline, working |-> w,
            status |-> s, dirty |-> TRUE, plan |-> tab.plan, latest |-> tab.latest,
            conflict |-> tab.conflict, preview |-> Nil, call |-> tab.call, typed |-> ty]
  BY <1>3, <1>4 DEF Shaped
<1>6. /\ u.review = tab.review /\ u.baseline = tab.baseline /\ u.working = w
      /\ u.status = s /\ u.dirty = TRUE /\ u.preview = Nil /\ u.typed = ty
      /\ u.plan = Nil /\ u.call = Nil /\ u.conflict = tab.conflict /\ Shaped(u)
  BY <1>11 DEF Shaped
<1>7. s \in Editor!Status
  BY <1>2, <1>3 DEF Reviewing, Editor!unapproved, Editor!Status
<1>8. EditOf(w, ty, tab.baseline.content) /\ \A c \in Cell : ty[c] # Nil => tab.baseline.content[c] # 1
  <2>1. EditOf(tab.working, tab.typed, tab.baseline.content)
    BY <1>3 DEF Reviewing
  <2>2. w \in Editor!Content
    BY <1>1, <2>1 DEF EditOf, Editor!Content, Editor!Value, Editor!Mine
  <2>3. ty \in [Cell -> {Nil, 1}]
    BY <1>1, <2>1 DEF EditOf
  <2>4. ASSUME NEW c \in Cell PROVE w[c] = IF ty[c] = Nil THEN tab.baseline.content[c] ELSE 1
    BY <1>1, <2>1, <2>4 DEF EditOf, EditorInstance
  <2>5. ASSUME NEW c \in Cell, ty[c] # Nil PROVE tab.baseline.content[c] # 1
    BY <1>1, <1>3, <2>1, <2>5 DEF EditOf, Reviewing
  <2> QED BY <2>2, <2>3, <2>4, <2>5 DEF EditOf
<1>9. Reviewing(drafts, approvals, u)
  BY <1>3, <1>6, <1>7, <1>8 DEF Reviewing
<1>10. TabInv(drafts, approvals, u)
  BY <1>6, <1>9 DEF TabInv, Planned, Conflicts, Called, EditorInv
<1> QED BY <1>5, <1>6, <1>10, TabStep

LEMMA PatchStep ==
  ASSUME EditorInstance, EditorInv, NEW c \in Cell, Editor!patch(c) PROVE EditorInv'
BY TypedStep DEF Editor!patch, Editor!Open, Editor!editingBlocked, Editor!Mine

\* Only the status, or the preview of a new name, changes.
LEMMA MarkStep ==
  ASSUME EditorInv, UNCHANGED <<drafts, approvals, wire>>, tab.review # Nil, tab.call = Nil,
         tab.plan = Nil, NEW s \in Editor!Status, NEW d \in BOOLEAN, NEW p, tab.dirty => d,
         p # Nil => p \in [name : {0, 2}, cells : SUBSET Cell],
         tab' = [tab EXCEPT !.status = s, !.dirty = d, !.preview = p]
  PROVE  EditorInv'
<1>1. Reviewing(drafts, approvals, tab) /\ Shaped(tab)
  BY DEF EditorInv, TabInv
<1>3. PICK u : u = [tab EXCEPT !.status = s, !.dirty = d, !.preview = p]
  OBVIOUS
<1>2. u = [review |-> tab.review, baseline |-> tab.baseline, working |-> tab.working,
           status |-> s, dirty |-> d, plan |-> tab.plan, latest |-> tab.latest,
           conflict |-> tab.conflict, preview |-> p, call |-> tab.call, typed |-> tab.typed]
  BY <1>1, <1>3 DEF Shaped
<1>4. /\ u.review = tab.review /\ u.baseline = tab.baseline /\ u.working = tab.working
      /\ u.status = s /\ u.dirty = d /\ u.preview = p /\ u.typed = tab.typed
      /\ u.plan = Nil /\ u.call = Nil /\ u.conflict = tab.conflict /\ Shaped(u)
  BY <1>2 DEF Shaped
<1>5. Reviewing(drafts, approvals, u)
  BY <1>1, <1>4 DEF Reviewing
<1>6. TabInv(drafts, approvals, u)
  BY <1>4, <1>5 DEF TabInv, Planned, Conflicts, Called, EditorInv
<1> QED BY <1>3, <1>4, <1>6, TabStep

LEMMA StatusStep ==
  ASSUME EditorInv, NEW s \in Editor!Status, Editor!setStatus(s) PROVE EditorInv'
<1>1. /\ tab.review # Nil /\ tab.call = Nil /\ tab.plan = Nil /\ UNCHANGED <<drafts, approvals, wire>>
      /\ tab' = [tab EXCEPT !.status = s, !.dirty = TRUE]
  BY DEF Editor!setStatus, Editor!Open, Editor!editingBlocked
<1>2. Shaped(tab) /\ (tab.preview # Nil => tab.preview \in [name : {0, 2}, cells : SUBSET Cell])
  BY <1>1 DEF EditorInv, TabInv, Reviewing
<1>3. tab' = [tab EXCEPT !.status = s, !.dirty = TRUE, !.preview = tab.preview]
  BY <1>1, <1>2 DEF Shaped
<1> QED BY <1>1, <1>2, <1>3, MarkStep

\* The falas of a name, as they are now.
LEMMA PreviewStep ==
  ASSUME EditorInv, UNCHANGED <<drafts, approvals, wire>>, tab.review # Nil, tab.call = Nil,
         tab.plan = Nil, NEW p, p # Nil => p \in [name : {0, 2}, cells : SUBSET Cell],
         tab' = [tab EXCEPT !.preview = p]
  PROVE  EditorInv'
<1>1. Shaped(tab) /\ tab.status \in Editor!Status /\ tab.dirty \in BOOLEAN
  BY DEF EditorInv, TabInv, Reviewing
<1>2. tab' = [tab EXCEPT !.status = tab.status, !.dirty = tab.dirty, !.preview = p]
  BY <1>1 DEF Shaped
<1> QED BY ZenonT(30), <1>1, <1>2, MarkStep

LEMMA RenameStep ==
  ASSUME EditorInstance, EditorInv,
         Editor!ApplyRename \/ (\E v \in Editor!Value : Editor!Preview(v))
  PROVE  EditorInv'
<1>1. /\ tab.review # Nil /\ tab.call = Nil /\ tab.plan = Nil /\ UNCHANGED <<drafts, approvals, wire>>
      /\ (tab.preview # Nil => tab.preview \in [name : {0, 2}, cells : SUBSET Cell])
  BY DEF Editor!ApplyRename, Editor!Preview, Editor!Open, Editor!editingBlocked, EditorInv,
    TabInv,
         Reviewing
<1>2. ASSUME NEW v \in Editor!Value, Editor!Preview(v) PROVE EditorInv'
  <2>1. PICK p : p = [name |-> v, cells |-> Editor!previewParticipantRename(v)]
    OBVIOUS
  <2>2. p \in [name : {0, 2}, cells : SUBSET Cell]
    BY <1>2, <2>1 DEF Editor!Preview, Editor!Value, Editor!Mine, Editor!Theirs,
                      Editor!previewParticipantRename
  <2> QED BY <1>1, <1>2, <2>1, <2>2, PreviewStep DEF Editor!Preview
<1>3. ASSUME Editor!ApplyRename PROVE EditorInv'
  <2>1. PICK n \in {0, 2}, k \in SUBSET Cell : tab.preview = [name |-> n, cells |-> k]
    BY <1>1, <1>3 DEF Editor!ApplyRename
  <2>2. PICK now : now = Editor!previewParticipantRename(n)
    OBVIOUS
  <2>3. now \in SUBSET Cell /\ \A c \in now : tab.working[c] # 1
    BY <2>2 DEF Editor!previewParticipantRename
  <2>7. tab.preview.name = n /\ tab.preview.cells = k
    BY <2>1
  <2>8. now = Editor!previewParticipantRename(tab.preview.name)
    BY <2>2, <2>7
  <2>9. IF now # tab.preview.cells
          THEN tab' = [tab EXCEPT !.preview = [tab.preview EXCEPT !.cells = now]]
          ELSE IF now = {} THEN tab' = [tab EXCEPT !.preview = Nil] ELSE Editor!Typed(now)
    BY <1>3, <2>8, Zenon DEF Editor!ApplyRename
  <2>4. CASE now # k
    <3>1. PICK p : p = [name |-> n, cells |-> now]
      OBVIOUS
    <3>2. p \in [name : {0, 2}, cells : SUBSET Cell]
      BY <2>3, <3>1
    <3>3. tab' = [tab EXCEPT !.preview = p]
      BY <2>1, <2>4, <2>7, <2>9, <3>1
    <3> QED BY <1>1, <3>2, <3>3, PreviewStep
  <2>5. CASE now = k /\ now = {}
    <3>1. tab' = [tab EXCEPT !.preview = Nil]
      BY <2>5, <2>7, <2>9
    <3> QED BY <1>1, <3>1, PreviewStep
  <2>6. CASE now = k /\ now # {}
    <3>1. Editor!Typed(now)
      BY <2>6, <2>7, <2>9
    <3> QED BY <1>1, <2>3, <3>1, TypedStep
  <2> QED BY <2>4, <2>5, <2>6
<1> QED BY <1>2, <1>3

\* The comparison ends with a plan for the edit as it is shown, or is left.
LEMMA ComparedStep ==
  ASSUME EditorInv, Editor!Compared \/ Editor!CancelComparison PROVE EditorInv'
<1>1. /\ tab.review # Nil /\ tab.dirty /\ UNCHANGED <<drafts, approvals, wire>>
  BY DEF Editor!Compared, Editor!CancelComparison, Editor!Comparing, EditorInv, TabInv, Planned,
         Called, Conflicts
<1>2. Shaped(tab) /\ Reviewing(drafts, approvals, tab)
  BY <1>1 DEF EditorInv, TabInv
<1>3. PICK la, pl :
        /\ tab' = [tab EXCEPT !.call = Nil, !.latest = la, !.plan = pl]
        /\ pl # Nil => Shows(drafts, approvals, la) /\ pl = Editor!prepareReviewRebase(tab, la)
  <2>1. CASE Editor!Compared
    BY <2>1 DEF Editor!Compared, Editor!Comparing, EditorInv, TabInv, Called
  <2>2. CASE Editor!CancelComparison
    <3>1. tab.call = Nil /\ tab' = [tab EXCEPT !.plan = Nil]
      BY <2>2 DEF Editor!CancelComparison, EditorInv, TabInv, Planned
    <3>2. tab' = [tab EXCEPT !.call = Nil, !.latest = tab.latest, !.plan = Nil]
      BY <1>2, <3>1 DEF Shaped
    <3> QED BY <3>2
  <2> QED BY <2>1, <2>2
<1>5. PICK u : u = [tab EXCEPT !.call = Nil, !.latest = la, !.plan = pl]
  OBVIOUS
<1>4. u = [review |-> tab.review, baseline |-> tab.baseline, working |-> tab.working,
           status |-> tab.status, dirty |-> tab.dirty, plan |-> pl, latest |-> la,
           conflict |-> tab.conflict, preview |-> tab.preview, call |-> Nil, typed |-> tab.typed]
  BY <1>2, <1>5 DEF Shaped
<1>6. Shaped(u) /\ SameEdit(tab, u) /\ u.call = Nil /\ u.plan = pl /\ u.conflict = tab.conflict
  BY <1>4 DEF Shaped, SameEdit
<1>7. Reviewing(drafts, approvals, u)
  BY <1>2, <1>6 DEF SameEdit, Reviewing
<1>8. Planned(drafts, approvals, u)
  <2> SUFFICES ASSUME pl # Nil
               PROVE  /\ Shows(drafts, approvals, pl.latest)
                      /\ pl = Editor!prepareReviewRebase(u, pl.latest)
                      /\ u.dirty /\ u.review # Nil
    BY <1>6 DEF Planned
  <2>1. pl.latest = la
    BY <1>3 DEF Editor!prepareReviewRebase
  <2>2. Editor!prepareReviewRebase(u, la) = Editor!prepareReviewRebase(tab, la)
    BY <1>6 DEF SameEdit, Editor!prepareReviewRebase, Editor!Changed, Editor!Collides,
                Editor!StatusCollides
  <2> QED BY <1>1, <1>3, <1>6, <2>1, <2>2 DEF SameEdit
<1>9. TabInv(drafts, approvals, u)
  BY <1>6, <1>7, <1>8 DEF TabInv, Conflicts, Called, EditorInv, SameEdit
<1> QED BY <1>1, <1>3, <1>5, <1>6, <1>9, TabStep

\* The plan applied: what the user decided to keep is typed over the latest.
LEMMA RebaseStep == ASSUME EditorInstance, EditorInv, Editor!ApplyRebase PROVE EditorInv'
<1>1. /\ tab.plan # Nil /\ tab.call = Nil /\ tab.review # Nil /\ tab.dirty
      /\ Shows(drafts, approvals, tab.plan.latest)
      /\ tab.plan = Editor!prepareReviewRebase(tab, tab.plan.latest)
      /\ UNCHANGED <<drafts, approvals, wire>>
  BY DEF Editor!ApplyRebase, EditorInv, TabInv, Planned
<1>2. Shaped(tab) /\ Reviewing(drafts, approvals, tab)
  BY <1>1 DEF EditorInv, TabInv
<1>3. PICK la, pl : la = tab.plan.latest /\ pl = tab.plan
  OBVIOUS
<1>4. PICK kept \in SUBSET pl.cells, own \in BOOLEAN :
        tab' = [tab EXCEPT !.baseline = la, !.plan = Nil, !.dirty = TRUE,
                  !.working = [c \in Cell |-> IF c \in kept THEN tab.working[c] ELSE pl.content[c]],
                  !.status = Editor!unapproved(IF own THEN tab.status ELSE pl.status),
                  !.typed = [c \in Cell |->
                    IF c \in pl.cells \ kept \/ la.content[c] = tab.typed[c] THEN Nil ELSE tab.typed[c]]]
  BY ZenonT(30), <1>3 DEF Editor!ApplyRebase
<1>5. PICK w, s, ty :
        /\ w = [c \in Cell |-> IF c \in kept THEN tab.working[c] ELSE pl.content[c]]
        /\ s = Editor!unapproved(IF own THEN tab.status ELSE pl.status)
        /\ ty = [c \in Cell |-> IF c \in pl.cells \ kept \/ la.content[c] = tab.typed[c]
                                THEN Nil ELSE tab.typed[c]]
  OBVIOUS
<1>6. PICK u : u = [tab EXCEPT !.baseline = la, !.plan = Nil, !.dirty = TRUE, !.working = w,
                               !.status = s, !.typed = ty]
  OBVIOUS
<1>7. tab' = u
  BY <1>4, <1>5, <1>6
<1>8. u = [review |-> tab.review, baseline |-> la, working |-> w, status |-> s, dirty |-> TRUE,
           plan |-> Nil, latest |-> tab.latest, conflict |-> tab.conflict, preview |-> tab.preview,
           call |-> tab.call, typed |-> ty]
  BY <1>2, <1>6 DEF Shaped
<1>9. /\ u.review = tab.review /\ u.baseline = la /\ u.working = w
      /\ u.status = s /\ u.dirty = TRUE /\ u.preview = tab.preview /\ u.typed = ty
      /\ u.plan = Nil /\ u.call = Nil /\ u.conflict = tab.conflict /\ Shaped(u)
  BY <1>1, <1>8 DEF Shaped
<1>10. pl = Editor!prepareReviewRebase(tab, la) /\ Shows(drafts, approvals, la)
  BY <1>1, <1>3
<1>11. /\ pl.cells = {c \in Cell : tab.working[c] # tab.baseline.content[c]
                        /\ la.content[c] \notin {tab.baseline.content[c], tab.working[c]}}
       /\ pl.content = [c \in Cell |->
            IF tab.working[c] # tab.baseline.content[c]
                 /\ la.content[c] \in {tab.baseline.content[c], tab.working[c]}
            THEN tab.working[c] ELSE la.content[c]]
  <2>1. pl.cells = {c \in Cell : Editor!Collides(tab, la, c)}
    BY <1>10 DEF Editor!prepareReviewRebase
  <2>2. pl.content = [c \in Cell |-> IF Editor!Changed(tab, c) /\ ~ Editor!Collides(tab, la, c)
                                     THEN tab.working[c] ELSE la.content[c]]
    BY <1>10 DEF Editor!prepareReviewRebase
  <2> QED BY <2>1, <2>2 DEF Editor!Changed, Editor!Collides
<1>12. EditOf(w, ty, la.content) /\ \A c \in Cell : ty[c] # Nil => la.content[c] # 1
  <2>1. la.content \in Editor!Content /\ tab.baseline.content \in Editor!Content
    BY <1>2, <1>10 DEF Shows, Reviewing
  <2>2. PICK ow, ot, base, lc, cells, pc :
          /\ ow = tab.working /\ ot = tab.typed /\ base = tab.baseline.content
          /\ lc = la.content /\ cells = pl.cells /\ pc = pl.content
    OBVIOUS
  <2>3. /\ EditOf(ow, ot, base) /\ \A c \in Cell : ot[c] # Nil => base[c] # 1
        /\ lc \in Editor!Content /\ base \in Editor!Content
    BY <1>2, <2>1, <2>2 DEF Reviewing
  <2>4. /\ cells = {c \in Cell : ow[c] # base[c] /\ lc[c] \notin {base[c], ow[c]}}
        /\ pc = [c \in Cell |-> IF ow[c] # base[c] /\ lc[c] \in {base[c], ow[c]}
                                THEN ow[c] ELSE lc[c]]
    BY <1>11, <2>2
  <2>5. /\ kept \in SUBSET cells
        /\ w = [c \in Cell |-> IF c \in kept THEN ow[c] ELSE pc[c]]
        /\ ty = [c \in Cell |-> IF c \in cells \ kept \/ lc[c] = ot[c] THEN Nil ELSE ot[c]]
    BY <1>4, <1>5, <2>2
  <2>6. EditOf(w, ty, lc) /\ \A c \in Cell : ty[c] # Nil => lc[c] # 1
    <3>1. /\ ow \in Editor!Content /\ ot \in [Cell -> {Nil, 1}]
          /\ \A c \in Cell : ow[c] = IF ot[c] = Nil THEN base[c] ELSE 1
      BY <2>3 DEF EditOf
    <3>2. \A c \in Cell : ow[c] \in Editor!Value /\ lc[c] \in Editor!Value /\ ot[c] \in {Nil, 1}
      BY <2>3, <3>1 DEF Editor!Content
    <3>3. w \in Editor!Content
      BY <2>4, <2>5, <3>2 DEF Editor!Content
    <3>4. ty \in [Cell -> {Nil, 1}]
      BY <2>5, <3>2
    <3>5. ASSUME NEW c \in Cell
          PROVE  w[c] = (IF ty[c] = Nil THEN lc[c] ELSE 1) /\ (ty[c] # Nil => lc[c] # 1)
      <4>1. CASE ot[c] = Nil
        BY <2>4, <2>5, <3>1, <4>1
      <4>2. CASE ot[c] # Nil
        <5>1. ot[c] = 1 /\ ow[c] = 1 /\ base[c] # 1 /\ Nil # 1
          BY <2>3, <3>1, <3>2, <4>2 DEF EditorInstance
        <5>2. CASE c \in kept
          BY <2>4, <2>5, <5>1, <5>2
        <5>3. CASE c \notin kept
          BY <2>4, <2>5, <5>1, <5>3
        <5> QED BY <5>2, <5>3
      <4> QED BY <4>1, <4>2
    <3> QED BY <3>3, <3>4, <3>5 DEF EditOf
  <2> QED BY <2>2, <2>6
<1>13. s \in Editor!Status
  <2>1. \A x \in Editor!Status : Editor!unapproved(x) \in Editor!Status
    BY DEF Editor!unapproved, Editor!Status
  <2>2. pl.status = IF Editor!unapproved(tab.status) # Editor!unapproved(tab.baseline.status)
                         /\ ~ Editor!StatusCollides(tab, la)
                    THEN Editor!unapproved(tab.status) ELSE Editor!unapproved(la.status)
    BY <1>10 DEF Editor!prepareReviewRebase
  <2>3. tab.status \in Editor!Status /\ la.status \in Editor!Status
    BY <1>2, <1>10 DEF Reviewing, Shows
  <2> QED BY <1>5, <2>1, <2>2, <2>3
<1>14. Reviewing(drafts, approvals, u)
  BY <1>2, <1>9, <1>10, <1>12, <1>13 DEF Reviewing
<1>15. TabInv(drafts, approvals, u)
  BY <1>9, <1>14 DEF TabInv, Planned, Conflicts, Called, EditorInv
<1> QED BY <1>1, <1>7, <1>9, <1>15, TabStep

\* Whatever the tab, the Agent or another tab does.
LEMMA EditorStep ==
  ASSUME EditorInstance, EditorInv, [Editor!Next]_(Editor!vars) PROVE EditorInv'
<1>1. CASE UNCHANGED Editor!vars
  BY <1>1 DEF Editor!vars, EditorInv, SavedInv, Editor!OnlyTyped, WireInv
<1>2. CASE Editor!OtherSaves \/ Editor!OtherApproves
  BY <1>2, OtherSavesStep, OtherApprovesStep
<1>3. CASE \E q \in wire : Editor!Handle(q) \/ Editor!Dies(q)
  BY <1>3, HandleStep, DiesStep
<1>4. CASE Editor!openLocalReview \/ Editor!repairPublicationTarget \/ Editor!Compare
  BY <1>4, OpenStep
<1>5. CASE Editor!saveLocalReview \/ Editor!Answered \/ Editor!Lost
  BY <1>5, SaveStep, AnsweredStep, LostStep
<1>6. CASE Editor!closeLocalReview \/ Editor!Dropped
  BY <1>6, ClosedStep DEF Editor!closeLocalReview, Editor!Dropped
<1>7. CASE (\E c \in Cell : Editor!patch(c)) \/ \E s \in Editor!Status : Editor!setStatus(s)
  BY <1>7, PatchStep, StatusStep
<1>8. CASE (\E v \in Editor!Value : Editor!Preview(v)) \/ Editor!ApplyRename
  BY <1>8, RenameStep
<1>9. CASE Editor!Compared \/ Editor!CancelComparison \/ Editor!ApplyRebase
  BY <1>9, ComparedStep, RebaseStep
<1> QED BY <1>1, <1>2, <1>3, <1>4, <1>5, <1>6, <1>7, <1>8, <1>9 DEF Editor!Next

\* Nothing saved, nothing open.
LEMMA EditorInit == ASSUME EditorInstance PROVE Editor!Init => EditorInv
<1> SUFFICES ASSUME Editor!Init PROVE EditorInv
  OBVIOUS
<1>1. drafts = <<>> /\ approvals = {} /\ wire = {} /\ tab = Editor!Closed
  BY DEF Editor!Init
<1>2. drafts \in Seq(Draft) /\ DOMAIN drafts = {}
  BY <1>1
<1>3. SavedInv
  BY <1>1, <1>2 DEF SavedInv, Editor!OnlyTyped
<1>4. Shaped(tab) /\ tab.review = Nil /\ tab.plan = Nil /\ tab.call = Nil /\ tab.conflict = FALSE
  BY <1>1 DEF Editor!Closed, Shaped
<1>5. TabInv(drafts, approvals, tab)
  BY <1>4 DEF TabInv, Planned, Conflicts, Called
<1> QED BY <1>1, <1>3, <1>5 DEF EditorInv, WireInv

\* The invariant of the editor, its controller, the Agent and the wire.
THEOREM EditorInvariant == ASSUME EditorInstance PROVE Editor!Spec => []EditorInv
<1>1. EditorInv /\ [Editor!Next]_(Editor!vars) => EditorInv'
  BY EditorStep
<1> QED BY <1>1, EditorInit, PTL DEF Editor!Spec

(* What was typed stays on the screen, a revision changes only what its    *)
(* editor typed, what says it is saved is, and what can be published is    *)
(* what was approved: for any number of fields and revisions.              *)
THEOREM EditorKeepsReview ==
  ASSUME EditorInstance
  PROVE  Editor!Spec => [](/\ Editor!TypedIsKept /\ Editor!OnlyTyped /\ Editor!CleanIsSaved
                           /\ Editor!PublishableIsApproved)
<1>1. EditorInv => Editor!OnlyTyped
  BY DEF EditorInv, SavedInv
<1>2. EditorInv => (tab.review # Nil => Reviewing(drafts, approvals, tab))
  BY DEF EditorInv, TabInv
<1>3. EditorInv => Editor!TypedIsKept
  BY <1>2 DEF Editor!TypedIsKept, Editor!Open, Reviewing, EditOf
<1>4. EditorInv => Editor!CleanIsSaved
  BY <1>2 DEF Editor!CleanIsSaved, Editor!Open, Reviewing
<1>5. EditorInv => Editor!PublishableIsApproved
  <2> SUFFICES ASSUME EditorInv, tab.review # Nil, ~ tab.dirty, tab.review.status = "approved_local"
               PROVE  /\ tab.review.revision \in approvals
                      /\ tab.working = drafts[tab.review.revision].content
    BY DEF Editor!PublishableIsApproved, Editor!Open
  <2>1. /\ tab.review.revision \in approvals
        /\ tab.working = ContentIn(drafts, tab.review.revision)
    BY <1>2 DEF Reviewing, Shows
  <2>2. tab.review.revision # 0
    BY <2>1 DEF EditorInv, SavedInv
  <2> QED BY <2>1, <2>2 DEF ContentIn
<1> QED BY <1>1, <1>3, <1>4, <1>5, EditorInvariant, PTL

(* A save that succeeds leaves on the screen exactly what was there.       *)
THEOREM EditorSavesWhatIsShown ==
  ASSUME EditorInstance PROVE Editor!Spec => [][Editor!SavesWhatIsShown]_(Editor!vars)
<1>1. ASSUME EditorInv, Editor!Next, tab.review # Nil, tab.call # Nil, tab.call.kind = "save",
             tab'.call = Nil, tab'.review # Nil
      PROVE  tab'.working = tab.working
  <2> USE <1>1
  <2>1. tab.plan = Nil /\ Shaped(tab)
    BY DEF EditorInv, TabInv, Planned
  <2>2. CASE Editor!Answered
    <3>1. CASE "error" \in DOMAIN tab.call.answer
      <4>1. PICK cf : tab' = [tab EXCEPT !.call = Nil, !.conflict = cf]
        BY <2>2, <3>1 DEF Editor!Answered
      <4> QED BY <2>1, <4>1 DEF Shaped
    <3>2. CASE "error" \notin DOMAIN tab.call.answer
      <4>1. tab' = Editor!Mounted(tab, tab.call.answer) /\ tab.call.answer # Nil
        BY <2>2, <3>2 DEF Editor!Answered
      <4>2. tab.call.answer.content = tab.working
        BY <3>2, <4>1 DEF EditorInv, TabInv, Called
      <4>3. PICK u : u = Editor!Mounted(tab, tab.call.answer)
        OBVIOUS
      <4>4. u.working = tab.working
        BY <2>1, <4>2, <4>3 DEF Editor!Mounted, Editor!Closed, Shaped
      <4> QED BY <4>1, <4>3, <4>4
    <3> QED BY <3>1, <3>2
  <2>3. CASE Editor!Lost
    <3>1. PICK cf : tab' = [tab EXCEPT !.call = Nil, !.conflict = cf]
      BY <2>3 DEF Editor!Lost
    <3> QED BY <2>1, <3>1 DEF Shaped
  <2>4. CASE Editor!Dropped
    <3>1. PICK u : u = Editor!Closed
      OBVIOUS
    <3>2. u.review = Nil
      BY <3>1 DEF Editor!Closed
    <3> QED BY <2>4, <3>1, <3>2 DEF Editor!Dropped
  <2>5. CASE Editor!OtherSaves \/ Editor!OtherApproves \/ \E q \in wire : Editor!Dies(q)
    BY <2>5 DEF Editor!OtherSaves, Editor!OtherApproves, Editor!Dies
  <2>6. ASSUME NEW q \in wire, Editor!Handle(q) PROVE tab'.working = tab.working
    <3>1. CASE tab' = tab
      BY <3>1
    <3>2. CASE \E a : tab' = [tab EXCEPT !.call.answer = a]
      <4>1. PICK x : tab' = [tab EXCEPT !.call = x]
        BY <3>2
      <4> QED BY <2>1, <4>1 DEF Shaped
    <3> QED BY <2>6, <3>1, <3>2 DEF Editor!Handle, Editor!Answer
  <2>7. ~ \/ Editor!openLocalReview \/ Editor!repairPublicationTarget \/ Editor!saveLocalReview
          \/ Editor!closeLocalReview \/ (\E c \in Cell : Editor!patch(c))
          \/ (\E s \in Editor!Status : Editor!setStatus(s))
          \/ (\E v \in Editor!Value : Editor!Preview(v))
          \/ Editor!ApplyRename \/ Editor!Compare \/ Editor!Compared
          \/ Editor!CancelComparison \/ Editor!ApplyRebase
    BY <2>1 DEF Editor!openLocalReview, Editor!repairPublicationTarget, Editor!saveLocalReview,
         Editor!closeLocalReview, Editor!patch, Editor!setStatus, Editor!Preview,
         Editor!ApplyRename, Editor!Compare, Editor!Compared, Editor!CancelComparison,
         Editor!ApplyRebase, Editor!editingBlocked, Editor!Busy, Editor!Comparing
  <2> QED BY <2>2, <2>3, <2>4, <2>5, <2>6, <2>7 DEF Editor!Next
<1>2. EditorInv /\ [Editor!Next]_(Editor!vars) => [Editor!SavesWhatIsShown]_(Editor!vars)
  BY <1>1 DEF Editor!SavesWhatIsShown, Editor!Open
<1> QED BY <1>2, EditorInvariant, PTL DEF Editor!Spec

-----------------------------------------------------------------------------
(* TranscriptSegmentEditor *)
CONSTANTS Tab, Text, Speaker, Clean, Player, Character, First, MaxOp
VARIABLES row, roles, pages, editor, calls, ops, history, typed

Segment == INSTANCE TranscriptSegmentEditor WITH grants <- roles, page <- pages

Value == (Text \cup Speaker \cup {First, Player, Character}) \ {Nil}

(* A text cleaned once is clean. *)
SegmentInstance ==
  /\ Nil \notin Text \cup {First, Player}
  /\ Clean \in [Value -> Value \cup {Segment!Blank}]
  /\ \A x \in Value : Clean[x] \in Value => Clean[Clean[x]] = Clean[x]

Version == [text : Value, speaker : Value]
Entry == [shown : Version, told : Version, by : Tab \cup {Nil}]

(* In the history h, revision n showed the version d; or the tab t saved   *)
(* revision n and was told of d.                                           *)
Was(h, n, d) == n \in 0 .. Len(h) - 1 /\ h[n + 1].shown = d
Own(h, t, n, d) == n \in 0 .. Len(h) - 1 /\ h[n + 1].by = t /\ h[n + 1].told = d

(* The row shows the last version of the history; the character is lost    *)
(* with the name it stood for.                                             *)
RowInv ==
  /\ row \in [text : Value, name : Value, character : {Nil, Character}, revision : Nat]
  /\ history \in Seq(Entry) /\ Len(history) = row.revision + 1
  /\ history[Len(history)].shown = Segment!Shown(row)
  /\ row.character # Nil => Clean[row.name] = Clean[Player]
  /\ Segment!ToldIsShown

(* An edit s of the tab t is of the version it would save over. *)
Faithful(h, t, s) ==
  /\ s \in [saved : Version, draft : Version, phase : Segment!Phase,
            active : Version \cup {Nil}, remote : Version \cup {Nil},
            revision : Nat, reloading : BOOLEAN]
  /\ s.revision < Len(h)
  /\ s.phase # "conflict" => Was(h, s.revision, s.saved) \/ Own(h, t, s.revision, s.saved)
  /\ s.remote # Nil => Was(h, s.revision, s.remote)
  /\ s.phase = "saved" => s.draft = s.saved /\ Own(h, t, s.revision, s.saved)

(* What the answer c to a call of t tells was, or is what t saved. *)
Tells(h, t, c) ==
  IF c.kind = "save" THEN Own(h, t, c.result.revision, c.result.shown)
  ELSE Was(h, c.result.revision, c.result.shown)

Call(h, t) ==
  {c \in [kind : {"save", "reload"}, draft : Version \cup {Nil}, expected : Nat,
          mine : BOOLEAN, answer : Segment!Answer,
          result : [shown : Version, revision : Nat] \cup {Nil}] :
     /\ c.kind = "save" => c.draft \in Version
     /\ c.answer = "ok" => /\ c.result \in [shown : Version, revision : Nat]
                           /\ Tells(h, t, c)}

(* The edit s waits for its call c. *)
Waits(s, c) ==
  IF c.kind = "save" THEN s.phase = "saving" /\ s.active = c.draft
  ELSE s.phase = "conflict" /\ s.reloading = TRUE /\ s.remote = Nil

QueueInv(h, t, s, q) ==
  /\ q \in Seq(Call(h, t))
  /\ \A i \in DOMAIN q : q[i].mine => Waits(s, q[i])
  /\ \A i, j \in DOMAIN q : q[i].mine /\ q[j].mine => i = j

(* What a tab was loaded with, its edit, its calls, what its user wants. *)
PageInv(h, p) ==
  p # Nil => /\ p \in [shown : Version, revision : Nat, editable : BOOLEAN]
             /\ Was(h, p.revision, p.shown)

EditInv(h, t, s, q, w) ==
  s # Nil \/ (\E i \in DOMAIN q : q[i].mine) => Faithful(h, t, s) /\ s.draft = w

SegmentInv ==
  /\ RowInv
  /\ \A t \in Tab :
       /\ PageInv(history, pages[t])
       /\ QueueInv(history, t, editor[t], calls[t])
       /\ EditInv(history, t, editor[t], calls[t], typed[t])
  /\ pages = [t \in Tab |-> pages[t]] /\ editor = [t \in Tab |-> editor[t]]
  /\ calls = [t \in Tab |-> calls[t]] /\ typed = [t \in Tab |-> typed[t]]

\* What was stays in the history.
LEMMA WasLasts ==
  ASSUME NEW h \in Seq(Entry), NEW e \in Entry, NEW n, NEW x
  PROVE  /\ Was(h, n, x) => Was(Append(h, e), n, x)
         /\ \A t : Own(h, t, n, x) => Own(Append(h, e), t, n, x)
<1> HIDE DEF Entry
<1> QED BY DEF Was, Own

LEMMA TabLastsInHistory ==
  ASSUME NEW h \in Seq(Entry), NEW e \in Entry, NEW t, NEW p, NEW s, NEW q, NEW w,
         PageInv(h, p), QueueInv(h, t, s, q), EditInv(h, t, s, q, w)
  PROVE  LET g == Append(h, e)
         IN PageInv(g, p) /\ QueueInv(g, t, s, q) /\ EditInv(g, t, s, q, w)
<1>1. PICK g : g = Append(h, e)
  OBVIOUS
<1>2. \A n, x : (Was(h, n, x) => Was(g, n, x)) /\ (Own(h, t, n, x) => Own(g, t, n, x))
  BY <1>1, WasLasts
<1>3. Len(g) = Len(h) + 1 /\ Len(h) \in Nat
  <2> HIDE DEF Entry
  <2> QED BY <1>1
<1>4. PageInv(g, p)
  BY <1>2 DEF PageInv
<1>5. Call(h, t) \subseteq Call(g, t)
  BY <1>2 DEF Call, Tells
<1>6. q \in Seq(Call(g, t))
  <2> HIDE DEF Call
  <2> QED BY <1>5 DEF QueueInv
<1>7. QueueInv(g, t, s, q)
  BY <1>6 DEF QueueInv
<1>8. Faithful(h, t, s) => Faithful(g, t, s)
  BY <1>2, <1>3 DEF Faithful
<1>9. EditInv(g, t, s, q, w)
  BY <1>8 DEF EditInv
<1> QED BY <1>1, <1>4, <1>7, <1>9

\* The calls of a tab: when its edit goes, nobody waits for them.
LEMMA QueueDropped ==
  ASSUME NEW h, NEW t, NEW s, NEW u, NEW q, QueueInv(h, t, s, q)
  PROVE  /\ QueueInv(h, t, u, Segment!Dropped(q))
         /\ ~ \E i \in DOMAIN Segment!Dropped(q) : Segment!Dropped(q)[i].mine
<1>1. PICK r : r = Segment!Dropped(q)
  OBVIOUS
<1>2. DOMAIN r = 1 .. Len(q) /\ Len(q) \in Nat /\ \A i \in DOMAIN r : r[i] = [q[i] EXCEPT !.mine = FALSE]
  BY <1>1 DEF Segment!Dropped, QueueInv
<1>3. ASSUME NEW i \in DOMAIN r PROVE r[i] \in Call(h, t) /\ ~ r[i].mine
  <2>1. PICK c \in Call(h, t) : c = q[i]
    BY <1>2, <1>3 DEF QueueInv
  <2>2. r[i] = [kind |-> c.kind, draft |-> c.draft, expected |-> c.expected, mine |-> FALSE,
                answer |-> c.answer, result |-> c.result]
    BY <1>2, <1>3, <2>1 DEF Call
  <2> QED BY <2>2 DEF Call, Tells
<1>4. r \in Seq(Call(h, t))
  <2>1. r = [i \in 1 .. Len(q) |-> r[i]]
    BY <1>1, <1>2 DEF Segment!Dropped
  <2> HIDE DEF Call
  <2> QED BY <1>2, <1>3, <2>1
<1> QED BY <1>1, <1>3, <1>4 DEF QueueInv

\* When it asks, it did not wait before.
LEMMA QueueAsks ==
  ASSUME NEW h, NEW t, NEW s, NEW u, NEW q, QueueInv(h, t, s, q), \A i \in DOMAIN q : ~ q[i].mine,
         NEW c \in Call(h, t), Waits(u, c)
  PROVE  QueueInv(h, t, u, Append(q, c))
<1>1. PICK r : r = Append(q, c)
  OBVIOUS
<1> HIDE DEF Call
<1>2. /\ r \in Seq(Call(h, t)) /\ DOMAIN r = 1 .. Len(q) + 1 /\ DOMAIN q = 1 .. Len(q) /\ Len(q) \in Nat
      /\ r[Len(q) + 1] = c /\ \A i \in 1 .. Len(q) : r[i] = q[i]
  BY <1>1 DEF QueueInv
<1>3. \A i \in DOMAIN r : r[i].mine => i = Len(q) + 1
  BY <1>2
<1> QED BY <1>1, <1>2, <1>3 DEF QueueInv

\* When its oldest call is done, it waits for another only if not for that.
LEMMA QueueGoesOn ==
  ASSUME NEW h, NEW t, NEW s, NEW u, NEW q, QueueInv(h, t, s, q), q # <<>>, Head(q).mine \/ u = s
  PROVE  /\ QueueInv(h, t, u, Tail(q))
         /\ (\E i \in DOMAIN Tail(q) : Tail(q)[i].mine) => ~ Head(q).mine /\ \E i \in DOMAIN q : q[i].mine
<1>1. PICK r : r = Tail(q)
  OBVIOUS
<1> HIDE DEF Call
<1>2. /\ r \in Seq(Call(h, t)) /\ DOMAIN r = 1 .. Len(q) - 1 /\ DOMAIN q = 1 .. Len(q) /\ Len(q) \in Nat \ {0}
      /\ Head(q) = q[1] /\ \A i \in DOMAIN r : r[i] = q[i + 1]
  BY <1>1 DEF QueueInv
<1>3. \A i \in DOMAIN r : i + 1 \in DOMAIN q /\ i + 1 # 1
  BY <1>2
<1>4. 1 \in DOMAIN q
  BY <1>2
<1>5. \A i \in DOMAIN r : r[i].mine => ~ Head(q).mine
  BY <1>2, <1>3, <1>4 DEF QueueInv
<1>6. \A i \in DOMAIN r : r[i].mine => Waits(u, r[i])
  BY <1>2, <1>3, <1>5 DEF QueueInv
<1>7. \A i, j \in DOMAIN r : r[i].mine /\ r[j].mine => i = j
  <2> SUFFICES ASSUME NEW i \in DOMAIN r, NEW j \in DOMAIN r, r[i].mine, r[j].mine PROVE i = j
    OBVIOUS
  <2>1. i + 1 = j + 1
    BY <1>2, <1>3 DEF QueueInv
  <2> QED BY <1>2, <2>1
<1>8. QueueInv(h, t, u, r)
  BY <1>2, <1>6, <1>7 DEF QueueInv
<1> QED BY <1>1, <1>2, <1>3, <1>5, <1>8

(* A call with its answer, at the head of the calls. *)
With(c, a, x) == [c EXCEPT !.answer = a, !.result = x]
FirstWith(q, a, x) == [q EXCEPT ![1].answer = a, ![1].result = x]

LEMMA CallWith ==
  ASSUME NEW h, NEW t, NEW c \in Call(h, t), NEW a, NEW x
  PROVE  With(c, a, x)
           = [kind |-> c.kind, draft |-> c.draft, expected |-> c.expected, mine |-> c.mine,
              answer |-> a, result |-> x]
<1>1. c \in [kind : {"save", "reload"}, draft : Version \cup {Nil}, expected : Nat,
             mine : BOOLEAN, answer : Segment!Answer,
             result : [shown : Version, revision : Nat] \cup {Nil}]
  BY DEF Call
<1>2. PICK d : d = With(c, a, x)
  OBVIOUS
<1>3. d = [kind |-> c.kind, draft |-> c.draft, expected |-> c.expected, mine |-> c.mine,
           answer |-> a, result |-> x]
  BY <1>1, <1>2 DEF With
<1> QED BY <1>2, <1>3

\* When it is answered, it waits as before.
LEMMA QueueAnswered ==
  ASSUME NEW h, NEW t, NEW s, NEW q, QueueInv(h, t, s, q), q # <<>>, NEW a, NEW x,
         NEW d \in Call(h, t), d = With(q[1], a, x),
         NEW r, r = FirstWith(q, a, x)
  PROVE  QueueInv(h, t, s, r) /\ \A i \in DOMAIN r : i \in DOMAIN q /\ r[i].mine = q[i].mine
<1>1. DOMAIN q = 1 .. Len(q) /\ Len(q) \in Nat \ {0} /\ 1 \in DOMAIN q /\ q \in [1 .. Len(q) -> Call(h, t)]
  <2> HIDE DEF Call
  <2> QED BY DEF QueueInv
<1>2. PICK c \in Call(h, t) : c = q[1]
  BY <1>1
<1>3. d = With(c, a, x)
  BY <1>2
<1>4. d.mine = c.mine /\ d.kind = c.kind /\ d.draft = c.draft
  <2>1. d = [kind |-> c.kind, draft |-> c.draft, expected |-> c.expected, mine |-> c.mine,
             answer |-> a, result |-> x]
    BY <1>3, CallWith
  <2> QED BY <2>1
<1>5. r = [q EXCEPT ![1] = d]
  BY <1>1, <1>2, <1>3 DEF FirstWith, With
<1>6. DOMAIN r = 1 .. Len(q) /\ r[1] = d /\ \A i \in DOMAIN r : i # 1 => r[i] = q[i]
  BY <1>1, <1>5
<1>7. r = [i \in 1 .. Len(q) |-> r[i]]
  BY <1>1, <1>5
<1>8. \A i \in DOMAIN r : /\ i \in DOMAIN q /\ r[i] \in Call(h, t) /\ r[i].mine = q[i].mine
                         /\ r[i].kind = q[i].kind /\ r[i].draft = q[i].draft
  <2> HIDE DEF Call
  <2> QED BY <1>1, <1>2, <1>4, <1>6
<1>9. r \in Seq(Call(h, t))
  <2> HIDE DEF Call
  <2>1. r \in [1 .. Len(q) -> Call(h, t)]
    BY <1>6, <1>7, <1>8
  <2> QED BY ONLY <1>1, <2>1
<1>10. QueueInv(h, t, s, r)
  BY <1>8, <1>9 DEF QueueInv, Waits
<1> QED BY <1>8, <1>10

\* Nobody is waited for.
LEMMA QueueKept ==
  ASSUME NEW h, NEW t, NEW s, NEW u, NEW q, QueueInv(h, t, s, q),
         \A i \in DOMAIN q : q[i].mine => (Waits(s, q[i]) => Waits(u, q[i]))
  PROVE  QueueInv(h, t, u, q)
BY DEF QueueInv

(* What the steps make of an edit. *)
Edit == [saved : Version, draft : Version, phase : Segment!Phase,
         active : Version \cup {Nil}, remote : Version \cup {Nil},
         revision : Nat, reloading : BOOLEAN]

LEMMA LastShown ==
  ASSUME RowInv
  PROVE  /\ Segment!Shown(row) \in Version /\ Was(history, row.revision, Segment!Shown(row))
         /\ row.revision \in Nat
<1>1. Len(history) = row.revision + 1 /\ row.revision \in Nat /\ history \in Seq(Entry)
  BY DEF RowInv
<1>2. history[Len(history)] \in Entry
  <2> HIDE DEF Entry
  <2> QED BY <1>1
<1>3. history[Len(history)].shown \in Version
  BY <1>2 DEF Entry
<1> QED BY <1>1, <1>3 DEF RowInv, Was

LEMMA Loaded ==
  ASSUME NEW h \in Seq(Entry), NEW t, NEW d \in Version, NEW n \in Nat, Was(h, n, d)
  PROVE  LET u == Segment!createTranscriptEditorState(d, n) IN Faithful(h, t, u) /\ u.draft = d
<1>1. PICK u : u = Segment!createTranscriptEditorState(d, n)
  OBVIOUS
<1>2. u = [saved |-> d, draft |-> d, phase |-> "clean", active |-> Nil, remote |-> Nil,
           revision |-> n, reloading |-> FALSE]
  BY <1>1 DEF Segment!createTranscriptEditorState
<1>3. u \in Edit
  <2> HIDE DEF Version
  <2> QED BY <1>2 DEF Edit, Segment!Phase
<1>4. n < Len(h)
  BY DEF Was
<1> QED BY <1>1, <1>2, <1>3, <1>4 DEF Faithful, Edit

LEMMA TypedIn ==
  ASSUME NEW h, NEW t, NEW s, Faithful(h, t, s), NEW d \in Version
  PROVE  LET u == Segment!editTranscriptDraft(s, d)
         IN  Faithful(h, t, u) /\ u.draft = d /\ \A c : Waits(s, c) => Waits(u, c)
<1>1. PICK u : u = Segment!editTranscriptDraft(s, d)
  OBVIOUS
<1>2. s \in Edit
  BY DEF Faithful, Edit
<1>3. CASE s.phase = "conflict"
  <2>1. u = [saved |-> s.saved, draft |-> d, phase |-> s.phase, active |-> s.active,
             remote |-> s.remote, revision |-> s.revision, reloading |-> s.reloading]
    BY <1>1, <1>2, <1>3 DEF Segment!editTranscriptDraft, Edit
  <2>2. u \in Edit
    <3> HIDE DEF Version
    <3> QED BY <1>2, <2>1 DEF Edit
  <2> QED BY <1>1, <1>3, <2>1, <2>2 DEF Faithful, Edit, Waits
<1>4. CASE s.phase # "conflict"
  <2>1. PICK f \in {"saving", "dirty", "clean"} :
          /\ u = [saved |-> s.saved, draft |-> d, phase |-> f, active |-> s.active,
                  remote |-> Nil, revision |-> s.revision, reloading |-> s.reloading]
          /\ s.phase = "saving" => f = "saving"
    BY <1>1, <1>2, <1>4 DEF Segment!editTranscriptDraft, Segment!Edited, Edit
  <2>2. u \in Edit
    <3> HIDE DEF Version
    <3> QED BY <1>2, <2>1 DEF Edit, Segment!Phase
  <2>3. \A c : Waits(s, c) => Waits(u, c)
    BY <1>4, <2>1 DEF Waits
  <2> QED BY <1>1, <1>4, <2>1, <2>2, <2>3 DEF Faithful, Edit
<1> QED BY <1>3, <1>4

LEMMA GivenUp ==
  ASSUME NEW h, NEW t, NEW s, Faithful(h, t, s), Segment!CanReset(s)
  PROVE  LET u == Segment!resetTranscriptDraft(s) IN Faithful(h, t, u) /\ u.draft = s.saved
<1>1. PICK u : u = Segment!resetTranscriptDraft(s)
  OBVIOUS
<1>2. s \in Edit
  BY DEF Faithful, Edit
<1>3. u = [saved |-> s.saved, draft |-> s.saved, phase |-> "clean", active |-> Nil,
           remote |-> Nil, revision |-> s.revision, reloading |-> s.reloading]
  BY <1>1, <1>2 DEF Segment!resetTranscriptDraft, Edit
<1>4. u \in Edit
  <2> HIDE DEF Version
  <2> QED BY <1>2, <1>3 DEF Edit, Segment!Phase
<1> QED BY <1>1, <1>3, <1>4 DEF Faithful, Edit, Segment!CanReset

LEMMA Decided ==
  ASSUME NEW h, NEW t, NEW s, Faithful(h, t, s), Segment!CanReconcile(s)
  PROVE  /\ LET u == Segment!reapplyTranscriptConflictDraft(s) IN Faithful(h, t, u) /\ u.draft = s.draft
         /\ LET u == Segment!acceptTranscriptConflictRemote(s) IN Faithful(h, t, u) /\ u.draft = s.remote
<1>1. PICK u, v : /\ u = Segment!reapplyTranscriptConflictDraft(s)
                  /\ v = Segment!acceptTranscriptConflictRemote(s)
  OBVIOUS
<1>2. s \in Edit /\ s.remote \in Version
  BY DEF Faithful, Edit, Segment!CanReconcile
<1>3. PICK f \in {"dirty", "clean"} :
        u = [saved |-> s.remote, draft |-> s.draft, phase |-> f, active |-> Nil,
             remote |-> Nil, revision |-> s.revision, reloading |-> s.reloading]
  BY <1>1, <1>2 DEF Segment!reapplyTranscriptConflictDraft, Edit
<1>4. v = [saved |-> s.remote, draft |-> s.remote, phase |-> "clean", active |-> Nil,
           remote |-> Nil, revision |-> s.revision, reloading |-> s.reloading]
  BY <1>1, <1>2 DEF Segment!acceptTranscriptConflictRemote, Edit
<1>5. u \in Edit /\ v \in Edit
  <2> HIDE DEF Version
  <2> QED BY <1>2, <1>3, <1>4 DEF Edit, Segment!Phase
<1> QED BY <1>1, <1>3, <1>4, <1>5 DEF Faithful, Edit, Segment!CanReconcile

LEMMA Sending ==
  ASSUME NEW h, NEW t, NEW s, Faithful(h, t, s), Segment!CanBegin(s)
  PROVE  LET u == Segment!beginTranscriptSave(s)
         IN  /\ Faithful(h, t, u) /\ u.draft = s.draft
             /\ \A c : c.kind = "save" /\ c.draft = s.draft => Waits(u, c)
<1>1. PICK u : u = Segment!beginTranscriptSave(s)
  OBVIOUS
<1>2. s \in Edit
  BY DEF Faithful, Edit
<1>3. u = [saved |-> s.saved, draft |-> s.draft, phase |-> "saving", active |-> s.draft,
           remote |-> Nil, revision |-> s.revision, reloading |-> s.reloading]
  BY <1>1, <1>2 DEF Segment!beginTranscriptSave, Edit
<1>4. u \in Edit
  <2> HIDE DEF Version
  <2> QED BY <1>2, <1>3 DEF Edit, Segment!Phase
<1> QED BY <1>1, <1>3, <1>4 DEF Faithful, Edit, Segment!CanBegin, Waits

LEMMA Reloading ==
  ASSUME NEW h, NEW t, NEW s, Faithful(h, t, s), NEW b \in BOOLEAN
  PROVE  LET u == [s EXCEPT !.reloading = b]
         IN  /\ Faithful(h, t, u) /\ u.draft = s.draft /\ u.phase = s.phase /\ u.reloading = b
             /\ u.remote = s.remote /\ u.active = s.active
<1>1. PICK u : u = [s EXCEPT !.reloading = b]
  OBVIOUS
<1>2. s \in Edit
  BY DEF Faithful, Edit
<1>3. u = [saved |-> s.saved, draft |-> s.draft, phase |-> s.phase, active |-> s.active,
           remote |-> s.remote, revision |-> s.revision, reloading |-> b]
  BY <1>1, <1>2 DEF Edit
<1>4. u \in Edit
  <2> HIDE DEF Version
  <2> QED BY <1>2, <1>3 DEF Edit
<1> QED BY <1>1, <1>3, <1>4 DEF Faithful, Edit

\* The version of the answer becomes what is saved; what was typed since
\* then stays.
LEMMA Accepted ==
  ASSUME NEW h \in Seq(Entry), NEW t, NEW s, Faithful(h, t, s), s.phase = "saving", NEW c, s.active = c.draft,
         c.result \in [shown : Version, revision : Nat], Own(h, t, c.result.revision, c.result.shown)
  PROVE  LET u == [Segment!completeTranscriptSaveSuccess(s, c.draft, c.result.shown)
                     EXCEPT !.revision = c.result.revision]
         IN  /\ Faithful(h, t, u)
             /\ u.draft = IF s.draft = c.draft THEN c.result.shown ELSE s.draft
<1>1. PICK u : u = [Segment!completeTranscriptSaveSuccess(s, c.draft, c.result.shown)
                      EXCEPT !.revision = c.result.revision]
  OBVIOUS
<1>2. s \in Edit
  BY DEF Faithful, Edit
<1>3. PICK d \in Version, n \in Nat : d = c.result.shown /\ n = c.result.revision
  <2> HIDE DEF Version
  <2> QED OBVIOUS
<1>4. PICK e \in Version : e = IF s.draft = c.draft THEN d ELSE s.draft
  BY <1>2 DEF Edit
<1>5. PICK f \in {"saved", "dirty"} :
        /\ u = [saved |-> d, draft |-> e, phase |-> f, active |-> Nil,
                remote |-> Nil, revision |-> n, reloading |-> s.reloading]
        /\ f = "saved" => e = d
  BY <1>1, <1>2, <1>3, <1>4 DEF Segment!completeTranscriptSaveSuccess, Edit
<1>6. u \in Edit
  <2> HIDE DEF Version
  <2> QED BY <1>2, <1>5 DEF Edit, Segment!Phase
<1>7. Own(h, t, n, d) /\ n < Len(h)
  BY <1>3 DEF Own
<1> QED BY <1>1, <1>3, <1>4, <1>5, <1>6, <1>7 DEF Faithful, Edit

LEMMA Refused ==
  ASSUME NEW h, NEW t, NEW s, Faithful(h, t, s), s.phase = "saving", NEW d, s.active = d,
         NEW a \in {"error", "conflict"}
  PROVE  LET u == Segment!completeTranscriptSaveFailure(s, d, a) IN Faithful(h, t, u) /\ u.draft = s.draft
<1>1. PICK u : u = Segment!completeTranscriptSaveFailure(s, d, a)
  OBVIOUS
<1>2. s \in Edit
  BY DEF Faithful, Edit
<1>3. u = [saved |-> s.saved, draft |-> s.draft, phase |-> a, active |-> Nil,
           remote |-> Nil, revision |-> s.revision, reloading |-> s.reloading]
  BY <1>1, <1>2 DEF Segment!completeTranscriptSaveFailure, Edit
<1>4. u \in Edit
  <2> HIDE DEF Version
  <2> QED BY <1>2, <1>3 DEF Edit, Segment!Phase
<1> QED BY <1>1, <1>3, <1>4 DEF Faithful, Edit

LEMMA Fetched ==
  ASSUME NEW h \in Seq(Entry), NEW t, NEW s, Faithful(h, t, s), s.phase = "conflict", NEW x,
         x \in [shown : Version, revision : Nat], Was(h, x.revision, x.shown)
  PROVE  LET u == [Segment!loadTranscriptConflictRemote([s EXCEPT !.reloading = FALSE], x.shown)
                     EXCEPT !.revision = x.revision]
         IN  Faithful(h, t, u) /\ u.draft = s.draft
<1>1. PICK u : u = [Segment!loadTranscriptConflictRemote([s EXCEPT !.reloading = FALSE], x.shown)
                      EXCEPT !.revision = x.revision]
  OBVIOUS
<1>2. s \in Edit
  BY DEF Faithful, Edit
<1>3. PICK d \in Version, n \in Nat : d = x.shown /\ n = x.revision
  <2> HIDE DEF Version
  <2> QED OBVIOUS
<1>4. u = [saved |-> s.saved, draft |-> s.draft, phase |-> s.phase, active |-> s.active,
           remote |-> d, revision |-> n, reloading |-> FALSE]
  BY <1>1, <1>2, <1>3 DEF Segment!loadTranscriptConflictRemote, Edit
<1>5. u \in Edit
  <2> HIDE DEF Version
  <2> QED BY <1>2, <1>4 DEF Edit
<1>6. Was(h, n, d) /\ n < Len(h)
  BY <1>3 DEF Was
<1>7. u.revision = n /\ u.remote = d /\ u.phase = "conflict" /\ u.draft = s.draft
  BY <1>4
<1>8. Faithful(h, t, u)
  BY <1>5, <1>6, <1>7 DEF Faithful, Edit
<1> QED BY <1>1, <1>7, <1>8

\* One tab changes, and the row does not.
LEMMA TabChanges ==
  ASSUME SegmentInv, UNCHANGED <<row, history>>, NEW t \in Tab, NEW p, NEW s, NEW q, NEW w,
         pages' = [pages EXCEPT ![t] = p], editor' = [editor EXCEPT ![t] = s],
         calls' = [calls EXCEPT ![t] = q], typed' = [typed EXCEPT ![t] = w],
         PageInv(history, p), QueueInv(history, t, s, q), EditInv(history, t, s, q, w)
  PROVE  SegmentInv'
<1>1. RowInv'
  BY DEF SegmentInv, RowInv, Segment!Shown, Segment!shownSpeaker, Segment!ToldIsShown
<1>2. ASSUME NEW u \in Tab
      PROVE  /\ PageInv(history, pages'[u])
             /\ QueueInv(history, u, editor'[u], calls'[u])
             /\ EditInv(history, u, editor'[u], calls'[u], typed'[u])
  BY DEF SegmentInv
<1>3. /\ pages' = [u \in Tab |-> pages'[u]] /\ editor' = [u \in Tab |-> editor'[u]]
      /\ calls' = [u \in Tab |-> calls'[u]] /\ typed' = [u \in Tab |-> typed'[u]]
  BY DEF SegmentInv
<1> QED BY <1>1, <1>2, <1>3 DEF SegmentInv

LEMMA AsIs ==
  ASSUME SegmentInv, NEW t \in Tab
  PROVE  /\ pages = [pages EXCEPT ![t] = pages[t]] /\ editor = [editor EXCEPT ![t] = editor[t]]
         /\ calls = [calls EXCEPT ![t] = calls[t]] /\ typed = [typed EXCEPT ![t] = typed[t]]
         /\ PageInv(history, pages[t])
         /\ QueueInv(history, t, editor[t], calls[t])
         /\ EditInv(history, t, editor[t], calls[t], typed[t])
         /\ RowInv /\ history \in Seq(Entry)
BY DEF SegmentInv, RowInv

\* The page is loaded, and the segment filtered away or back.
LEMMA PageLoadStep ==
  ASSUME SegmentInv, NEW t \in Tab, Segment!EditSessionPage(t) \/ Segment!TranscriptEditor(t)
  PROVE  SegmentInv'
<1>1. PICK q : q = Segment!Dropped(calls[t])
  OBVIOUS
<1>2. \A u : QueueInv(history, t, u, q) /\ ~ \E i \in DOMAIN q : q[i].mine
  BY <1>1, AsIs, QueueDropped
<1>3. CASE Segment!EditSessionPage(t)
  <2>0. PICK b \in BOOLEAN : b = Segment!authorizeCampaignCapability(t, "edit")
    <3>1. Segment!authorizeCampaignCapability(t, "edit") \in BOOLEAN
      BY DEF Segment!authorizeCampaignCapability
    <3> QED BY ONLY <3>1
  <2>1. PICK p : /\ p = [shown |-> Segment!Shown(row), revision |-> row.revision, editable |-> b]
                 /\ pages' = [pages EXCEPT ![t] = p]
    BY <1>3, <2>0 DEF Segment!EditSessionPage
  <2>2. PICK d \in Version, n \in Nat : d = Segment!Shown(row) /\ n = row.revision /\ Was(history, n, d)
    <3> HIDE DEF Version
    <3> QED BY AsIs, LastShown
  <2>3. PageInv(history, p)
    <3>1. p = [shown |-> d, revision |-> n, editable |-> b]
      BY <2>1, <2>2
    <3> HIDE DEF Version
    <3> QED BY <3>1, <2>2 DEF PageInv
  <2>4. PICK s : s = Segment!createTranscriptEditorState(d, n)
    OBVIOUS
  <2>5. Faithful(history, t, s) /\ s.draft = d
    BY <2>2, <2>4, AsIs, Loaded
  <2>6. QueueInv(history, t, s, q) /\ EditInv(history, t, s, q, d)
    BY <1>2, <2>5 DEF EditInv
  <2>7. /\ editor' = [editor EXCEPT ![t] = s] /\ calls' = [calls EXCEPT ![t] = q]
        /\ typed' = [typed EXCEPT ![t] = d] /\ UNCHANGED <<row, history>>
    BY <1>1, <1>3, <2>2, <2>4 DEF Segment!EditSessionPage, Segment!Becomes, Segment!Wants
  <2> QED BY <2>1, <2>3, <2>6, <2>7, TabChanges
<1>4. CASE Segment!TranscriptEditor(t)
  <2>1. /\ pages[t] # Nil /\ calls' = [calls EXCEPT ![t] = q] /\ UNCHANGED <<row, history>>
        /\ pages' = [pages EXCEPT ![t] = pages[t]]
    BY <1>1, <1>4, AsIs DEF Segment!TranscriptEditor
  <2>2. CASE editor' = [editor EXCEPT ![t] = Nil] /\ typed' = [typed EXCEPT ![t] = Nil]
    <3>1. QueueInv(history, t, Nil, q) /\ EditInv(history, t, Nil, q, Nil)
      BY <1>2 DEF EditInv
    <3> QED BY <2>1, <2>2, <3>1, AsIs, TabChanges
  <2>3. CASE /\ editor' = [editor EXCEPT ![t] =
                             Segment!createTranscriptEditorState(pages[t].shown, pages[t].revision)]
             /\ typed' = [typed EXCEPT ![t] = pages[t].shown]
    <3>1. PICK d \in Version, n \in Nat : d = pages[t].shown /\ n = pages[t].revision /\ Was(history, n, d)
      <4> HIDE DEF Version
      <4> QED BY <2>1, AsIs DEF PageInv
    <3>2. PICK s : s = Segment!createTranscriptEditorState(d, n)
      OBVIOUS
    <3>3. Faithful(history, t, s) /\ s.draft = d
      BY <3>1, <3>2, AsIs, Loaded
    <3>4. QueueInv(history, t, s, q) /\ EditInv(history, t, s, q, d)
      BY <1>2, <3>3 DEF EditInv
    <3> QED BY <2>1, <2>3, <3>1, <3>2, <3>4, AsIs, TabChanges
  <2> QED BY <1>4, <2>2, <2>3 DEF Segment!TranscriptEditor, Segment!Becomes, Segment!Wants
<1> QED BY <1>3, <1>4

\* A step of the edit alone.
LEMMA EditStep ==
  ASSUME SegmentInv, UNCHANGED <<row, history, pages, calls>>, NEW t \in Tab, NEW s, NEW w,
         editor' = [editor EXCEPT ![t] = s], typed' = [typed EXCEPT ![t] = w],
         Faithful(history, t, s), s.draft = w,
         \A i \in DOMAIN calls[t] : calls[t][i].mine =>
           (Waits(editor[t], calls[t][i]) => Waits(s, calls[t][i]))
  PROVE  SegmentInv'
<1>1. QueueInv(history, t, s, calls[t])
  BY AsIs, QueueKept
<1>2. EditInv(history, t, s, calls[t], w)
  BY DEF EditInv
<1> QED BY <1>1, <1>2, AsIs, TabChanges

LEMMA TypeStep ==
  ASSUME SegmentInstance, SegmentInv, NEW t \in Tab, NEW x \in Text,
         NEW y \in (Speaker \cup {Player, Character}) \ {Nil},
         Segment!Type(t, [text |-> x, speaker |-> y])
  PROVE  SegmentInv'
<1>1. PICK d : d = [text |-> x, speaker |-> y]
  OBVIOUS
<1>2. d \in Version
  BY <1>1 DEF SegmentInstance, Version, Value
<1>3. PICK s : s = Segment!editTranscriptDraft(editor[t], d)
  OBVIOUS
<1>4. Faithful(history, t, editor[t])
  BY AsIs DEF EditInv, Segment!Type, Segment!On
<1>5. Faithful(history, t, s) /\ s.draft = d /\ \A c : Waits(editor[t], c) => Waits(s, c)
  BY <1>2, <1>3, <1>4, TypedIn
<1>6. /\ editor' = [editor EXCEPT ![t] = s] /\ typed' = [typed EXCEPT ![t] = d]
      /\ UNCHANGED <<row, history, pages, calls>>
  BY <1>1, <1>3 DEF Segment!Type, Segment!Becomes, Segment!Wants
<1> QED BY <1>5, <1>6, EditStep

\* Who waits for no call of his may give up, decide or begin.
LEMMA Idle ==
  ASSUME SegmentInv, NEW t \in Tab,
         \/ editor[t].phase \notin {"saving", "conflict"}
         \/ editor[t].phase # "saving" /\ (editor[t].remote # Nil \/ editor[t].reloading # TRUE)
  PROVE  \A i \in DOMAIN calls[t] : ~ calls[t][i].mine
BY AsIs DEF QueueInv, Waits

LEMMA CancelStep ==
  ASSUME SegmentInv, NEW t \in Tab, Segment!Cancel(t) \/ Segment!Reconcile(t) PROVE SegmentInv'
<1>1. Faithful(history, t, editor[t]) /\ editor[t].draft = typed[t]
  BY AsIs DEF EditInv, Segment!Cancel, Segment!Reconcile, Segment!On
<1>2. UNCHANGED <<row, history, pages, calls>>
  BY DEF Segment!Cancel, Segment!Reconcile
<1>3. CASE Segment!Cancel(t)
  <2>1. PICK s : s = Segment!resetTranscriptDraft(editor[t])
    OBVIOUS
  <2>2. Faithful(history, t, s) /\ s.draft = editor[t].saved
    BY <1>1, <1>3, <2>1, GivenUp DEF Segment!Cancel
  <2>3. \A i \in DOMAIN calls[t] : ~ calls[t][i].mine
    BY <1>3, Idle DEF Segment!Cancel, Segment!CanReset
  <2>4. editor' = [editor EXCEPT ![t] = s] /\ typed' = [typed EXCEPT ![t] = editor[t].saved]
    BY <1>3, <2>1 DEF Segment!Cancel, Segment!Becomes, Segment!Wants
  <2> QED BY <1>2, <2>2, <2>3, <2>4, EditStep
<1>4. CASE Segment!Reconcile(t)
  <2>1. PICK s, u : /\ s = Segment!reapplyTranscriptConflictDraft(editor[t])
                    /\ u = Segment!acceptTranscriptConflictRemote(editor[t])
    OBVIOUS
  <2>2. /\ Faithful(history, t, s) /\ s.draft = typed[t]
        /\ Faithful(history, t, u) /\ u.draft = editor[t].remote
    BY <1>1, <1>4, <2>1, Decided DEF Segment!Reconcile
  <2>3. \A i \in DOMAIN calls[t] : ~ calls[t][i].mine
    BY <1>4, Idle DEF Segment!Reconcile, Segment!CanReconcile
  <2>4. CASE editor' = [editor EXCEPT ![t] = s] /\ UNCHANGED typed
    BY <1>2, <2>2, <2>3, <2>4, AsIs, EditStep
  <2>5. CASE editor' = [editor EXCEPT ![t] = u] /\ typed' = [typed EXCEPT ![t] = editor[t].remote]
    BY <1>2, <2>2, <2>3, <2>5, EditStep
  <2> QED BY <1>4, <2>1, <2>4, <2>5 DEF Segment!Reconcile, Segment!Becomes, Segment!Wants
<1> QED BY <1>3, <1>4

\* What is asked carries the revision shown.
LEMMA AskStep ==
  ASSUME SegmentInv, UNCHANGED <<row, history, pages, typed>>, NEW t \in Tab, NEW s, NEW k, NEW d,
         (k = "save" /\ d \in Version) \/ (k = "reload" /\ d = Nil),
         editor' = [editor EXCEPT ![t] = s], Segment!Ask(t, k, d),
         Faithful(history, t, editor[t]), Faithful(history, t, s), s.draft = typed[t],
         \A i \in DOMAIN calls[t] : ~ calls[t][i].mine,
         \A c : c.kind = k /\ c.draft = d => Waits(s, c)
  PROVE  SegmentInv'
<1>1. PICK c : c = [kind |-> k, draft |-> d, expected |-> editor[t].revision, mine |-> TRUE,
                    answer |-> "none", result |-> Nil]
  OBVIOUS
<1>2. editor[t].revision \in Nat
  BY DEF Faithful
<1>3. c \in Call(history, t)
  <2> HIDE DEF Version
  <2>1. CASE k = "save"
    BY <1>1, <1>2, <2>1 DEF Call, Segment!Answer
  <2>2. CASE k = "reload"
    BY <1>1, <1>2, <2>2 DEF Call, Segment!Answer
  <2> QED BY <2>1, <2>2
<1>4. Waits(s, c)
  BY <1>1
<1>5. PICK q : q = Append(calls[t], c)
  OBVIOUS
<1>6. QueueInv(history, t, s, q)
  BY <1>3, <1>4, <1>5, AsIs, QueueAsks
<1>7. EditInv(history, t, s, q, typed[t])
  BY DEF EditInv
<1>8. calls' = [calls EXCEPT ![t] = q]
  BY <1>1, <1>5 DEF Segment!Ask
<1> QED BY <1>6, <1>7, <1>8, AsIs, TabChanges

LEMMA SendStep ==
  ASSUME SegmentInv, NEW t \in Tab, Segment!save(t) \/ Segment!loadCurrentVersion(t)
  PROVE  SegmentInv'
<1>1. Faithful(history, t, editor[t]) /\ editor[t].draft = typed[t]
  BY AsIs DEF EditInv, Segment!save, Segment!loadCurrentVersion, Segment!On
<1>2. UNCHANGED <<row, history, pages, typed>>
  BY DEF Segment!save, Segment!loadCurrentVersion
<1>3. \A i \in DOMAIN calls[t] : ~ calls[t][i].mine
  BY Idle DEF Segment!save, Segment!loadCurrentVersion, Segment!CanBegin
<1>4. CASE Segment!save(t)
  <2>1. PICK s : s = Segment!beginTranscriptSave(editor[t])
    OBVIOUS
  <2>2. /\ Faithful(history, t, s) /\ s.draft = typed[t]
        /\ \A c : c.kind = "save" /\ c.draft = editor[t].draft => Waits(s, c)
    BY <1>1, <1>4, <2>1, Sending DEF Segment!save
  <2>3. PICK d : d = editor[t].draft
    OBVIOUS
  <2>4. editor' = [editor EXCEPT ![t] = s] /\ Segment!Ask(t, "save", d)
    BY <1>4, <2>1, <2>3 DEF Segment!save, Segment!Becomes
  <2>5. d \in Version
    BY <1>1, <2>3 DEF Faithful
  <2>6. \A c : c.kind = "save" /\ c.draft = d => Waits(s, c)
    BY <2>2, <2>3
  <2> QED BY <1>1, <1>2, <1>3, <2>2, <2>4, <2>5, <2>6, AskStep
<1>5. CASE Segment!loadCurrentVersion(t)
  <2>1. PICK s : s = [editor[t] EXCEPT !.reloading = TRUE]
    OBVIOUS
  <2>2. /\ Faithful(history, t, s) /\ s.draft = typed[t]
        /\ s.phase = "conflict" /\ s.reloading = TRUE /\ s.remote = Nil
    BY <1>1, <1>5, <2>1, Reloading DEF Segment!loadCurrentVersion
  <2>3. editor' = [editor EXCEPT ![t] = s] /\ Segment!Ask(t, "reload", Nil)
    BY <1>5, <2>1 DEF Segment!loadCurrentVersion, Segment!Becomes
  <2>4. \A c : c.kind = "reload" /\ c.draft = Nil => Waits(s, c)
    BY <2>2 DEF Waits
  <2> QED BY <1>1, <1>2, <1>3, <2>2, <2>3, <2>4, AskStep
<1> QED BY <1>4, <1>5

\* The server answers a reader with what the row shows, and an editor who is
\* refused with the reason; the row stays.
LEMMA AnswerStep ==
  ASSUME SegmentInv, UNCHANGED <<row, history, pages, editor, typed>>, NEW t \in Tab,
         calls[t] # <<>>, NEW a, NEW x, Segment!Answers(t, a, x),
         \/ a \in {"error", "conflict"} /\ x = Nil
         \/ a = "ok" /\ x = Segment!readTranscriptSegment /\ calls[t][1].kind # "save"
  PROVE  SegmentInv'
<1>1. PICK q : q = FirstWith(calls[t], a, x)
  OBVIOUS
<1>2. PICK c \in Call(history, t) : c = calls[t][1]
  <2> HIDE DEF Call
  <2> QED BY AsIs DEF QueueInv
<1>3. PICK d : d = [kind |-> c.kind, draft |-> c.draft, expected |-> c.expected, mine |-> c.mine,
                    answer |-> a, result |-> x]
  OBVIOUS
<1>4. d \in Call(history, t)
  <2> HIDE DEF Version
  <2>1. CASE a \in {"error", "conflict"} /\ x = Nil
    BY <1>3, <2>1 DEF Call, Segment!Answer
  <2>2. CASE a = "ok" /\ x = Segment!readTranscriptSegment /\ calls[t][1].kind # "save"
    <3>1. PICK v \in Version, n \in Nat :
            v = Segment!Shown(row) /\ n = row.revision /\ Was(history, n, v)
      BY AsIs, LastShown
    <3>2. x = [shown |-> v, revision |-> n]
      BY <2>2, <3>1 DEF Segment!readTranscriptSegment
    <3>3. x \in [shown : Version, revision : Nat] /\ x.shown = v /\ x.revision = n
      BY <3>2
    <3>4. d.kind # "save" /\ d.result = x
      BY <1>2, <1>3, <2>2
    <3>5. Tells(history, t, d)
      BY <3>1, <3>3, <3>4 DEF Tells
    <3> QED BY <1>3, <2>2, <3>3, <3>4, <3>5 DEF Call, Segment!Answer
  <2> QED BY <2>1, <2>2
<1>5. d = With(calls[t][1], a, x)
  BY <1>2, <1>3, CallWith
<1>6. /\ QueueInv(history, t, editor[t], q)
      /\ \A i \in DOMAIN q : i \in DOMAIN calls[t] /\ q[i].mine = calls[t][i].mine
  BY <1>1, <1>4, <1>5, AsIs, QueueAnswered
<1>7. EditInv(history, t, editor[t], q, typed[t])
  BY <1>6, AsIs DEF EditInv
<1>8. calls' = [calls EXCEPT ![t] = q]
  <2>1. t \in DOMAIN calls
    BY DEF SegmentInv
  <2>2. calls' = [calls EXCEPT ![t][1].answer = a, ![t][1].result = x]
    BY DEF Segment!Answers
  <2>3. [calls EXCEPT ![t][1].answer = a, ![t][1].result = x]
          = [calls EXCEPT ![t] = FirstWith(calls[t], a, x)]
    BY ONLY <2>1 DEF FirstWith
  <2> QED BY <1>1, <2>2, <2>3, Zenon
<1> QED BY <1>6, <1>7, <1>8, AsIs, TabChanges

\* The row takes what was sent, and shows it.
LEMMA RowTakes ==
  ASSUME SegmentInstance, RowInv, NEW d \in Version, NEW e, e = Segment!cleaned(d),
         Segment!prepareTranscriptEdit(d), Segment!edit_transcript_segment_atomic(e)
  PROVE  /\ e \in Version /\ Segment!Shown(row)' \in Version
         /\ row' \in [text : Value, name : Value, character : {Nil, Character}, revision : Nat]
         /\ row'.revision = row.revision + 1
         /\ row'.character # Nil => Clean[row'.name] = Clean[Player]
         /\ Segment!Shown(row)' # e =>
              /\ Segment!Shown(row)'.text = e.text /\ Segment!Shown(row)'.speaker = Character
              /\ e.speaker = Clean[Player] /\ Segment!Shown(row).speaker = Character
<1>1. e.text = Clean[d.text] /\ e.speaker = Clean[d.speaker] /\ e = [text |-> e.text, speaker |-> e.speaker]
  BY DEF Segment!cleaned
<1>2. e.text # Segment!Blank /\ e.speaker # Segment!Blank
  BY DEF Segment!prepareTranscriptEdit
<1>3. d.text \in Value /\ d.speaker \in Value
  BY DEF Version
<1>4. e.text \in Value /\ e.speaker \in Value
  BY <1>1, <1>2, <1>3 DEF SegmentInstance
<1>5. Clean[e.speaker] = e.speaker
  BY <1>1, <1>3, <1>4 DEF SegmentInstance
<1>6. e \in Version
  <2> HIDE DEF Value
  <2> QED BY <1>1, <1>4 DEF Version
<1>7. PICK r : r = row'
  OBVIOUS
<1>8. PICK k \in {Nil, Character} : k = IF e.speaker = Clean[row.name] THEN row.character ELSE Nil
  BY DEF RowInv
<1>9. r = [text |-> e.text, name |-> e.speaker, character |-> k, revision |-> row.revision + 1]
  BY <1>7, <1>8 DEF Segment!edit_transcript_segment_atomic
<1>10. k # Nil => e.speaker = Clean[Player] /\ k = Character /\ row.character = Character
  BY <1>8 DEF RowInv
<1>11. PICK v : v = [text |-> e.text, speaker |-> IF k # Nil THEN k ELSE e.speaker]
  OBVIOUS
<1>12. Segment!Shown(row)' = v
  <2>1. Segment!Shown(row)' = [text |-> r.text, speaker |-> IF r.character # Nil THEN r.character ELSE r.name]
    BY <1>7 DEF Segment!Shown, Segment!shownSpeaker
  <2>2. r.text = e.text /\ r.character = k /\ r.name = e.speaker
    BY <1>9
  <2> QED BY <1>11, <2>1, <2>2
<1>13. v \in Version /\ v.text = e.text
  <2>1. k # Nil => k \in Value
    BY <1>10 DEF Value
  <2> HIDE DEF Value
  <2> QED BY <1>4, <1>11, <2>1 DEF Version
<1>14. v # e => v.speaker = Character /\ e.speaker = Clean[Player] /\ Segment!Shown(row).speaker = Character
  <2> SUFFICES ASSUME v # e PROVE v.speaker = Character /\ e.speaker = Clean[Player] /\ Segment!Shown(row).speaker = Character
    OBVIOUS
  <2>1. k # Nil
    BY <1>1, <1>11
  <2>2. row.character = Character /\ Character # Nil
    BY <1>8, <1>10, <2>1
  <2> QED BY <1>10, <1>11, <2>1, <2>2 DEF Segment!Shown, Segment!shownSpeaker
<1>15. row.revision + 1 \in Nat
  BY DEF RowInv
<1>16. r \in [text : Value, name : Value, character : {Nil, Character}, revision : Nat]
  <2> HIDE DEF Value
  <2> QED BY <1>4, <1>9, <1>15
<1>17. r.revision = row.revision + 1 /\ (r.character # Nil => Clean[r.name] = Clean[Player])
  <2>1. r.revision = row.revision + 1 /\ r.character = k /\ r.name = e.speaker
    BY <1>9
  <2> QED BY <1>5, <1>10, <2>1
<1> QED BY <1>6, <1>7, <1>12, <1>13, <1>14, <1>16, <1>17

\* The history goes on with what the row shows and what is told of it.
LEMMA ToldOn ==
  ASSUME NEW h \in Seq(Entry), NEW e \in Entry, h # <<>>, NEW g, g = Append(h, e),
         e.told # e.shown =>
           /\ e.told.text = e.shown.text /\ e.shown.speaker = Character
           /\ e.told.speaker = Clean[Player] /\ h[Len(h)].shown.speaker = Character,
         history = h, Segment!ToldIsShown, history' = g
  PROVE  Segment!ToldIsShown'
<1> HIDE DEF Entry
<1>1. /\ Len(h) \in Nat \ {0} /\ DOMAIN g = 1 .. Len(h) + 1 /\ DOMAIN h = 1 .. Len(h)
      /\ g[Len(h) + 1] = e /\ \A i \in 1 .. Len(h) : g[i] = h[i]
  OBVIOUS
<1>2. ASSUME NEW n \in DOMAIN g, g[n].told # g[n].shown
      PROVE  /\ n > 1 /\ g[n].told.text = g[n].shown.text
             /\ g[n].told.speaker = Clean[Player] /\ g[n].shown.speaker = Character
             /\ g[n - 1].shown.speaker = Character
  <2>1. CASE n = Len(h) + 1
    <3>1. Len(h) \in 1 .. Len(h) /\ n - 1 = Len(h) /\ n > 1 /\ g[n] = e
      BY <1>1, <2>1
    <3>2. g[n - 1] = h[Len(h)]
      BY <1>1, <3>1
    <3> QED BY <1>2, <3>1, <3>2
  <2>2. CASE n \in 1 .. Len(h)
    <3>1. g[n] = h[n]
      BY <1>1, <2>2
    <3>2. n > 1 /\ h[n].told.text = h[n].shown.text /\ h[n].told.speaker = Clean[Player]
          /\ h[n].shown.speaker = Character /\ h[n - 1].shown.speaker = Character
      BY <1>1, <1>2, <2>2, <3>1 DEF Segment!ToldIsShown
    <3>3. g[n - 1] = h[n - 1]
      BY <1>1, <2>2, <3>2
    <3> QED BY <3>1, <3>2, <3>3
  <2> QED BY <1>1, <2>1, <2>2
<1> QED BY <1>2 DEF Segment!ToldIsShown

LEMMA UpdateStep ==
  ASSUME SegmentInstance, SegmentInv, NEW t \in Tab, Segment!updateTranscriptSegmentAction(t)
  PROVE  SegmentInv'
<1>1. PICK c, a : c = Head(calls[t]) /\ a = Segment!mutateTranscriptSegment(t, c)
  OBVIOUS
<1>2. calls[t] # <<>> /\ c.kind = "save" /\ UNCHANGED <<pages, editor, typed>>
  BY <1>1 DEF Segment!updateTranscriptSegmentAction, Segment!Waiting
<1>3. CASE a # "ok" /\ Segment!Answers(t, a, Nil) /\ UNCHANGED <<row, history>>
  <2>1. a \in {"error", "conflict"}
    BY <1>1, <1>3 DEF Segment!mutateTranscriptSegment
  <2> QED BY <1>2, <1>3, <2>1, AnswerStep
<1>4. CASE /\ a = "ok" /\ Segment!edit_transcript_segment_atomic(Segment!cleaned(c.draft))
           /\ history' = Append(history, [shown |-> Segment!Shown(row'),
                                          told |-> Segment!cleaned(c.draft), by |-> t])
           /\ Segment!Answers(t, "ok", [shown |-> Segment!cleaned(c.draft), revision |-> row.revision + 1])
  <2>1. c \in Call(history, t) /\ c = calls[t][1] /\ c.draft \in Version
    <3>1. c \in Call(history, t) /\ c = calls[t][1]
      <4> HIDE DEF Call
      <4> QED BY <1>1, <1>2, AsIs DEF QueueInv
    <3> QED BY <1>2, <3>1 DEF Call
  <2>2. PICK e : e = Segment!cleaned(c.draft)
    OBVIOUS
  <2>3. Segment!prepareTranscriptEdit(c.draft)
    BY <1>1, <1>4 DEF Segment!mutateTranscriptSegment
  <2>4. PICK v : v = Segment!Shown(row')
    OBVIOUS
  <2>5. /\ e \in Version /\ v \in Version
        /\ row' \in [text : Value, name : Value, character : {Nil, Character}, revision : Nat]
        /\ row'.revision = row.revision + 1
        /\ row'.character # Nil => Clean[row'.name] = Clean[Player]
        /\ v # e => /\ v.text = e.text /\ v.speaker = Character
                    /\ e.speaker = Clean[Player] /\ Segment!Shown(row).speaker = Character
    <3>1. v = Segment!Shown(row)'
      BY <2>4 DEF Segment!Shown, Segment!shownSpeaker
    <3> QED BY <1>4, <2>1, <2>2, <2>3, <3>1, AsIs, RowTakes
  <2>6. PICK h, m : h = Append(history, m) /\ m = [shown |-> v, told |-> e, by |-> t]
    OBVIOUS
  <2>7. m \in Entry /\ m.shown = v /\ m.told = e /\ m.by = t
    <3> HIDE DEF Version
    <3> QED BY <2>5, <2>6 DEF Entry
  <2>8. /\ h \in Seq(Entry) /\ Len(h) = row.revision + 2 /\ h[Len(h)] = m /\ row.revision \in Nat
        /\ Own(h, t, row.revision + 1, e) /\ history' = h
    <3>1. /\ history \in Seq(Entry) /\ Len(history) = row.revision + 1 /\ row.revision \in Nat
      BY DEF SegmentInv, RowInv
    <3>2. history' = h
      BY <1>4, <2>2, <2>4, <2>6
    <3> HIDE DEF Entry
    <3> QED BY <2>6, <2>7, <3>1, <3>2 DEF Own
  <2>9. RowInv'
    <3>1. /\ history \in Seq(Entry) /\ history # <<>> /\ Segment!ToldIsShown
          /\ history[Len(history)].shown = Segment!Shown(row)
      BY DEF SegmentInv, RowInv
    <3>2. Segment!ToldIsShown'
      BY <2>5, <2>6, <2>7, <2>8, <3>1, ToldOn
    <3>3. history'[Len(history')].shown = Segment!Shown(row')
      BY <2>4, <2>7, <2>8
    <3>4. (Segment!Shown(row))' = Segment!Shown(row')
      BY DEF Segment!Shown, Segment!shownSpeaker
    <3> QED BY <2>5, <2>8, <3>2, <3>3, <3>4 DEF RowInv
  <2>10. \A u \in Tab : /\ PageInv(h, pages[u])
                        /\ QueueInv(h, u, editor[u], calls[u])
                        /\ EditInv(h, u, editor[u], calls[u], typed[u])
    BY <2>6, <2>7, AsIs, TabLastsInHistory
  <2>11. PICK x : x = [shown |-> e, revision |-> row.revision + 1]
    OBVIOUS
  <2>12. PICK q : q = FirstWith(calls[t], "ok", x)
    OBVIOUS
  <2>13. PICK d \in Call(h, t) : d = With(calls[t][1], "ok", x)
    <3>1. PICK d : d = [kind |-> c.kind, draft |-> c.draft, expected |-> c.expected, mine |-> c.mine,
                        answer |-> "ok", result |-> x]
      OBVIOUS
    <3>2. x \in [shown : Version, revision : Nat] /\ Own(h, t, x.revision, x.shown)
      <4> HIDE DEF Version
      <4>1. PICK n \in Nat : n = row.revision + 1
        BY <2>8
      <4>2. x = [shown |-> e, revision |-> n]
        BY <2>11, <4>1
      <4>3. x.shown = e /\ x.revision = n /\ x \in [shown : Version, revision : Nat]
        BY <2>5, <4>2
      <4> QED BY <2>8, <4>1, <4>3
    <3>3. d \in Call(h, t)
      <4> HIDE DEF Version
      <4>1. d.kind = "save" /\ d.draft = c.draft /\ d.result = x
        BY <1>2, <3>1
      <4>2. Tells(h, t, d)
        BY <3>2, <4>1 DEF Tells
      <4> QED BY <2>1, <3>1, <3>2, <4>1, <4>2 DEF Call, Segment!Answer
    <3>4. d = With(c, "ok", x)
      BY <2>1, <3>1, CallWith
    <3> QED BY <2>1, <3>3, <3>4
  <2>14. /\ QueueInv(h, t, editor[t], q)
         /\ \A i \in DOMAIN q : i \in DOMAIN calls[t] /\ q[i].mine = calls[t][i].mine
    BY <1>2, <2>10, <2>12, <2>13, QueueAnswered
  <2>15. EditInv(h, t, editor[t], q, typed[t])
    BY <2>10, <2>14 DEF EditInv
  <2>16. calls' = [calls EXCEPT ![t] = q]
    <3>1. t \in DOMAIN calls
      BY DEF SegmentInv
    <3>2. Segment!Answers(t, "ok", x)
      BY <1>4, <2>2, <2>11
    <3>3. calls' = [calls EXCEPT ![t][1].answer = "ok", ![t][1].result = x]
      BY <3>2 DEF Segment!Answers
    <3>4. [calls EXCEPT ![t][1].answer = "ok", ![t][1].result = x]
            = [calls EXCEPT ![t] = FirstWith(calls[t], "ok", x)]
      BY ONLY <3>1 DEF FirstWith
    <3> QED BY <2>12, <3>3, <3>4, Zenon
  <2>17. ASSUME NEW u \in Tab
         PROVE  /\ PageInv(h, pages'[u])
                /\ QueueInv(h, u, editor'[u], calls'[u])
                /\ EditInv(h, u, editor'[u], calls'[u], typed'[u])
    BY <1>2, <2>10, <2>14, <2>15, <2>16 DEF SegmentInv
  <2>18. /\ pages' = [u \in Tab |-> pages'[u]] /\ editor' = [u \in Tab |-> editor'[u]]
         /\ calls' = [u \in Tab |-> calls'[u]] /\ typed' = [u \in Tab |-> typed'[u]]
    BY <1>2, <2>16 DEF SegmentInv
  <2> QED BY <2>8, <2>9, <2>17, <2>18 DEF SegmentInv
<1> QED BY <1>1, <1>3, <1>4 DEF Segment!updateTranscriptSegmentAction

LEMMA ReadStep ==
  ASSUME SegmentInv, NEW t \in Tab, Segment!reloadTranscriptSegmentAction(t) PROVE SegmentInv'
<1>1. calls[t] # <<>> /\ UNCHANGED <<row, history, pages, editor, typed>>
  BY DEF Segment!reloadTranscriptSegmentAction, Segment!Waiting
<1>0. calls[t][1].kind # "save"
  <2>1. Head(calls[t]) = calls[t][1]
    <3> HIDE DEF Call
    <3> QED BY <1>1, AsIs DEF QueueInv
  <2> QED BY <2>1 DEF Segment!reloadTranscriptSegmentAction
<1>2. CASE Segment!Answers(t, "ok", Segment!readTranscriptSegment)
  BY <1>0, <1>1, <1>2, AnswerStep
<1>3. CASE Segment!Answers(t, "error", Nil)
  BY <1>1, <1>3, AnswerStep
<1> QED BY <1>2, <1>3 DEF Segment!reloadTranscriptSegmentAction

\* A call is done: its editor, if it is still there, goes on with u.
LEMMA DoneStep ==
  ASSUME SegmentInv, UNCHANGED <<row, history, pages>>, NEW t \in Tab, calls[t] # <<>>,
         calls' = [calls EXCEPT ![t] = Tail(@)], NEW u, NEW w,
         editor' = [editor EXCEPT ![t] = u], typed' = [typed EXCEPT ![t] = w],
         IF Head(calls[t]).mine THEN Faithful(history, t, u) /\ u.draft = w
         ELSE u = editor[t] /\ w = typed[t]
  PROVE  SegmentInv'
<1>1. PICK q : q = Tail(calls[t])
  OBVIOUS
<1>2. /\ QueueInv(history, t, u, q)
      /\ (\E i \in DOMAIN q : q[i].mine) => /\ ~ Head(calls[t]).mine
                                           /\ \E i \in DOMAIN calls[t] : calls[t][i].mine
  BY <1>1, AsIs, QueueGoesOn
<1>3. EditInv(history, t, u, q, w)
  BY <1>2, AsIs DEF EditInv
<1>4. calls' = [calls EXCEPT ![t] = q]
  BY <1>1
<1> QED BY <1>2, <1>3, <1>4, AsIs, TabChanges

LEMMA ReceiveStep ==
  ASSUME SegmentInv, NEW t \in Tab, Segment!Receive(t) PROVE SegmentInv'
<1>1. /\ calls[t] # <<>> /\ UNCHANGED <<row, history, pages>>
      /\ calls' = [calls EXCEPT ![t] = Tail(@)]
  BY DEF Segment!Receive, Segment!Answered
<1>2. PICK c : c = Head(calls[t])
  OBVIOUS
<1>3. c \in Call(history, t) /\ c = calls[t][1] /\ 1 \in DOMAIN calls[t]
  <2> HIDE DEF Call
  <2> QED BY <1>1, <1>2, AsIs DEF QueueInv
<1>4. CASE ~ c.mine
  <2>1. editor' = editor /\ typed' = typed
    BY <1>2, <1>4 DEF Segment!Receive
  <2>2. PICK u, w : u = editor[t] /\ w = typed[t]
    OBVIOUS
  <2>3. editor' = [editor EXCEPT ![t] = u] /\ typed' = [typed EXCEPT ![t] = w]
    BY <2>1, <2>2, AsIs
  <2> QED BY <1>1, <1>2, <1>4, <2>2, <2>3, DoneStep
<1>5. CASE c.mine
  <2>1. Waits(editor[t], c) /\ Faithful(history, t, editor[t]) /\ editor[t].draft = typed[t]
    BY <1>3, <1>5, AsIs DEF QueueInv, EditInv
  <2>2. CASE c.kind = "save" /\ c.answer = "ok"
    <3>1. PICK u : u = [Segment!completeTranscriptSaveSuccess(editor[t], c.draft, c.result.shown)
                          EXCEPT !.revision = c.result.revision]
      OBVIOUS
    <3>2. /\ Faithful(history, t, u)
          /\ u.draft = IF editor[t].draft = c.draft THEN c.result.shown ELSE editor[t].draft
      BY <1>3, <2>1, <2>2, <3>1, AsIs, Accepted DEF Waits, Call, Tells
    <3>3. PICK w : w = IF typed[t] = c.draft THEN c.result.shown ELSE typed[t]
      OBVIOUS
    <3>4. editor' = [editor EXCEPT ![t] = u] /\ typed' = [typed EXCEPT ![t] = w]
      BY <1>2, <1>5, <2>2, <3>1, <3>3, AsIs
         DEF Segment!Receive, Segment!Saved, Segment!Reloaded, Segment!Becomes
    <3>5. u.draft = w
      BY <2>1, <3>2, <3>3
    <3> QED BY <1>1, <1>2, <1>5, <3>2, <3>4, <3>5, DoneStep
  <2>3. CASE c.kind = "save" /\ c.answer # "ok"
    <3>1. c.answer \in {"error", "conflict"}
      BY <1>2, <1>3, <2>3 DEF Call, Segment!Answer, Segment!Receive, Segment!Answered
    <3>2. PICK u : u = Segment!completeTranscriptSaveFailure(editor[t], c.draft, c.answer)
      OBVIOUS
    <3>3. Faithful(history, t, u) /\ u.draft = typed[t]
      BY <2>1, <2>3, <3>1, <3>2, Refused DEF Waits
    <3>4. editor' = [editor EXCEPT ![t] = u] /\ typed' = typed
      BY <1>2, <1>5, <2>3, <3>2 DEF Segment!Receive, Segment!Saved, Segment!Reloaded,
        Segment!Becomes
    <3> QED BY <1>1, <1>2, <1>5, <3>3, <3>4, AsIs, DoneStep
  <2>4. CASE c.kind # "save"
    <3>1. PICK s : s = [editor[t] EXCEPT !.reloading = FALSE]
      OBVIOUS
    <3>2. Faithful(history, t, s) /\ s.draft = typed[t]
      BY <2>1, <3>1, Reloading
    <3>3. typed' = typed
      BY <1>2, <1>5, <2>4 DEF Segment!Receive, Segment!Saved, Segment!Reloaded
    <3>4. CASE c.answer = "ok"
      <4>1. PICK u : u = [Segment!loadTranscriptConflictRemote(s, c.result.shown)
                            EXCEPT !.revision = c.result.revision]
        OBVIOUS
      <4>2. Faithful(history, t, u) /\ u.draft = typed[t]
        <5>1. PICK x : x = c.result
          OBVIOUS
        <5>2. x \in [shown : Version, revision : Nat] /\ Was(history, x.revision, x.shown)
          BY <1>3, <2>4, <3>4, <5>1 DEF Call, Tells
        <5>3. editor[t].phase = "conflict"
          BY <2>1, <2>4 DEF Waits
        <5>4. u = [Segment!loadTranscriptConflictRemote([editor[t] EXCEPT !.reloading = FALSE], x.shown)
                     EXCEPT !.revision = x.revision]
          BY <3>1, <4>1, <5>1
        <5> QED BY <2>1, <5>2, <5>3, <5>4, AsIs, Fetched
      <4>3. editor' = [editor EXCEPT ![t] = u]
        BY <1>2, <1>5, <2>4, <3>1, <3>4, <4>1
           DEF Segment!Receive, Segment!Saved, Segment!Reloaded, Segment!Becomes
      <4> QED BY <1>1, <1>2, <1>5, <3>3, <4>2, <4>3, AsIs, DoneStep
    <3>5. CASE c.answer # "ok"
      <4>1. editor' = [editor EXCEPT ![t] = s]
        BY <1>2, <1>5, <2>4, <3>1, <3>5
           DEF Segment!Receive, Segment!Saved, Segment!Reloaded, Segment!Becomes
      <4> QED BY <1>1, <1>2, <1>5, <3>2, <3>3, <4>1, AsIs, DoneStep
    <3> QED BY <3>4, <3>5
  <2> QED BY <2>2, <2>3, <2>4
<1> QED BY <1>4, <1>5

\* A call that is lost leaves its editor saving, or free to ask again.
LEMMA CallLost ==
  ASSUME SegmentInv, NEW t \in Tab, Segment!Lost(t) PROVE SegmentInv'
<1>1. /\ calls[t] # <<>> /\ UNCHANGED <<row, history, pages, typed>>
      /\ calls' = [calls EXCEPT ![t] = Tail(@)]
  BY DEF Segment!Lost
<1>2. Head(calls[t]).mine => Faithful(history, t, editor[t]) /\ editor[t].draft = typed[t]
  <2>1. Head(calls[t]) = calls[t][1] /\ 1 \in DOMAIN calls[t]
    <3> HIDE DEF Call
    <3> QED BY <1>1, AsIs DEF QueueInv
  <2> QED BY <2>1, AsIs DEF EditInv
<1>3. CASE Head(calls[t]).mine /\ Head(calls[t]).kind = "reload"
  <2>1. PICK s : s = [editor[t] EXCEPT !.reloading = FALSE]
    OBVIOUS
  <2>2. Faithful(history, t, s) /\ s.draft = typed[t]
    BY <1>2, <1>3, <2>1, Reloading
  <2>3. editor' = [editor EXCEPT ![t] = s]
    BY <1>3, <2>1, AsIs DEF Segment!Lost
  <2> QED BY <1>1, <1>3, <2>2, <2>3, AsIs, DoneStep
<1>4. CASE ~ (Head(calls[t]).mine /\ Head(calls[t]).kind = "reload")
  <2>1. editor' = editor
    BY <1>4 DEF Segment!Lost
  <2>2. PICK u, w : u = editor[t] /\ w = typed[t]
    OBVIOUS
  <2>3. editor' = [editor EXCEPT ![t] = u] /\ typed' = [typed EXCEPT ![t] = w]
    BY <1>1, <2>1, <2>2, AsIs
  <2>4. IF Head(calls[t]).mine THEN Faithful(history, t, u) /\ u.draft = w
        ELSE u = editor[t] /\ w = typed[t]
    BY <1>2, <2>2
  <2> QED BY <1>1, <2>3, <2>4, DoneStep
<1> QED BY <1>3, <1>4

LEMMA SegmentStep ==
  ASSUME SegmentInstance, SegmentInv, [Segment!Next]_(Segment!vars) PROVE SegmentInv'
<1>1. CASE UNCHANGED <<row, history, pages, editor, calls, typed>>
  BY <1>1 DEF SegmentInv, RowInv, Segment!Shown, Segment!shownSpeaker, Segment!ToldIsShown
<1>2. ASSUME NEW t \in Tab, Segment!EditSessionPage(t) \/ Segment!TranscriptEditor(t)
      PROVE  SegmentInv'
  BY <1>2, PageLoadStep
<1>3. ASSUME NEW t \in Tab, Segment!Cancel(t) \/ Segment!Reconcile(t)
      PROVE  SegmentInv'
  BY <1>3, CancelStep
<1>4. ASSUME NEW t \in Tab, Segment!save(t) \/ Segment!loadCurrentVersion(t)
      PROVE  SegmentInv'
  BY <1>4, SendStep
<1>5. ASSUME NEW t \in Tab, NEW x \in Text, NEW y \in (Speaker \cup {Player, Character}) \ {Nil},
             Segment!Type(t, [text |-> x, speaker |-> y])
      PROVE  SegmentInv'
  BY <1>5, TypeStep
<1>6. ASSUME NEW t \in Tab, \/ Segment!updateTranscriptSegmentAction(t)
                            \/ Segment!reloadTranscriptSegmentAction(t)
                            \/ Segment!Receive(t) \/ Segment!Lost(t)
      PROVE  SegmentInv'
  BY <1>6, UpdateStep, ReadStep, ReceiveStep, CallLost
<1>7. ASSUME NEW t \in Tab, Segment!Role(t) PROVE SegmentInv'
  BY <1>1, <1>7 DEF Segment!Role
<1>8. CASE Segment!User
  BY <1>2, <1>3, <1>5, <1>6, <1>7, <1>8 DEF Segment!User
<1> QED BY <1>1, <1>3, <1>4, <1>6, <1>8 DEF Segment!Next, Segment!vars

\* The row as it was loaded first, and no page.
LEMMA SegmentInit == ASSUME SegmentInstance PROVE Segment!Init => SegmentInv
<1> SUFFICES ASSUME Segment!Init PROVE SegmentInv
  OBVIOUS
<1>1. row = [text |-> First, name |-> Player, character |-> Character, revision |-> 0]
  BY DEF Segment!Init
<1>2. PICK d : d = Segment!Shown(row)
  OBVIOUS
<1>3. d = [text |-> First, speaker |-> IF Character # Nil THEN Character ELSE Player]
  BY <1>1, <1>2 DEF Segment!Shown, Segment!shownSpeaker
<1>4. d \in Version
  BY <1>3 DEF Version, Value, SegmentInstance
<1>5. PICK m : m = [shown |-> d, told |-> d, by |-> Nil]
  OBVIOUS
<1>6. history \in Seq(Entry) /\ Len(history) = 1 /\ DOMAIN history = {1} /\ history[1] = m
  <2>1. history = <<m>>
    BY <1>2, <1>5 DEF Segment!Init
  <2>2. m \in Entry
    <3> HIDE DEF Version
    <3> QED BY <1>4, <1>5 DEF Entry
  <2> HIDE DEF Entry
  <2> QED BY <2>1, <2>2
<1>9. RowInv
  <2>1. First \in Value /\ Player \in Value
    BY DEF Value, SegmentInstance
  <2>2. m.told = m.shown /\ m.shown = d
    BY <1>5
  <2>3. Segment!ToldIsShown
    BY <1>6, <2>2 DEF Segment!ToldIsShown
  <2> HIDE DEF Value, Version
  <2>4. row \in [text : Value, name : Value, character : {Nil, Character}, revision : Nat]
    BY <1>1, <2>1
  <2>5. row.revision = 0 /\ row.name = Player
    BY <1>1
  <2> QED BY <1>2, <1>6, <2>2, <2>3, <2>4, <2>5 DEF RowInv
<1>7. ASSUME NEW t \in Tab
      PROVE  /\ PageInv(history, pages[t])
             /\ QueueInv(history, t, editor[t], calls[t])
             /\ EditInv(history, t, editor[t], calls[t], typed[t])
  <2>1. pages[t] = Nil /\ editor[t] = Nil /\ calls[t] = <<>>
    BY DEF Segment!Init
  <2>2. <<>> \in Seq(Call(history, t)) /\ DOMAIN (<<>>) = {}
    OBVIOUS
  <2> QED BY <2>1, <2>2 DEF PageInv, QueueInv, EditInv
<1>8. /\ pages = [t \in Tab |-> pages[t]] /\ editor = [t \in Tab |-> editor[t]]
      /\ calls = [t \in Tab |-> calls[t]] /\ typed = [t \in Tab |-> typed[t]]
  BY DEF Segment!Init
<1> QED BY <1>7, <1>8, <1>9 DEF SegmentInv

\* The invariant of the row, its readers and its editors.
THEOREM SegmentInvariant == ASSUME SegmentInstance PROVE Segment!Spec => []SegmentInv
<1>1. SegmentInv /\ [Segment!Next]_(Segment!vars) => SegmentInv'
  BY SegmentStep
<1> QED BY <1>1, SegmentInit, PTL DEF Segment!Spec

(* An editor saves only over the version it shows, what was typed stays on *)
(* its page, "saved" is said of what its save was told, and that is what   *)
(* the row shows unless the row's own name was typed under a character:    *)
(* for any number of tabs, texts, speakers and edits.                      *)
THEOREM SegmentIsSavedAsShown ==
  ASSUME SegmentInstance
  PROVE  Segment!Spec => [](/\ Segment!SavesOverWhatItShows /\ Segment!TypedIsShown
                            /\ Segment!ToldIsShown)
<1>1. SegmentInv => Segment!SavesOverWhatItShows
  BY DEF SegmentInv, EditInv, Faithful, Was, Own, Segment!Showed, Segment!Told,
    Segment!SavesOverWhatItShows, Segment!On
<1>2. SegmentInv => Segment!TypedIsShown
  <2> SUFFICES ASSUME SegmentInv, NEW t \in Tab, editor[t] # Nil
               PROVE  /\ editor[t].draft = typed[t]
                      /\ editor[t].phase = "saved" =>
                           Segment!Told(t, editor[t].revision, typed[t])
    BY DEF Segment!TypedIsShown, Segment!On
  <2>1. Faithful(history, t, editor[t]) /\ editor[t].draft = typed[t]
    BY DEF SegmentInv, EditInv
  <2> QED BY <2>1 DEF Faithful, Own, Segment!Told
<1>3. SegmentInv => Segment!ToldIsShown
  BY DEF SegmentInv, RowInv
<1> QED BY <1>1, <1>2, <1>3, SegmentInvariant, PTL

-----------------------------------------------------------------------------
(* LembraLibrary *)
CONSTANTS Ref, Old, File, Image, Part, Opening, Caption, MaxUse, MaxMishap
VARIABLES shelf, pending, object, favorites, references, favoriteIds, broken, filter, intent,
  viewer, saving, asks, uses, mishaps, chosen, doubtful

Lembra == INSTANCE LembraLibrary WITH First <- Opening, Text <- Caption, MaxOp <- MaxUse,
  MaxFault <- MaxMishap, row <- shelf, draft <- intent, calls <- asks, ops <- uses,
  faults <- mishaps

Shelved == [text : Caption, file : File, status : {"active", "retired"}]
Choice == [file : File, text : Caption]
Composed == [file : File, text : Caption \cup {Nil}]
SavingRecord == [kind : {"upload", "edit", "remove"}, phase : {"asked", "sending"}, ref : Ref]

(* "No value" is no value of another kind, and there is an image at first. *)
LembraInstance ==
  /\ Nil \notin Ref \cup Caption \cup Shelved \cup Composed \cup SavingRecord
  /\ Old \in Ref /\ Opening \in Choice /\ Opening.file \in Image
  /\ Part \in Nat \ {0}

LibraryTyped ==
  /\ shelf \in [Ref -> Shelved \cup {Nil}] /\ object \in [Ref -> File \cup {Nil}]
  /\ pending \in [Ref -> Seq(File \cup {Lembra!Spoilt})]
  /\ favorites \subseteq Ref /\ chosen \in [Ref -> Choice \cup {Nil}]
GalleryTyped ==
  /\ references \in [Ref -> Caption \cup {Nil}] /\ favoriteIds \subseteq Ref
  /\ intent \in Composed \cup {Nil}
  /\ viewer \in [ref : Ref \cup {Nil}, typed : Caption \cup {Nil}, confirm : BOOLEAN]
  /\ saving \in SavingRecord \cup {Nil} /\ asks \in Seq(Lembra!Call)

(* What is shown or liked is in the library.                               *)
Known(r) == references[r] # Nil \/ r \in favorites \cup favoriteIds => shelf[r] # Nil
ViewerKnown == viewer.ref # Nil => references[viewer.ref] # Nil

(* What is being sent is new to everybody, until its call has been served. *)
Uploading(r) == IF saving = Nil THEN FALSE ELSE saving.kind = "upload" /\ saving.ref = r
Unseen(r) == references[r] = Nil /\ r \notin favorites \cup favoriteIds /\ chosen[r] # Nil
UploadNew ==
  /\ \A r \in Ref : Uploading(r) => Unseen(r)
  /\ Lembra!Sending => /\ saving.kind = "upload" /\ shelf[saving.ref] = Nil
                       /\ \A i \in DOMAIN asks : asks[i].kind = "favorite"

(* A call, unless it is a heart's, is that of what is being saved; and the *)
(* one that brings a reference in brings what was chosen.                  *)
Purpose(kind) ==
  CASE kind = "update" -> "edit" [] kind = "retire" -> "remove" [] OTHER -> "upload"
Meant(c) == saving = [kind |-> Purpose(c.kind), phase |-> "asked", ref |-> c.ref]
CallKept(c) ==
  /\ c.kind # "favorite" => Meant(c)
  /\ c.kind = "favorite" => shelf[c.ref] # Nil /\ ~Uploading(c.ref)
  /\ c.kind = "update" => c.text \in Caption
  /\ c.kind = "request" => shelf[c.ref] = Nil
  /\ c.kind = "finalize" =>
       /\ c.file \in File /\ c.text \in Caption
       /\ c.answer = "none" => /\ shelf[c.ref] = Nil /\ Len(pending[c.ref]) = Part
                               /\ chosen[c.ref] = [file |-> c.file, text |-> c.text]
       /\ c.answer = "ok" => shelf[c.ref] # Nil
CallsKept == \A i \in DOMAIN asks : CallKept(asks[i])
OneAsked ==
  \A i, j \in DOMAIN asks : asks[i].kind # "favorite" /\ asks[j].kind # "favorite" => i = j

(* A heart pressed once is what its call asks for, and the server's is     *)
(* what it was before or what is asked, as the call was served or not.     *)
HeartCall(i, r) == asks[i].kind = "favorite" /\ asks[i].ref = r
OneHeart ==
  \A r \in Ref \ doubtful : \A i, j \in DOMAIN asks : HeartCall(i, r) /\ HeartCall(j, r) => i = j
Pressed(c) ==
  /\ c.ref \in favoriteIds <=> c.on
  /\ c.answer \in {"none", "refused"} => (c.ref \in favorites <=> ~c.on)
  /\ c.answer = "ok" => (c.ref \in favorites <=> c.on)
Hearts ==
  \A r \in Ref \ doubtful : references[r] # Nil /\ Lembra!Active(r) =>
    /\ ~Lembra!Toggling(r) => (r \in favoriteIds <=> r \in favorites)
    /\ \A i \in DOMAIN asks : HeartCall(i, r) => Pressed(asks[i])

LembraInv ==
  /\ LibraryTyped /\ GalleryTyped /\ ViewerKnown /\ UploadNew /\ CallsKept /\ OneAsked
  /\ OneHeart /\ Hearts /\ Lembra!SavedAsChosen
  /\ \A r \in Ref : Known(r)

\* A queue without its first call, and with one more.
LEMMA AsksLeft ==
  ASSUME NEW q \in Seq(Lembra!Call), q # <<>>
  PROVE  /\ Tail(q) \in Seq(Lembra!Call) /\ 1 \in DOMAIN q /\ Head(q) = q[1]
         /\ Head(q) \in Lembra!Call
         /\ \A i \in DOMAIN Tail(q) : /\ i \in Nat /\ i + 1 \in DOMAIN q /\ i + 1 # 1
                                      /\ Tail(q)[i] = q[i + 1]
         /\ \A i \in DOMAIN q \ {1} : i - 1 \in DOMAIN Tail(q) /\ Tail(q)[i - 1] = q[i]
OBVIOUS

LEMMA AsksMore ==
  ASSUME NEW q \in Seq(Lembra!Call), NEW c \in Lembra!Call
  PROVE  /\ Append(q, c) \in Seq(Lembra!Call)
         /\ Len(q) + 1 \in DOMAIN Append(q, c) /\ Append(q, c)[Len(q) + 1] = c
         /\ \A i \in DOMAIN q : i \in DOMAIN Append(q, c) /\ Append(q, c)[i] = q[i]
         /\ \A i \in DOMAIN Append(q, c) :
              i = Len(q) + 1 \/ (i \in DOMAIN q /\ i # Len(q) + 1 /\ Append(q, c)[i] = q[i])
OBVIOUS

LEMMA AsksAnswered ==
  ASSUME NEW q \in Seq(Lembra!Call), q # <<>>, NEW a \in {"ok", "refused", "lost"},
         NEW e, e = [q EXCEPT ![1].answer = a]
  PROVE  /\ e \in Seq(Lembra!Call) /\ DOMAIN e = DOMAIN q /\ 1 \in DOMAIN q
         /\ e[1] = [q[1] EXCEPT !.answer = a] /\ \A i \in DOMAIN q \ {1} : e[i] = q[i]
<1>1. 1 \in DOMAIN q /\ q[1] \in Lembra!Call /\ Len(q) \in Nat /\ DOMAIN q = 1 .. Len(q)
  OBVIOUS
<1>2. [q[1] EXCEPT !.answer = a] \in Lembra!Call
  BY <1>1 DEF Lembra!Call
<1> QED BY <1>1, <1>2

\* What a step that changes neither the library nor its calls leaves.
LEMMA LembraSame ==
  ASSUME LembraInv, UNCHANGED <<shelf, object, favorites, references, favoriteIds, saving, asks,
                                chosen, doubtful>>,
         pending' = pending
  PROVE  /\ LibraryTyped' /\ UploadNew' /\ CallsKept' /\ OneAsked' /\ OneHeart' /\ Hearts'
         /\ Lembra!SavedAsChosen' /\ \A r \in Ref : Known(r)'
<1>1. LibraryTyped' /\ Lembra!SavedAsChosen' /\ \A r \in Ref : Known(r)'
  BY DEF LembraInv, LibraryTyped, Lembra!SavedAsChosen, Lembra!Mine, Known, Shelved, Choice
<1>2. UploadNew' /\ OneAsked'
  BY DEF LembraInv, UploadNew, Uploading, Unseen, Lembra!Sending, Lembra!Idle, OneAsked
<1>3. CallsKept'
  BY DEF LembraInv, CallsKept, CallKept, Meant, Purpose, Uploading
<1>4. OneHeart' /\ Hearts'
  BY DEF LembraInv, OneHeart, HeartCall, Hearts, Pressed, Lembra!Active, Lembra!Toggling
<1> QED BY <1>1, <1>2, <1>3, <1>4

\* What the user looks at and composes.
LEMMA LembraLooks ==
  ASSUME LembraInv, UNCHANGED <<shelf, pending, object, favorites, references, favoriteIds,
                                saving, asks, chosen, doubtful>>,
         intent' \in Composed \cup {Nil}, viewer' = viewer \/ viewer' = Lembra!Closed
           \/ \E r \in Ref, x \in Caption \cup {Nil}, b \in BOOLEAN :
                references[r] # Nil /\ viewer' = [ref |-> r, typed |-> x, confirm |-> b]
  PROVE  LembraInv'
<1>1. GalleryTyped'
  <2>1. viewer' \in [ref : Ref \cup {Nil}, typed : Caption \cup {Nil}, confirm : BOOLEAN]
    <3>1. CASE viewer' = viewer
      BY <3>1 DEF LembraInv, GalleryTyped
    <3>2. CASE viewer' = Lembra!Closed
      BY <3>2 DEF Lembra!Closed
    <3>3. CASE \E r \in Ref, x \in Caption \cup {Nil}, b \in BOOLEAN :
                 references[r] # Nil /\ viewer' = [ref |-> r, typed |-> x, confirm |-> b]
      BY <3>3
    <3> QED BY <3>1, <3>2, <3>3
  <2>2. asks' \in Seq(Lembra!Call)' /\ saving' \in (SavingRecord \cup {Nil})'
    BY DEF LembraInv, GalleryTyped, SavingRecord, Lembra!Call
  <2>3. references' \in [Ref -> Caption \cup {Nil}] /\ favoriteIds' \subseteq Ref
    BY DEF LembraInv, GalleryTyped
  <2> QED BY <2>1, <2>2, <2>3 DEF GalleryTyped, Composed
<1>2. ViewerKnown'
  BY DEF LembraInv, ViewerKnown, Lembra!Closed
<1> QED BY <1>1, <1>2, LembraSame DEF LembraInv

LEMMA ViewerStep ==
  ASSUME LembraInstance, LembraInv,
         \/ \E r \in Ref : Lembra!openViewer(r) \/ Lembra!moveViewer(r)
         \/ Lembra!closeViewer \/ Lembra!AskToRemove
         \/ \E x \in Caption : Lembra!startEditing(x)
  PROVE  LembraInv'
<1>1. /\ UNCHANGED <<shelf, pending, object, favorites, references, favoriteIds, saving, asks,
                     chosen, doubtful, intent>>
  BY DEF Lembra!openViewer, Lembra!moveViewer, Lembra!closeViewer, Lembra!AskToRemove,
    Lembra!startEditing, Lembra!server, Lembra!ghost
<1>2. /\ intent \in Composed \cup {Nil} /\ ViewerKnown
      /\ viewer \in [ref : Ref \cup {Nil}, typed : Caption \cup {Nil}, confirm : BOOLEAN]
  BY DEF LembraInv, GalleryTyped
<1>3. viewer' = viewer \/ viewer' = Lembra!Closed
        \/ \E r \in Ref, x \in Caption \cup {Nil}, b \in BOOLEAN :
             references[r] # Nil /\ viewer' = [ref |-> r, typed |-> x, confirm |-> b]
  <2>1. ASSUME NEW r \in Ref, Lembra!openViewer(r) \/ Lembra!moveViewer(r)
        PROVE  references[r] # Nil /\ viewer' = [ref |-> r, typed |-> Nil, confirm |-> FALSE]
    BY <2>1 DEF Lembra!openViewer, Lembra!moveViewer, Lembra!CardOffers, Lembra!Visible,
      Lembra!Shown, Lembra!Open, Lembra!Closed
  <2>2. CASE Lembra!closeViewer
    BY <1>2, <2>2 DEF Lembra!closeViewer, ViewerKnown
  <2>3. CASE Lembra!AskToRemove
    BY <1>2, <2>3 DEF Lembra!AskToRemove, Lembra!ViewerOffers, Lembra!Open, Lembra!Closed,
      ViewerKnown
  <2>4. CASE \E x \in Caption : Lembra!startEditing(x)
    BY <1>2, <2>4 DEF Lembra!startEditing, Lembra!ViewerOffers, ViewerKnown
  <2> QED BY <2>1, <2>2, <2>3, <2>4
<1> QED BY <1>1, <1>2, <1>3, LembraLooks

LEMMA ComposerStep ==
  ASSUME LembraInstance, LembraInv,
         \/ \E v \in {"all", "mine", "favorites"}, q \in Caption \cup {Nil} :
              Lembra!Toolbar(v, q)
         \/ \E f \in File, x \in Caption \cup {Nil} : Lembra!prepareFile(f, x)
         \/ \E x \in Caption : Lembra!Compose(x)
         \/ Lembra!closeDraft \/ \E r \in Ref : Lembra!ImageFails(r)
  PROVE  LembraInv'
<1>1. /\ UNCHANGED <<shelf, pending, object, favorites, references, favoriteIds, saving, asks,
                     chosen, doubtful, viewer>>
  BY DEF Lembra!Toolbar, Lembra!prepareFile, Lembra!Compose, Lembra!closeDraft,
    Lembra!ImageFails, Lembra!server, Lembra!ghost
<1>2. intent' \in Composed \cup {Nil}
  BY DEF Lembra!Toolbar, Lembra!prepareFile, Lembra!Compose, Lembra!closeDraft,
    Lembra!ImageFails, Lembra!ComposerOffers, LembraInv, GalleryTyped, Composed
<1> QED BY <1>1, <1>2, LembraLooks

\* A page that is loaded again shows what is in the library.
LEMMA PageLoaded ==
  ASSUME LembraInstance, LembraInv, Lembra!LembraPage
  PROVE  LembraInv'
<1>1. /\ asks = <<>> /\ saving = Nil /\ asks' = asks /\ saving' = saving /\ intent' = Nil
      /\ viewer' = Lembra!Closed /\ doubtful' = {}
      /\ references' = Lembra!Loaded /\ favoriteIds' = {r \in favorites : Lembra!Active(r)}
      /\ UNCHANGED <<shelf, pending, object, favorites, chosen>>
  BY DEF Lembra!LembraPage, Lembra!Idle, Lembra!server
<1>2. \A i \in DOMAIN asks' : FALSE
  BY <1>1
<1>3. LibraryTyped' /\ Lembra!SavedAsChosen'
  BY <1>1 DEF LembraInv, LibraryTyped, Lembra!SavedAsChosen, Lembra!Mine, Shelved, Choice
<1>4. GalleryTyped' /\ ViewerKnown'
  <2>1. references' \in [Ref -> Caption \cup {Nil}]
    BY <1>1 DEF Lembra!Loaded, Lembra!Active, LembraInv, LibraryTyped, Shelved
  <2>2. viewer' \in [ref : Ref \cup {Nil}, typed : Caption \cup {Nil}, confirm : BOOLEAN]
    BY <1>1 DEF Lembra!Closed
  <2>3. asks' \in Seq(Lembra!Call) /\ favoriteIds' \subseteq Ref
    BY <1>1 DEF LembraInv, GalleryTyped, LibraryTyped, Lembra!Call
  <2> QED BY <1>1, <2>1, <2>2, <2>3 DEF GalleryTyped, ViewerKnown, Lembra!Closed, Composed,
    Lembra!Call
<1>5. UploadNew' /\ CallsKept' /\ OneAsked' /\ OneHeart'
  BY <1>1, <1>2 DEF UploadNew, Uploading, Lembra!Sending, Lembra!Idle, CallsKept, OneAsked,
    OneHeart
<1>6. Hearts'
  BY <1>1, <1>2 DEF Hearts, Lembra!Active
<1>7. \A r \in Ref : Known(r)'
  BY <1>1 DEF LembraInv, Known, Lembra!Loaded, Lembra!Active
<1> QED BY <1>3, <1>4, <1>5, <1>6, <1>7 DEF LembraInv

\* A call that starts a save, an edit or a removal.
LEMMA SavingAsked ==
  ASSUME LembraInstance, LembraInv, saving = Nil, NEW c \in Lembra!Call,
         c.kind \in {"request", "update", "retire"}, asks' = Append(asks, c),
         saving' = [kind |-> Purpose(c.kind), phase |-> "asked", ref |-> c.ref],
         c.kind = "update" => c.text \in Caption,
         c.kind = "request" => /\ shelf[c.ref] = Nil /\ chosen[c.ref] = Nil
                               /\ chosen' = [chosen EXCEPT ![c.ref] = intent]
                               /\ intent \in Choice,
         c.kind # "request" => chosen' = chosen,
         UNCHANGED <<shelf, pending, object, favorites, references, favoriteIds, intent, viewer,
                     doubtful>>
  PROVE  LembraInv'
<1>1. /\ asks \in Seq(Lembra!Call) /\ asks' \in Seq(Lembra!Call) /\ c.ref \in Ref
      /\ c.kind # "favorite"
      /\ Len(asks) + 1 \in DOMAIN asks' /\ asks'[Len(asks) + 1] = c
      /\ \A i \in DOMAIN asks : i \in DOMAIN asks' /\ asks'[i] = asks[i]
      /\ \A i \in DOMAIN asks' :
           i = Len(asks) + 1 \/ (i \in DOMAIN asks /\ i # Len(asks) + 1 /\ asks'[i] = asks[i])
  BY AsksMore DEF LembraInv, GalleryTyped, Lembra!Call
<1>2. \A i \in DOMAIN asks : asks[i].kind = "favorite" /\ CallKept(asks[i])
  <2> SUFFICES ASSUME NEW i \in DOMAIN asks PROVE asks[i].kind = "favorite" /\ CallKept(asks[i])
    OBVIOUS
  <2>1. CallKept(asks[i]) /\ asks[i] \in Lembra!Call
    BY <1>1 DEF LembraInv, CallsKept
  <2>2. [kind |-> Purpose(asks[i].kind), phase |-> "asked", ref |-> asks[i].ref] \in SavingRecord
    BY <2>1 DEF SavingRecord, Purpose, Lembra!Call
  <2> QED BY <2>1, <2>2 DEF CallKept, Meant, LembraInstance
<1>3. saving' \in SavingRecord /\ saving' # Nil /\ saving'.phase = "asked" /\ saving'.ref = c.ref
      /\ saving'.kind = Purpose(c.kind)
  BY <1>1 DEF SavingRecord, Purpose, LembraInstance
<1>4. LibraryTyped' /\ chosen' \in [Ref -> Choice \cup {Nil}]
  BY <1>1 DEF LembraInv, LibraryTyped, Shelved, Choice
<1>5. Lembra!SavedAsChosen'
  BY <1>1, <1>4 DEF LembraInv, LibraryTyped, Lembra!SavedAsChosen, Lembra!Mine
<1>6. GalleryTyped' /\ ViewerKnown' /\ \A r \in Ref : Known(r)'
  BY <1>1, <1>3 DEF LembraInv, GalleryTyped, ViewerKnown, Known, Composed, SavingRecord,
    Lembra!Call
<1>7. UploadNew'
  <2>1. ~Lembra!Sending'
    BY <1>3 DEF Lembra!Sending, Lembra!Idle
  <2>2. ASSUME NEW r \in Ref, Uploading(r)' PROVE Unseen(r)'
    <3>1. c.kind = "request" /\ r = c.ref
      BY <1>1, <1>3, <2>2 DEF Uploading, Purpose
    <3>2. references[r] = Nil /\ r \notin favorites \cup favoriteIds
      BY <3>1 DEF LembraInv, Known
    <3>3. chosen'[r] # Nil
      BY <3>1, <1>1 DEF LembraInv, LibraryTyped, LembraInstance, Choice, Composed
    <3> QED BY <3>2, <3>3 DEF Unseen
  <2> QED BY <2>1, <2>2 DEF UploadNew
<1>8. CallsKept'
  <2>1. ASSUME NEW i \in DOMAIN asks PROVE CallKept(asks[i])'
    <3>1. shelf'[asks[i].ref] # Nil
      BY <1>2 DEF CallKept
    <3>2. ~Uploading(asks[i].ref)'
      BY <1>1, <1>2, <1>3, <3>1 DEF Uploading, CallKept, Purpose
    <3>3. asks'[i] = asks[i]
      BY <1>1
    <3> QED BY <1>2, <3>1, <3>2, <3>3 DEF CallKept
  <2>2. CallKept(c)'
    BY <1>1, <1>3 DEF CallKept, Meant
  <2> QED BY <1>1, <2>1, <2>2 DEF CallsKept
<1>9. OneAsked' /\ OneHeart'
  BY <1>1, <1>2 DEF LembraInv, OneAsked, OneHeart, HeartCall
<1>10. Hearts'
  <2>1. \A r \in Ref : Lembra!Toggling(r)' <=> Lembra!Toggling(r)
    BY <1>1 DEF Lembra!Toggling
  <2>2. \A r \in Ref : Lembra!Active(r)' <=> Lembra!Active(r)
    BY DEF Lembra!Active
  <2> QED BY <1>1, <2>1, <2>2 DEF LembraInv, Hearts, HeartCall, Pressed
<1> QED BY <1>4, <1>5, <1>6, <1>7, <1>8, <1>9, <1>10 DEF LembraInv

LEMMA AskStarts ==
  ASSUME LembraInstance, LembraInv,
         \/ \E r \in Ref : Lembra!saveReference(r)
         \/ Lembra!saveReferenceEdit \/ Lembra!removeSelectedReference
  PROVE  LembraInv'
<1>1. /\ viewer.ref \in Ref \cup {Nil} /\ viewer.typed \in Caption \cup {Nil}
      /\ intent \in Composed \cup {Nil}
  BY DEF LembraInv, GalleryTyped
<1>2. ASSUME NEW r \in Ref, Lembra!saveReference(r) PROVE LembraInv'
  <2>1. intent \in Choice
    BY <1>1, <1>2 DEF Lembra!saveReference, Lembra!ComposerOffers, Composed, Choice
  <2>2. PICK c : c = Lembra!Asked("request", r, intent.text, intent.file, FALSE)
    OBVIOUS
  <2>3. c \in Lembra!Call /\ c.kind = "request" /\ c.ref = r
    BY <2>1, <2>2 DEF Lembra!Asked, Lembra!Call, Choice
  <2> QED BY <1>2, <2>1, <2>2, <2>3, SavingAsked
        DEF Lembra!saveReference, Lembra!ComposerOffers, Lembra!Idle, Lembra!Ask, Purpose,
          Lembra!server
<1>3. ASSUME Lembra!saveReferenceEdit PROVE LembraInv'
  <2>1. PICK c : c = Lembra!Asked("update", viewer.ref, viewer.typed, Nil, FALSE)
    OBVIOUS
  <2>2. c \in Lembra!Call /\ c.kind = "update" /\ c.ref = viewer.ref /\ c.text \in Caption
    BY <1>1, <1>3, <2>1 DEF Lembra!saveReferenceEdit, Lembra!ViewerOffers, Lembra!Asked,
      Lembra!Call
  <2> QED BY <1>3, <2>1, <2>2, SavingAsked
        DEF Lembra!saveReferenceEdit, Lembra!ViewerOffers, Lembra!Idle, Lembra!Ask, Purpose,
          Lembra!server, Lembra!ghost
<1>4. ASSUME Lembra!removeSelectedReference PROVE LembraInv'
  <2>1. PICK c : c = Lembra!Asked("retire", viewer.ref, Nil, Nil, FALSE)
    OBVIOUS
  <2>2. c \in Lembra!Call /\ c.kind = "retire" /\ c.ref = viewer.ref
    BY <1>1, <1>4, <2>1 DEF Lembra!removeSelectedReference, Lembra!ViewerOffers, Lembra!Asked,
      Lembra!Call
  <2> QED BY <1>4, <2>1, <2>2, SavingAsked
        DEF Lembra!removeSelectedReference, Lembra!ViewerOffers, Lembra!Idle, Lembra!Ask, Purpose,
          Lembra!server, Lembra!ghost
<1> QED BY <1>2, <1>3, <1>4

\* A heart pressed changes at once, and asks for what it shows.
LEMMA HeartPressed ==
  ASSUME LembraInstance, LembraInv, NEW r \in Ref, Lembra!toggleFavorite(r)
  PROVE  LembraInv'
<1>0. PICK on, c : /\ on = (r \notin favoriteIds) /\ on \in BOOLEAN
                   /\ c = Lembra!Asked("favorite", r, Nil, Nil, on)
  OBVIOUS
<1>1. /\ asks' = Append(asks, c) /\ favoriteIds' = Lembra!With(favoriteIds, r, on)
      /\ doubtful' = (IF Lembra!Toggling(r) THEN doubtful \cup {r} ELSE doubtful)
      /\ viewer' = Lembra!Kept(viewer) /\ references[r] # Nil
      /\ UNCHANGED <<shelf, pending, object, favorites, references, saving, chosen, intent, filter>>
  BY <1>0 DEF Lembra!toggleFavorite, Lembra!Ask, Lembra!CardOffers, Lembra!Visible, Lembra!Shown,
    Lembra!server, Lembra!ViewerOffers, LembraInv, ViewerKnown, LembraInstance
<1>2. c \in Lembra!Call /\ c.kind = "favorite" /\ c.ref = r /\ c.on = on /\ c.answer = "none"
  BY <1>0 DEF Lembra!Asked, Lembra!Call
<1>3. /\ shelf[r] # Nil /\ ~Uploading(r)
  BY <1>1 DEF LembraInv, Known, UploadNew, Unseen
<1>4. /\ asks \in Seq(Lembra!Call) /\ asks' \in Seq(Lembra!Call)
      /\ Len(asks) + 1 \in DOMAIN asks' /\ asks'[Len(asks) + 1] = c
      /\ \A i \in DOMAIN asks : i \in DOMAIN asks' /\ asks'[i] = asks[i]
      /\ \A i \in DOMAIN asks' :
           i = Len(asks) + 1 \/ (i \in DOMAIN asks /\ i # Len(asks) + 1 /\ asks'[i] = asks[i])
  BY <1>1, <1>2, AsksMore DEF LembraInv, GalleryTyped
<1>5. /\ \A x \in Ref \ {r} : x \in favoriteIds' <=> x \in favoriteIds
      /\ r \in favoriteIds' <=> on
      /\ favoriteIds' \subseteq Ref
  BY <1>0, <1>1 DEF Lembra!With, LembraInv, GalleryTyped
<1>6. LibraryTyped' /\ Lembra!SavedAsChosen'
  BY <1>1 DEF LembraInv, LibraryTyped, Lembra!SavedAsChosen, Lembra!Mine, Shelved, Choice
<1>7. GalleryTyped' /\ ViewerKnown'
  <2>1. \A x \in Ref : x \in Lembra!Visible' => references'[x] # Nil
    BY DEF Lembra!Visible, Lembra!Shown
  <2>2. viewer' = Lembra!Closed \/ (viewer' = viewer /\ viewer.ref \in Lembra!Visible')
    BY <1>1 DEF Lembra!Kept
  <2>3. viewer' \in [ref : Ref \cup {Nil}, typed : Caption \cup {Nil}, confirm : BOOLEAN]
    <3>1. Lembra!Closed \in [ref : Ref \cup {Nil}, typed : Caption \cup {Nil}, confirm : BOOLEAN]
      BY DEF Lembra!Closed
    <3> QED BY <2>2, <3>1 DEF LembraInv, GalleryTyped
  <2>4. saving' \in (SavingRecord \cup {Nil})' /\ intent' \in (Composed \cup {Nil})'
    BY <1>1 DEF LembraInv, GalleryTyped, SavingRecord, Composed
  <2>5. asks' \in Seq(Lembra!Call)'
    BY <1>4 DEF Lembra!Call
  <2>6. GalleryTyped'
    BY <1>1, <1>5, <2>3, <2>4, <2>5 DEF GalleryTyped, LembraInv
  <2>7. ViewerKnown'
    BY <1>1, <2>1, <2>2 DEF LembraInv, ViewerKnown, Lembra!Closed, GalleryTyped
  <2> QED BY <2>6, <2>7
<1>8. \A x \in Ref : Known(x)'
  BY <1>1, <1>3, <1>5 DEF LembraInv, Known
<1>9. UploadNew'
  BY <1>1, <1>2, <1>3, <1>4, <1>5 DEF LembraInv, UploadNew, Uploading, Unseen, Lembra!Sending,
    Lembra!Idle
<1>10. CallsKept'
  <2>1. ASSUME NEW x, CallKept(x) PROVE CallKept(x)'
    BY <1>1, <2>1 DEF CallKept, Meant, Uploading
  <2>2. CallKept(c)'
    BY <1>1, <1>2, <1>3 DEF CallKept, Uploading
  <2> QED BY <1>4, <2>1, <2>2 DEF LembraInv, CallsKept
<1>11. OneAsked'
  BY <1>2, <1>4 DEF LembraInv, OneAsked
<1>12. OneHeart'
  <2>1. Lembra!Toggling(r) => r \in doubtful'
    BY <1>1
  <2>2. ~Lembra!Toggling(r) => \A i \in DOMAIN asks : ~HeartCall(i, r)
    BY DEF Lembra!Toggling, HeartCall
  <2>3. doubtful \subseteq doubtful'
    BY <1>1
  <2> QED BY <1>2, <1>4, <2>1, <2>2, <2>3 DEF LembraInv, OneHeart, HeartCall
<1>13. Hearts'
  <2> SUFFICES ASSUME NEW x \in Ref \ doubtful', references[x] # Nil, Lembra!Active(x)
               PROVE  /\ ~Lembra!Toggling(x)' => (x \in favoriteIds' <=> x \in favorites)
                      /\ \A i \in DOMAIN asks' : HeartCall(i, x)' => Pressed(asks[i])'
    BY <1>1 DEF Hearts, Lembra!Active
  <2>1. x \notin doubtful
    BY <1>1
  <2>2. /\ ~Lembra!Toggling(x) => (x \in favoriteIds <=> x \in favorites)
        /\ \A i \in DOMAIN asks : HeartCall(i, x) => Pressed(asks[i])
    BY <2>1 DEF LembraInv, Hearts
  <2>3. CASE x = r
    <3>1. ~Lembra!Toggling(r)
      BY <1>1, <2>3
    <3>2. \A i \in DOMAIN asks : ~HeartCall(i, x)
      BY <2>3, <3>1 DEF Lembra!Toggling, HeartCall
    <3>3. Lembra!Toggling(x)'
      BY <1>2, <1>4, <2>3 DEF Lembra!Toggling
    <3>4. r \in favorites <=> ~on
      BY <1>0, <2>2, <2>3, <3>1
    <3> QED BY <1>0, <1>1, <1>2, <1>4, <1>5, <2>3, <3>2, <3>3, <3>4 DEF HeartCall, Pressed
  <2>4. CASE x # r
    <3>1. Lembra!Toggling(x)' <=> Lembra!Toggling(x)
      BY <1>2, <1>4, <2>4 DEF Lembra!Toggling
    <3> QED BY <1>1, <1>2, <1>4, <1>5, <2>2, <2>4, <3>1 DEF HeartCall, Pressed
  <2> QED BY <2>3, <2>4
<1> QED BY <1>6, <1>7, <1>8, <1>9, <1>10, <1>11, <1>12, <1>13 DEF LembraInv

\* A part on its way: nothing is asked meanwhile but hearts.
LEMMA PartSent ==
  ASSUME LembraInstance, LembraInv, Lembra!SendPart
  PROVE  LembraInv'
<1> DEFINE r == saving.ref
<1>1. /\ Lembra!Sending /\ saving # Nil /\ r \in Ref /\ saving.kind = "upload"
      /\ chosen[r].file \in File /\ pending[r] \in Seq(File \cup {Lembra!Spoilt})
      /\ \A i \in DOMAIN asks : asks[i].kind = "favorite"
      /\ UNCHANGED <<shelf, object, favorites, references, favoriteIds, intent, viewer, asks,
                     chosen, doubtful>>
  <2>1. Lembra!Sending /\ UNCHANGED <<shelf, object, favorites, references, favoriteIds, intent,
                                      viewer, asks, chosen, doubtful>>
    BY DEF Lembra!SendPart, Lembra!ghost
  <2>2. saving # Nil /\ saving \in SavingRecord
    BY <2>1 DEF Lembra!Sending, Lembra!Idle, LembraInv, GalleryTyped
  <2>3. r \in Ref /\ saving.kind = "upload" /\ \A i \in DOMAIN asks : asks[i].kind = "favorite"
    BY <2>1, <2>2 DEF LembraInv, UploadNew, SavingRecord
  <2>4. chosen[r] \in Choice
    BY <2>2, <2>3 DEF LembraInv, UploadNew, Uploading, Unseen, LibraryTyped
  <2> QED BY <2>1, <2>2, <2>3, <2>4 DEF Choice, LembraInv, LibraryTyped
<1>2. /\ saving' = saving \/ saving' = Nil
      /\ \/ pending' = pending \/ pending' = [pending EXCEPT ![r] = Append(@, chosen[r].file)]
         \/ pending' = [pending EXCEPT ![r] = Append(@, Lembra!Spoilt)]
  BY DEF Lembra!SendPart
<1> HIDE DEF r
<1>3. pending' \in [Ref -> Seq(File \cup {Lembra!Spoilt})]
  <2>1. \A f \in File \cup {Lembra!Spoilt} : Append(pending[r], f) \in Seq(File \cup {Lembra!Spoilt})
    BY <1>1
  <2>2. pending \in [Ref -> Seq(File \cup {Lembra!Spoilt})]
    BY DEF LembraInv, LibraryTyped
  <2> QED BY <1>1, <1>2, <2>1, <2>2
<1>4. LibraryTyped' /\ Lembra!SavedAsChosen' /\ ViewerKnown' /\ \A x \in Ref : Known(x)'
  BY <1>1, <1>3 DEF LembraInv, LibraryTyped, Lembra!SavedAsChosen, Lembra!Mine, Shelved, Choice,
    Lembra!Spoilt, Known, ViewerKnown
<1>5. GalleryTyped'
  BY <1>1, <1>2 DEF LembraInv, GalleryTyped, Composed, SavingRecord, Lembra!Call
<1>6. UploadNew' /\ OneAsked'
  BY <1>1, <1>2 DEF LembraInv, UploadNew, Uploading, Unseen, Lembra!Sending, Lembra!Idle, OneAsked
<1>7. CallsKept'
  BY <1>1, <1>2 DEF LembraInv, CallsKept, CallKept, Uploading
<1>8. OneHeart' /\ Hearts'
  BY <1>1 DEF LembraInv, OneHeart, HeartCall, Hearts, Pressed, Lembra!Active, Lembra!Toggling
<1> QED BY <1>4, <1>5, <1>6, <1>7, <1>8 DEF LembraInv

\* The call that brings a reference in, when its parts are there.
LEMMA FinalizeAsked ==
  ASSUME LembraInstance, LembraInv, Lembra!AskToFinalize
  PROVE  LembraInv'
<1>1. PICK r, c : r = saving.ref /\ c = Lembra!Asked("finalize", r, chosen[r].text, chosen[r].file, FALSE)
  OBVIOUS
<1>2. /\ saving # Nil /\ saving \in SavingRecord /\ saving.kind = "upload" /\ r \in Ref
      /\ shelf[r] = Nil /\ \A i \in DOMAIN asks : asks[i].kind = "favorite"
      /\ Unseen(r) /\ chosen[r] \in Choice /\ Len(pending[r]) = Part
  <2>1. Lembra!Sending /\ Len(pending[r]) = Part
    BY <1>1 DEF Lembra!AskToFinalize
  <2>2. saving # Nil /\ saving \in SavingRecord
    BY <2>1 DEF Lembra!Sending, Lembra!Idle, LembraInv, GalleryTyped
  <2>3. /\ r \in Ref /\ saving.kind = "upload" /\ shelf[r] = Nil
        /\ \A i \in DOMAIN asks : asks[i].kind = "favorite"
    BY <1>1, <2>1, <2>2 DEF LembraInv, UploadNew, SavingRecord
  <2>4. Unseen(r) /\ chosen[r] \in Choice
    BY <1>1, <2>2, <2>3 DEF LembraInv, UploadNew, Uploading, Unseen, LibraryTyped
  <2> QED BY <2>1, <2>2, <2>3, <2>4
<1>3. /\ asks' = Append(asks, c) /\ saving' = [saving EXCEPT !.phase = "asked"]
      /\ UNCHANGED <<shelf, pending, object, favorites, references, favoriteIds, intent, viewer,
                     chosen, doubtful>>
  BY <1>1 DEF Lembra!AskToFinalize, Lembra!Ask, Lembra!server, Lembra!ghost
<1>4. /\ c \in Lembra!Call /\ c.kind = "finalize" /\ c.ref = r /\ c.answer = "none"
      /\ chosen[r] = [file |-> c.file, text |-> c.text]
      /\ c.file \in File /\ c.text \in Caption
  BY <1>1, <1>2 DEF Lembra!Asked, Lembra!Call, Choice
<1>5. /\ asks \in Seq(Lembra!Call) /\ asks' \in Seq(Lembra!Call)
      /\ Len(asks) + 1 \in DOMAIN asks' /\ asks'[Len(asks) + 1] = c
      /\ \A i \in DOMAIN asks : i \in DOMAIN asks' /\ asks'[i] = asks[i]
      /\ \A i \in DOMAIN asks' :
           i = Len(asks) + 1 \/ (i \in DOMAIN asks /\ i # Len(asks) + 1 /\ asks'[i] = asks[i])
  BY <1>3, <1>4, AsksMore DEF LembraInv, GalleryTyped
<1>6. /\ saving' = [kind |-> "upload", phase |-> "asked", ref |-> r]
      /\ saving' \in SavingRecord /\ saving' # Nil
  BY <1>1, <1>2, <1>3 DEF SavingRecord, LembraInstance
<1>7. LibraryTyped' /\ Lembra!SavedAsChosen' /\ ViewerKnown' /\ \A x \in Ref : Known(x)'
  BY <1>3 DEF LembraInv, LibraryTyped, Lembra!SavedAsChosen, Lembra!Mine, Shelved, Choice,
    ViewerKnown, Known
<1>8. GalleryTyped'
  BY <1>3, <1>5, <1>6 DEF LembraInv, GalleryTyped, Composed, SavingRecord, Lembra!Call
<1>9. UploadNew'
  BY <1>1, <1>2, <1>3, <1>6 DEF LembraInv, UploadNew, Uploading, Unseen, Lembra!Sending,
    Lembra!Idle
<1>10. CallsKept'
  <2>1. ASSUME NEW x, CallKept(x), x.kind = "favorite" PROVE CallKept(x)'
    BY <1>1, <1>2, <1>3, <1>6, <2>1 DEF CallKept, Uploading
  <2>2. CallKept(c)'
    BY <1>2, <1>3, <1>4, <1>6 DEF CallKept, Meant, Purpose
  <2> QED BY <1>2, <1>5, <2>1, <2>2 DEF LembraInv, CallsKept
<1>11. OneAsked' /\ OneHeart'
  BY <1>2, <1>3, <1>4, <1>5 DEF LembraInv, OneAsked, OneHeart, HeartCall
<1>12. Hearts'
  <2>1. \A x \in Ref : Lembra!Toggling(x)' <=> Lembra!Toggling(x)
    BY <1>4, <1>5 DEF Lembra!Toggling
  <2>2. \A x \in Ref : Lembra!Active(x)' <=> Lembra!Active(x)
    BY <1>3 DEF Lembra!Active
  <2> QED BY <1>3, <1>4, <1>5, <2>1, <2>2 DEF LembraInv, Hearts, HeartCall, Pressed
<1> QED BY <1>7, <1>8, <1>9, <1>10, <1>11, <1>12 DEF LembraInv

\* A row stays, and does not come to life again.
ShelfKept ==
  /\ \A r \in Ref : shelf[r] # Nil =>
       shelf'[r] # Nil /\ (Lembra!Active(r)' => Lembra!Active(r))
  /\ \A r \in Ref : chosen[r] # Nil => chosen'[r] # Nil
StillOut(r) ==
  shelf[r] = Nil => shelf'[r] = Nil /\ chosen'[r] = chosen[r] /\ pending'[r] = pending[r]

LEMMA RowUpdated ==
  ASSUME LembraInstance, LembraInv, NEW r \in Ref, NEW x \in Caption, Lembra!Active(r),
         Lembra!updateLembraReferenceMetadata(r, x)
  PROVE  /\ LibraryTyped' /\ Lembra!SavedAsChosen' /\ ShelfKept /\ favorites' = favorites
         /\ \A n \in Ref : StillOut(n)
<1>1. /\ shelf' = [shelf EXCEPT ![r].text = x]
      /\ chosen' = (IF chosen[r] # Nil THEN [chosen EXCEPT ![r].text = x] ELSE chosen)
      /\ UNCHANGED <<pending, object, favorites>>
  BY DEF Lembra!updateLembraReferenceMetadata, Lembra!Mine
<1>2. shelf[r] \in Shelved /\ shelf[r] # Nil /\ shelf[r].status = "active"
  BY DEF Lembra!Active, LembraInv, LibraryTyped
<1>3. /\ shelf'[r] = [shelf[r] EXCEPT !.text = x] /\ shelf'[r] \in Shelved /\ shelf'[r] # Nil
      /\ \A n \in Ref \ {r} : shelf'[n] = shelf[n]
      /\ shelf' \in [Ref -> Shelved \cup {Nil}]
  BY <1>1, <1>2 DEF LembraInv, LibraryTyped, Shelved, LembraInstance
<1>4. /\ chosen[r] # Nil => chosen'[r] = [chosen[r] EXCEPT !.text = x] /\ chosen[r] \in Choice
      /\ chosen[r] = Nil => chosen'[r] = Nil
      /\ \A n \in Ref \ {r} : chosen'[n] = chosen[n]
  BY <1>1 DEF LembraInv, LibraryTyped
<1>5. chosen[r] # Nil => chosen'[r] \in Choice /\ chosen'[r] # Nil
  BY <1>4 DEF Choice, Composed, LembraInstance
<1>6. chosen' \in [Ref -> Choice \cup {Nil}]
  BY <1>1, <1>4, <1>5 DEF LembraInv, LibraryTyped
<1>7. LibraryTyped'
  BY <1>1, <1>3, <1>6 DEF LembraInv, LibraryTyped, Shelved, Choice, Lembra!Spoilt
<1>8. Lembra!SavedAsChosen'
  BY <1>1, <1>2, <1>3, <1>4, <1>5 DEF LembraInv, Lembra!SavedAsChosen, Lembra!Mine, Shelved,
    Choice
<1>9. ShelfKept
  BY <1>2, <1>3, <1>4, <1>5 DEF ShelfKept, Lembra!Active
<1> QED BY <1>1, <1>2, <1>3, <1>4, <1>7, <1>8, <1>9 DEF StillOut

LEMMA RowRetired ==
  ASSUME LembraInstance, LembraInv, NEW r \in Ref, Lembra!Active(r),
         Lembra!retireLembraReference(r)
  PROVE  /\ LibraryTyped' /\ Lembra!SavedAsChosen' /\ ShelfKept /\ favorites' = favorites
         /\ \A n \in Ref : StillOut(n)
<1>1. /\ shelf' = [shelf EXCEPT ![r].status = "retired"]
      /\ UNCHANGED <<pending, object, favorites, chosen>>
  BY DEF Lembra!retireLembraReference
<1>2. shelf[r] \in Shelved /\ shelf[r] # Nil /\ shelf[r].status = "active"
  BY DEF Lembra!Active, LembraInv, LibraryTyped
<1>3. /\ shelf'[r] = [shelf[r] EXCEPT !.status = "retired"]
      /\ shelf'[r] \in Shelved /\ shelf'[r] # Nil
      /\ \A n \in Ref \ {r} : shelf'[n] = shelf[n]
      /\ shelf' \in [Ref -> Shelved \cup {Nil}]
  BY <1>1, <1>2 DEF LembraInv, LibraryTyped, Shelved, LembraInstance
<1>4. LibraryTyped'
  BY <1>1, <1>3 DEF LembraInv, LibraryTyped, Shelved, Choice, Lembra!Spoilt
<1>5. Lembra!SavedAsChosen'
  BY <1>1, <1>2, <1>3 DEF LembraInv, Lembra!SavedAsChosen, Lembra!Mine, Shelved
<1>6. ShelfKept
  BY <1>1, <1>2, <1>3 DEF ShelfKept, Lembra!Active
<1> QED BY <1>1, <1>2, <1>3, <1>4, <1>5, <1>6 DEF StillOut

\* What the server may do to a call leaves the others as they were.
LEMMA ServedKept ==
  ASSUME LembraInstance, LembraInv, asks # <<>>, NEW c, c = asks[1], c.answer = "none",
         NEW a \in {"ok", "refused", "lost"}, asks' = [asks EXCEPT ![1].answer = a],
         UNCHANGED <<references, favoriteIds, intent, viewer, saving, doubtful>>,
         LibraryTyped', Lembra!SavedAsChosen', ShelfKept,
         \A r \in Ref : c.kind # "finalize" \/ r # c.ref => StillOut(r),
         a = "ok" /\ c.kind = "finalize" => shelf'[c.ref] # Nil,
         \A r \in Ref : c.kind # "favorite" \/ r # c.ref => (r \in favorites' <=> r \in favorites),
         c.kind = "favorite" => /\ a = "refused" => favorites' = favorites
                                /\ a = "ok" => (c.ref \in favorites' <=> c.on)
  PROVE  LembraInv'
<1>1. /\ asks \in Seq(Lembra!Call) /\ asks' \in Seq(Lembra!Call) /\ DOMAIN asks' = DOMAIN asks
      /\ 1 \in DOMAIN asks /\ asks'[1] = [c EXCEPT !.answer = a] /\ c \in Lembra!Call
      /\ \A i \in DOMAIN asks \ {1} : asks'[i] = asks[i]
  <2>1. asks \in Seq(Lembra!Call)
    BY DEF LembraInv, GalleryTyped
  <2>2. PICK e : e = [asks EXCEPT ![1].answer = a]
    OBVIOUS
  <2>3. /\ e \in Seq(Lembra!Call) /\ DOMAIN e = DOMAIN asks /\ 1 \in DOMAIN asks
        /\ e[1] = [asks[1] EXCEPT !.answer = a] /\ \A i \in DOMAIN asks \ {1} : e[i] = asks[i]
    BY <2>1, <2>2, AsksAnswered
  <2> QED BY <2>1, <2>2, <2>3
<1>2. /\ asks'[1].kind = c.kind /\ asks'[1].ref = c.ref /\ asks'[1].text = c.text
      /\ asks'[1].file = c.file /\ asks'[1].on = c.on /\ asks'[1].answer = a
      /\ c.ref \in Ref
  BY <1>1 DEF Lembra!Call
<1>3. CallKept(c)
  BY <1>1 DEF LembraInv, CallsKept
<1>4. GalleryTyped' /\ ViewerKnown'
  BY <1>1 DEF LembraInv, GalleryTyped, ViewerKnown, Composed, SavingRecord, Lembra!Call
<1>5. \A r \in Ref : Known(r)'
  BY <1>2, <1>3 DEF LembraInv, Known, CallKept, ShelfKept
<1>6. UploadNew'
  <2>1. ASSUME NEW r \in Ref, Uploading(r)' PROVE Unseen(r)'
    BY <1>2, <1>3, <2>1 DEF LembraInv, UploadNew, Uploading, Unseen, CallKept, ShelfKept
  <2>2. ASSUME Lembra!Sending'
        PROVE  /\ saving'.kind = "upload" /\ shelf'[saving'.ref] = Nil
               /\ \A i \in DOMAIN asks' : asks'[i].kind = "favorite"
    <3>1. Lembra!Sending /\ saving \in SavingRecord
      BY <2>2 DEF Lembra!Sending, Lembra!Idle, LembraInv, GalleryTyped
    <3> QED BY <1>1, <1>2, <3>1 DEF LembraInv, UploadNew, StillOut, SavingRecord
  <2> QED BY <2>1, <2>2 DEF UploadNew
<1>7. CallsKept'
  <2>1. CallKept(asks[1])'
    BY <1>2, <1>3 DEF CallKept, Meant, ShelfKept, StillOut, Uploading
  <2>2. ASSUME NEW i \in DOMAIN asks \ {1} PROVE CallKept(asks[i])'
    <3>1. CallKept(asks[i]) /\ asks[i] \in Lembra!Call
      BY <1>1 DEF LembraInv, CallsKept
    <3>2. c.kind = "favorite" \/ asks[i].kind = "favorite"
      BY <1>1 DEF LembraInv, OneAsked
    <3>3. asks[i].ref \in Ref
      BY <3>1 DEF Lembra!Call
    <3>4. PICK d : d = asks[i]
      OBVIOUS
    <3>5. CallKept(d)'
      BY <3>1, <3>2, <3>3, <3>4 DEF CallKept, Meant, ShelfKept, StillOut, Uploading
    <3> QED BY <1>1, <3>4, <3>5
  <2> QED BY <1>1, <2>1, <2>2 DEF CallsKept
<1>8. OneAsked' /\ OneHeart'
  BY <1>1, <1>2 DEF LembraInv, OneAsked, OneHeart, HeartCall
<1>9. Hearts'
  <2> SUFFICES ASSUME NEW r \in Ref \ doubtful, references[r] # Nil, Lembra!Active(r)'
               PROVE  /\ ~Lembra!Toggling(r)' => (r \in favoriteIds <=> r \in favorites')
                      /\ \A i \in DOMAIN asks' : HeartCall(i, r)' => Pressed(asks[i])'
    BY DEF Hearts
  <2>1. Lembra!Active(r)
    BY DEF LembraInv, Known, ShelfKept
  <2>2. /\ ~Lembra!Toggling(r) => (r \in favoriteIds <=> r \in favorites)
        /\ \A i \in DOMAIN asks : HeartCall(i, r) => Pressed(asks[i])
    BY <2>1 DEF LembraInv, Hearts
  <2>3. Lembra!Toggling(r)' <=> Lembra!Toggling(r)
    BY <1>1, <1>2 DEF Lembra!Toggling
  <2>4. \A i \in DOMAIN asks : HeartCall(i, r)' <=> HeartCall(i, r)
    BY <1>1, <1>2 DEF HeartCall
  <2>5. CASE HeartCall(1, r)
    <3>1. \A i \in DOMAIN asks : HeartCall(i, r) => i = 1
      BY <1>1, <2>5 DEF LembraInv, OneHeart
    <3>2. Lembra!Toggling(r)
      BY <1>1, <2>5 DEF Lembra!Toggling, HeartCall
    <3>3. Pressed(asks[1])'
      BY <1>1, <1>2, <2>2, <2>5 DEF HeartCall, Pressed
    <3> QED BY <1>1, <2>3, <2>4, <3>1, <3>2, <3>3
  <2>6. CASE ~HeartCall(1, r)
    <3>1. r \in favorites' <=> r \in favorites
      BY <2>6 DEF HeartCall
    <3> QED BY <1>1, <2>2, <2>3, <2>4, <2>6, <3>1 DEF HeartCall, Pressed
  <2> QED BY <2>5, <2>6
<1> QED BY <1>4, <1>5, <1>6, <1>7, <1>8, <1>9 DEF LembraInv

LEMMA LembraServes ==
  ASSUME LembraInstance, LembraInv, Lembra!Serve
  PROVE  LembraInv'
<1>1. PICK c : c = asks[1]
  OBVIOUS
<1>2. /\ asks # <<>> /\ asks \in Seq(Lembra!Call) /\ c = Head(asks) /\ 1 \in DOMAIN asks
      /\ c \in Lembra!Call /\ c.answer = "none" /\ c.ref \in Ref /\ CallKept(c)
      /\ UNCHANGED <<references, favoriteIds, intent, viewer, saving, doubtful>>
  <2>1. asks # <<>> /\ asks \in Seq(Lembra!Call) /\ Head(asks).answer = "none"
    BY DEF Lembra!Serve, LembraInv, GalleryTyped
  <2>2. 1 \in DOMAIN asks /\ Head(asks) = asks[1] /\ asks[1] \in Lembra!Call
    BY <2>1
  <2>3. CallKept(c)
    BY <1>1, <2>2 DEF LembraInv, CallsKept
  <2> QED BY <1>1, <2>1, <2>2, <2>3 DEF Lembra!Serve, Lembra!page, Lembra!Call
<1>3. PICK a \in {"ok", "refused", "lost"} :
        /\ asks' = [asks EXCEPT ![1].answer = a]
        /\ \/ a \in {"ok", "lost"} /\ Lembra!Servable(c) /\ Lembra!Served(c)
           \/ a = "refused" /\ UNCHANGED <<shelf, pending, object, favorites, chosen>>
  BY <1>2 DEF Lembra!Serve, Lembra!server
<1>4. CASE UNCHANGED <<shelf, pending, object, favorites, chosen>> /\ (a = "refused" \/ c.kind = "request")
  <2>1. LibraryTyped' /\ Lembra!SavedAsChosen'
    BY <1>4 DEF LembraInv, LibraryTyped, Lembra!SavedAsChosen, Lembra!Mine, Shelved, Choice,
      Lembra!Spoilt
  <2>2. ShelfKept /\ \A r \in Ref : StillOut(r)
    BY <1>4 DEF ShelfKept, StillOut, Lembra!Active
  <2> QED BY <1>1, <1>2, <1>3, <1>4, <2>1, <2>2, ServedKept
<1>5. CASE a \in {"ok", "lost"} /\ Lembra!Servable(c) /\ Lembra!Served(c)
  <2>1. CASE c.kind = "request"
    <3>1. UNCHANGED <<shelf, pending, object, favorites, chosen>>
      BY <1>5, <2>1 DEF Lembra!Served, Lembra!server
    <3> QED BY <2>1, <3>1, <1>4
  <2>2. CASE c.kind = "finalize"
    <3>1. /\ shelf[c.ref] = Nil /\ pending[c.ref] \in Seq(File \cup {Lembra!Spoilt})
          /\ Len(pending[c.ref]) = Part /\ chosen[c.ref] = [file |-> c.file, text |-> c.text]
          /\ c.file \in File /\ c.text \in Caption
      BY <1>2, <2>2 DEF CallKept, LembraInv, LibraryTyped
    <3>2. /\ c.file \in Image /\ \A i \in DOMAIN pending[c.ref] : pending[c.ref][i] = c.file
      BY <1>5, <2>2 DEF Lembra!Servable, Lembra!Verified, Lembra!inspectLembraImage
    <3>3. pending[c.ref][1] = c.file
      BY <3>1, <3>2 DEF LembraInstance
    <3>4. PICK e : e = [text |-> c.text, file |-> c.file, status |-> "active"]
      OBVIOUS
    <3>5. /\ object' = [object EXCEPT ![c.ref] = c.file]
          /\ pending' = [pending EXCEPT ![c.ref] = <<>>]
          /\ shelf' = [shelf EXCEPT ![c.ref] = e]
          /\ UNCHANGED <<favorites, chosen>>
      BY <1>5, <2>2, <3>3, <3>4 DEF Lembra!Served, Lembra!finalizeLembraUploadAction,
        Lembra!putImmutable,
        Lembra!insertLembraReference
    <3>6. e \in Shelved /\ e # Nil
      BY <3>1, <3>4 DEF Shelved, LembraInstance
    <3>7. LibraryTyped'
      <4>1. pending' \in [Ref -> Seq(File \cup {Lembra!Spoilt})]
        <5>1. <<>> \in Seq(File \cup {Lembra!Spoilt})
          OBVIOUS
        <5>2. pending \in [Ref -> Seq(File \cup {Lembra!Spoilt})]
          BY DEF LembraInv, LibraryTyped
        <5> QED BY <3>5, <5>1, <5>2
      <4>2. shelf' \in [Ref -> Shelved \cup {Nil}] /\ object' \in [Ref -> File \cup {Nil}]
        BY <3>1, <3>5, <3>6 DEF LembraInv, LibraryTyped
      <4> QED BY <3>5, <4>1, <4>2 DEF LembraInv, LibraryTyped, Shelved, Choice, Lembra!Spoilt
    <3>8. Lembra!SavedAsChosen'
      BY <1>2, <3>1, <3>2, <3>4, <3>5 DEF LembraInv, LibraryTyped, Lembra!SavedAsChosen,
        Lembra!Mine,
        Lembra!inspectLembraImage
    <3>9. ShelfKept /\ (\A r \in Ref : r # c.ref => StillOut(r)) /\ shelf'[c.ref] # Nil
      BY <1>2, <3>1, <3>5, <3>6 DEF ShelfKept, StillOut, Lembra!Active, LembraInv, LibraryTyped
    <3> QED BY <1>1, <1>2, <1>3, <1>5, <2>2, <3>5, <3>7, <3>8, <3>9, ServedKept
  <2>3. CASE c.kind = "update"
    <3>1. Lembra!Active(c.ref) /\ Lembra!updateLembraReferenceMetadata(c.ref, c.text)
      BY <1>5, <2>3 DEF Lembra!Servable, Lembra!Served
    <3>2. c.text \in Caption
      BY <1>2, <2>3 DEF CallKept
    <3>3. /\ LibraryTyped' /\ Lembra!SavedAsChosen' /\ ShelfKept /\ favorites' = favorites
          /\ \A n \in Ref : StillOut(n)
      BY <1>2, <3>1, <3>2, RowUpdated
    <3> QED BY <1>1, <1>2, <1>3, <2>3, <3>3, ServedKept
  <2>4. CASE c.kind = "retire"
    <3>1. Lembra!Active(c.ref) /\ Lembra!retireLembraReference(c.ref)
      BY <1>5, <2>4 DEF Lembra!Servable, Lembra!Served
    <3>2. /\ LibraryTyped' /\ Lembra!SavedAsChosen' /\ ShelfKept /\ favorites' = favorites
          /\ \A n \in Ref : StillOut(n)
      BY <1>2, <3>1, RowRetired
    <3> QED BY <1>1, <1>2, <1>3, <2>4, <3>2, ServedKept
  <2>5. CASE c.kind = "favorite"
    <3>1. /\ favorites' = Lembra!With(favorites, c.ref, c.on)
          /\ UNCHANGED <<shelf, pending, object, chosen>>
      BY <1>5, <2>5 DEF Lembra!Served, Lembra!setLembraFavorite
    <3>2. /\ favorites' \subseteq Ref /\ c.on \in BOOLEAN
          /\ \A r \in Ref : r # c.ref => (r \in favorites' <=> r \in favorites)
          /\ c.ref \in favorites' <=> c.on
      BY <1>2, <3>1 DEF Lembra!With, LembraInv, LibraryTyped, Lembra!Call
    <3>3. LibraryTyped' /\ Lembra!SavedAsChosen'
      BY <3>1, <3>2 DEF LembraInv, LibraryTyped, Lembra!SavedAsChosen, Lembra!Mine, Shelved,
        Choice,
        Lembra!Spoilt
    <3>4. ShelfKept /\ \A r \in Ref : StillOut(r)
      BY <3>1 DEF ShelfKept, StillOut, Lembra!Active
    <3> QED BY <1>1, <1>2, <1>3, <1>5, <2>5, <3>2, <3>3, <3>4, ServedKept
  <2> QED BY <1>2, <2>1, <2>2, <2>3, <2>4, <2>5 DEF Lembra!Call
<1> QED BY <1>3, <1>4, <1>5

LEMMA OthersEdit ==
  ASSUME LembraInstance, LembraInv, NEW r \in Ref, Lembra!Other(r)
  PROVE  LembraInv'
<1>1. /\ UNCHANGED <<references, favoriteIds, intent, viewer, saving, asks, doubtful>>
  BY DEF Lembra!Other, Lembra!page
<1>2. /\ LibraryTyped' /\ Lembra!SavedAsChosen' /\ ShelfKept /\ favorites' = favorites
      /\ \A n \in Ref : StillOut(n)
  BY RowUpdated, RowRetired DEF Lembra!Other
<1>3. GalleryTyped' /\ ViewerKnown' /\ \A n \in Ref : Known(n)'
  BY <1>1, <1>2 DEF LembraInv, GalleryTyped, ViewerKnown, Composed, SavingRecord, Lembra!Call,
    Known, ShelfKept
<1>4. UploadNew'
  <2>1. ASSUME NEW n \in Ref, Uploading(n)' PROVE Unseen(n)'
    BY <1>1, <1>2, <2>1 DEF LembraInv, UploadNew, Uploading, Unseen, ShelfKept
  <2>2. ASSUME Lembra!Sending'
        PROVE  /\ saving'.kind = "upload" /\ shelf'[saving'.ref] = Nil
               /\ \A i \in DOMAIN asks' : asks'[i].kind = "favorite"
    <3>1. Lembra!Sending /\ saving \in SavingRecord
      BY <1>1, <2>2 DEF Lembra!Sending, Lembra!Idle, LembraInv, GalleryTyped
    <3> QED BY <1>1, <1>2, <3>1 DEF LembraInv, UploadNew, StillOut, SavingRecord
  <2> QED BY <2>1, <2>2 DEF UploadNew
<1>5. CallsKept'
  <2>1. ASSUME NEW d \in Lembra!Call, CallKept(d) PROVE CallKept(d)'
    <3>1. d.ref \in Ref
      BY DEF Lembra!Call
    <3> QED BY <1>1, <1>2, <2>1, <3>1 DEF CallKept, Meant, ShelfKept, StillOut, Uploading
  <2>2. \A i \in DOMAIN asks : asks[i] \in Lembra!Call
    BY DEF LembraInv, GalleryTyped
  <2> QED BY <1>1, <2>1, <2>2 DEF LembraInv, CallsKept
<1>6. OneAsked' /\ OneHeart'
  BY <1>1 DEF LembraInv, OneAsked, OneHeart, HeartCall
<1>7. Hearts'
  <2>1. \A n \in Ref : Lembra!Toggling(n)' <=> Lembra!Toggling(n)
    BY <1>1 DEF Lembra!Toggling
  <2>2. \A n \in Ref : references[n] # Nil /\ Lembra!Active(n)' => Lembra!Active(n)
    BY <1>2 DEF LembraInv, Known, ShelfKept
  <2> QED BY <1>1, <1>2, <2>1, <2>2 DEF LembraInv, Hearts, HeartCall, Pressed
<1> QED BY <1>2, <1>3, <1>4, <1>5, <1>6, <1>7 DEF LembraInv

\* What an answer may do to the page leaves the other calls as they were.
StillShown(r, c) ==
  references'[r] # Nil =>
    references[r] # Nil \/ (c.kind = "finalize" /\ c.answer = "ok" /\ r = c.ref)
LEMMA AnsweredKept ==
  ASSUME LembraInstance, LembraInv, asks # <<>>, NEW c, c = asks[1], c.answer # "none",
         asks' = Tail(asks),
         UNCHANGED <<shelf, pending, object, favorites, chosen>>,
         GalleryTyped', ViewerKnown',
         \A r \in Ref : StillShown(r, c),
         \A r \in Ref : references'[r] # Nil /\ (c.kind # "favorite" \/ r # c.ref)
                          => (r \in favoriteIds' <=> r \in favoriteIds),
         \A r \in favoriteIds' : r \in favoriteIds \/ (c.kind = "favorite" /\ r = c.ref),
         doubtful \subseteq doubtful',
         c.kind # "favorite" =>
           \/ saving' = Nil
           \/ c.kind = "request" /\ saving' = [saving EXCEPT !.phase = "sending"],
         c.kind = "favorite" =>
           /\ saving' = saving
           /\ c.answer = "ok" => favoriteIds' = favoriteIds
           /\ c.answer = "refused" => (c.ref \in favoriteIds' <=> ~c.on)
           /\ c.answer = "lost" => c.ref \in doubtful'
  PROVE  LembraInv'
<1>1. /\ asks \in Seq(Lembra!Call) /\ 1 \in DOMAIN asks /\ c \in Lembra!Call /\ c.ref \in Ref
      /\ \A i \in DOMAIN asks' : /\ i \in Nat /\ i + 1 \in DOMAIN asks /\ i + 1 # 1
                                 /\ asks'[i] = asks[i + 1]
      /\ \A i \in DOMAIN asks \ {1} : i - 1 \in DOMAIN asks' /\ asks'[i - 1] = asks[i]
  BY AsksLeft DEF LembraInv, GalleryTyped, Lembra!Call
<1>2. CallKept(c)
  BY <1>1 DEF LembraInv, CallsKept
<1>3. \A i \in DOMAIN asks' : c.kind # "favorite" => asks'[i].kind = "favorite"
  BY <1>1 DEF LembraInv, OneAsked
<1>4. c.kind # "favorite" /\ saving' # Nil
        => /\ c.kind = "request" /\ Uploading(c.ref)
           /\ saving' = [kind |-> "upload", phase |-> "sending", ref |-> c.ref]
  <2> SUFFICES ASSUME c.kind # "favorite" /\ saving' # Nil
               PROVE  /\ c.kind = "request" /\ Uploading(c.ref)
                      /\ saving' = [kind |-> "upload", phase |-> "sending", ref |-> c.ref]
    OBVIOUS
  <2>1. c.kind = "request" /\ saving' = [saving EXCEPT !.phase = "sending"]
    OBVIOUS
  <2>2. saving = [kind |-> "upload", phase |-> "asked", ref |-> c.ref]
    BY <1>2, <2>1 DEF CallKept, Meant, Purpose
  <2>3. saving \in SavingRecord
    BY <1>1, <2>2 DEF SavingRecord
  <2> QED BY <2>1, <2>2, <2>3 DEF Uploading, LembraInstance
<1>5. \A r \in Ref : Uploading(r)' => Uploading(r)
  BY <1>4 DEF Uploading
<1>6. LibraryTyped' /\ Lembra!SavedAsChosen'
  BY DEF LembraInv, LibraryTyped, Lembra!SavedAsChosen, Lembra!Mine, Shelved, Choice,
    Lembra!Spoilt
<1>7. \A r \in Ref : Known(r)'
  BY <1>2 DEF LembraInv, Known, StillShown, CallKept
<1>8. UploadNew'
  <2>1. ASSUME NEW r \in Ref, Uploading(r)' PROVE Unseen(r)'
    <3>1. Unseen(r)
      BY <1>5, <2>1 DEF LembraInv, UploadNew
    <3>2. c.kind # "finalize"
      BY <1>4, <2>1 DEF Uploading
    <3>3. c.kind = "favorite" => r # c.ref
      BY <1>2, <1>5, <2>1 DEF CallKept
    <3> QED BY <3>1, <3>2, <3>3 DEF Unseen, StillShown
  <2>2. ASSUME Lembra!Sending'
        PROVE  /\ saving'.kind = "upload" /\ shelf'[saving'.ref] = Nil
               /\ \A i \in DOMAIN asks' : asks'[i].kind = "favorite"
    <3>1. CASE c.kind = "favorite"
      BY <1>1, <2>2, <3>1 DEF LembraInv, UploadNew, Lembra!Sending, Lembra!Idle
    <3>2. CASE c.kind # "favorite"
      BY <1>2, <1>3, <1>4, <2>2, <3>2 DEF CallKept, Lembra!Sending, Lembra!Idle
    <3> QED BY <3>1, <3>2
  <2> QED BY <2>1, <2>2 DEF UploadNew
<1>9. CallsKept'
  <2> SUFFICES ASSUME NEW d \in Lembra!Call, CallKept(d), c.kind # "favorite" => d.kind = "favorite"
               PROVE  CallKept(d)'
    BY <1>1, <1>3 DEF LembraInv, CallsKept
  <2>1. d.ref \in Ref
    BY DEF Lembra!Call
  <2> QED BY <1>5, <2>1 DEF CallKept, Meant
<1>10. OneAsked' /\ OneHeart'
  BY <1>1 DEF LembraInv, OneAsked, OneHeart, HeartCall
<1>11. Hearts'
  <2> SUFFICES ASSUME NEW r \in Ref \ doubtful', references'[r] # Nil, Lembra!Active(r)
               PROVE  /\ ~Lembra!Toggling(r)' => (r \in favoriteIds' <=> r \in favorites)
                      /\ \A i \in DOMAIN asks' : HeartCall(i, r)' => Pressed(asks[i])'
    BY DEF Hearts, Lembra!Active
  <2>1. r \notin doubtful
    OBVIOUS
  <2>2. CASE references[r] = Nil
    <3>1. c.kind = "finalize" /\ r = c.ref
      BY <2>2 DEF StillShown
    <3>2. Uploading(r)
      <4>1. saving = [kind |-> "upload", phase |-> "asked", ref |-> c.ref]
        BY <1>2, <3>1 DEF CallKept, Meant, Purpose
      <4>2. saving \in SavingRecord
        BY <1>1, <4>1 DEF SavingRecord
      <4> QED BY <3>1, <4>1, <4>2 DEF Uploading, LembraInstance
    <3>3. r \notin favorites /\ r \notin favoriteIds'
      BY <3>1, <3>2 DEF LembraInv, UploadNew, Unseen
    <3>4. \A i \in DOMAIN asks' : ~HeartCall(i, r)'
      <4>1. \A j \in DOMAIN asks : ~HeartCall(j, r)
        BY <3>2 DEF HeartCall, LembraInv, CallsKept, CallKept
      <4> QED BY <1>1, <4>1 DEF HeartCall
    <3> QED BY <3>3, <3>4
  <2>3. CASE references[r] # Nil
    <3>1. /\ ~Lembra!Toggling(r) => (r \in favoriteIds <=> r \in favorites)
          /\ \A i \in DOMAIN asks : HeartCall(i, r) => Pressed(asks[i])
      BY <2>1, <2>3 DEF LembraInv, Hearts
    <3>2. CASE HeartCall(1, r)
      <4>1. \A i \in DOMAIN asks' : ~HeartCall(i, r)'
        BY <1>1, <2>1, <3>2 DEF LembraInv, OneHeart, HeartCall
      <4>2. Pressed(c) /\ c.ref = r /\ c.kind = "favorite"
        BY <1>1, <3>1, <3>2 DEF HeartCall
      <4>3. r \in favoriteIds' <=> r \in favorites
        BY <1>1, <4>2 DEF Pressed, Lembra!Call
      <4> QED BY <4>1, <4>3
    <3>3. CASE ~HeartCall(1, r)
      <4>1. r \in favoriteIds' <=> r \in favoriteIds
        BY <3>3 DEF HeartCall
      <4>2. Lembra!Toggling(r)' <=> Lembra!Toggling(r)
        <5>1. ASSUME Lembra!Toggling(r) PROVE Lembra!Toggling(r)'
          <6>1. PICK i \in DOMAIN asks : asks[i].kind = "favorite" /\ asks[i].ref = r
            BY <5>1 DEF Lembra!Toggling
          <6>2. i - 1 \in DOMAIN asks' /\ asks'[i - 1] = asks[i]
            BY <1>1, <3>3, <6>1 DEF HeartCall
          <6> QED BY <6>1, <6>2 DEF Lembra!Toggling
        <5>2. ASSUME Lembra!Toggling(r)' PROVE Lembra!Toggling(r)
          BY <1>1, <5>2 DEF Lembra!Toggling
        <5> QED BY <5>1, <5>2
      <4>3. ASSUME NEW i \in DOMAIN asks', HeartCall(i, r)' PROVE Pressed(asks[i])'
        <5>1. HeartCall(i + 1, r)
          BY <1>1, <4>3 DEF HeartCall
        <5>2. Pressed(asks[i + 1]) /\ asks[i + 1].ref = r
          BY <1>1, <3>1, <5>1 DEF HeartCall
        <5>3. asks'[i] = asks[i + 1]
          BY <1>1
        <5> QED BY <4>1, <5>2, <5>3 DEF Pressed
      <4> QED BY <3>1, <4>1, <4>2, <4>3
    <3> QED BY <3>2, <3>3
  <2> QED BY <2>2, <2>3
<1> QED BY <1>6, <1>7, <1>8, <1>9, <1>10, <1>11 DEF LembraInv

\* The viewer keeps what is still in the gallery.
LEMMA KeptShown ==
  ASSUME NEW v \in [ref : Ref \cup {Nil}, typed : Caption \cup {Nil}, confirm : BOOLEAN],
         viewer' = Lembra!Kept(v)
  PROVE  /\ viewer' \in [ref : Ref \cup {Nil}, typed : Caption \cup {Nil}, confirm : BOOLEAN]
         /\ ViewerKnown'
<1>1. Lembra!Closed \in [ref : Ref \cup {Nil}, typed : Caption \cup {Nil}, confirm : BOOLEAN]
  BY DEF Lembra!Closed
<1>2. viewer' = Lembra!Closed \/ (viewer' = v /\ v.ref \in Lembra!Visible')
  BY DEF Lembra!Kept
<1>3. \A x : x \in Lembra!Visible' => references'[x] # Nil
  BY DEF Lembra!Visible, Lembra!Shown
<1>4. viewer' \in [ref : Ref \cup {Nil}, typed : Caption \cup {Nil}, confirm : BOOLEAN]
  BY <1>1, <1>2
<1>5. ViewerKnown'
  BY <1>2, <1>3 DEF ViewerKnown, Lembra!Closed
<1> QED BY <1>4, <1>5

LEMMA LembraAnswered ==
  ASSUME LembraInstance, LembraInv, Lembra!Answered
  PROVE  LembraInv'
<1>1. PICK c : c = asks[1]
  OBVIOUS
<1>2. /\ asks # <<>> /\ asks \in Seq(Lembra!Call) /\ c = Head(asks) /\ c.answer # "none"
      /\ c \in Lembra!Call /\ c.ref \in Ref /\ CallKept(c) /\ c.on \in BOOLEAN
      /\ asks' = Tail(asks) /\ asks' \in Seq(Lembra!Call)
      /\ UNCHANGED <<shelf, pending, object, favorites, chosen>>
  <2>1. asks # <<>> /\ asks \in Seq(Lembra!Call)
    BY DEF Lembra!Answered, LembraInv, GalleryTyped
  <2>2. 1 \in DOMAIN asks /\ Head(asks) = asks[1] /\ asks[1] \in Lembra!Call /\ Tail(asks) \in Seq(Lembra!Call)
    BY <2>1
  <2>3. CallKept(c)
    BY <1>1, <2>2 DEF LembraInv, CallsKept
  <2> QED BY <1>1, <2>1, <2>2, <2>3 DEF Lembra!Answered, Lembra!server, Lembra!Call
<1>3. /\ references \in [Ref -> Caption \cup {Nil}] /\ favoriteIds \subseteq Ref /\ ViewerKnown
      /\ intent \in Composed \cup {Nil} /\ saving \in SavingRecord \cup {Nil}
      /\ viewer \in [ref : Ref \cup {Nil}, typed : Caption \cup {Nil}, confirm : BOOLEAN]
  BY DEF LembraInv, GalleryTyped
<1>4. ASSUME references' \in [Ref -> Caption \cup {Nil}], favoriteIds' \subseteq Ref,
             intent' \in Composed \cup {Nil}, saving' \in SavingRecord \cup {Nil},
             viewer' \in [ref : Ref \cup {Nil}, typed : Caption \cup {Nil}, confirm : BOOLEAN]
      PROVE  GalleryTyped'
  BY <1>2, <1>4 DEF GalleryTyped, Composed, SavingRecord, Lembra!Call
<1>5. CASE c.kind = "request"
  <2>1. /\ saving' = (IF c.answer = "ok" THEN [saving EXCEPT !.phase = "sending"] ELSE Nil)
        /\ UNCHANGED <<references, favoriteIds, intent, viewer, doubtful>>
    BY <1>2, <1>5 DEF Lembra!Answered, Lembra!Requested
  <2>2. saving = [kind |-> "upload", phase |-> "asked", ref |-> c.ref]
    BY <1>2, <1>5 DEF CallKept, Meant, Purpose
  <2>3. saving' \in SavingRecord \cup {Nil}
    BY <1>2, <2>1, <2>2 DEF SavingRecord
  <2>4. GalleryTyped' /\ ViewerKnown'
    BY <1>3, <1>4, <2>1, <2>3 DEF ViewerKnown
  <2> QED BY <1>1, <1>2, <1>5, <2>1, <2>4, AnsweredKept DEF StillShown
<1>6. CASE c.kind = "finalize"
  <2>1. /\ saving' = Nil /\ UNCHANGED <<favoriteIds, doubtful>> /\ viewer' = Lembra!Kept(viewer)
        /\ IF c.answer = "ok" THEN references' = [references EXCEPT ![c.ref] = c.text] /\ intent' = Nil
           ELSE UNCHANGED <<references, intent>>
    BY <1>2, <1>6 DEF Lembra!Answered, Lembra!Finalized
  <2>2. references' \in [Ref -> Caption \cup {Nil}] /\ \A r \in Ref : StillShown(r, c)
    BY <1>2, <1>3, <1>6, <2>1 DEF CallKept, StillShown
  <2>3. GalleryTyped' /\ ViewerKnown'
    BY <1>3, <1>4, <2>1, <2>2, KeptShown
  <2> QED BY <1>1, <1>2, <1>6, <2>1, <2>2, <2>3, AnsweredKept
<1>7. CASE c.kind = "update"
  <2>1. /\ saving' = Nil /\ UNCHANGED <<favoriteIds, intent, doubtful>>
        /\ references' = (IF c.answer = "ok" /\ references[c.ref] # Nil
                            THEN [references EXCEPT ![c.ref] = c.text] ELSE references)
        /\ viewer' = Lembra!Kept(IF c.answer = "ok" THEN [viewer EXCEPT !.typed = Nil] ELSE viewer)
    BY <1>2, <1>7 DEF Lembra!Answered, Lembra!Updated, Lembra!Shown
  <2>2. references' \in [Ref -> Caption \cup {Nil}] /\ \A r \in Ref : StillShown(r, c)
    BY <1>2, <1>3, <1>7, <2>1 DEF CallKept, StillShown
  <2>3. PICK v : v = (IF c.answer = "ok" THEN [viewer EXCEPT !.typed = Nil] ELSE viewer)
    OBVIOUS
  <2>4. v \in [ref : Ref \cup {Nil}, typed : Caption \cup {Nil}, confirm : BOOLEAN]
    BY <1>3, <2>3
  <2>5. GalleryTyped' /\ ViewerKnown'
    BY <1>3, <1>4, <2>1, <2>2, <2>3, <2>4, KeptShown
  <2> QED BY <1>1, <1>2, <1>7, <2>1, <2>2, <2>5, AnsweredKept
<1>8. CASE c.kind = "retire"
  <2>1. /\ saving' = Nil /\ UNCHANGED <<intent, doubtful>>
        /\ IF c.answer = "ok"
             THEN /\ references' = [references EXCEPT ![c.ref] = Nil]
                  /\ favoriteIds' = favoriteIds \ {c.ref} /\ viewer' = Lembra!Closed
             ELSE UNCHANGED <<references, favoriteIds, viewer>>
    BY <1>2, <1>8 DEF Lembra!Answered, Lembra!Retired
  <2>2. /\ references' \in [Ref -> Caption \cup {Nil}] /\ \A r \in Ref : StillShown(r, c)
        /\ favoriteIds' \subseteq favoriteIds
        /\ \A r \in Ref : references'[r] # Nil => (r \in favoriteIds' <=> r \in favoriteIds)
    BY <1>2, <1>3, <2>1 DEF StillShown
  <2>3. /\ viewer' \in [ref : Ref \cup {Nil}, typed : Caption \cup {Nil}, confirm : BOOLEAN]
        /\ ViewerKnown'
    <3>1. CASE c.answer = "ok"
      <4>1. viewer' = [ref |-> Nil, typed |-> Nil, confirm |-> FALSE]
        BY <2>1, <3>1 DEF Lembra!Closed
      <4> QED BY <4>1 DEF ViewerKnown
    <3>2. CASE c.answer # "ok"
      BY <1>3, <2>1, <3>2 DEF ViewerKnown
    <3> QED BY <3>1, <3>2
  <2>4. GalleryTyped'
    BY <1>3, <1>4, <2>1, <2>2, <2>3
  <2> QED BY <1>1, <1>2, <1>8, <2>1, <2>2, <2>3, <2>4, AnsweredKept
<1>9. CASE c.kind = "favorite"
  <2>1. /\ favoriteIds' = (IF c.answer = "ok" THEN favoriteIds
                           ELSE Lembra!With(favoriteIds, c.ref, ~c.on))
        /\ doubtful' = (IF c.answer = "lost" THEN doubtful \cup {c.ref} ELSE doubtful)
        /\ UNCHANGED <<references, intent, saving>> /\ viewer' = Lembra!Kept(viewer)
    BY <1>2, <1>9 DEF Lembra!Answered, Lembra!Favored
  <2>2. /\ favoriteIds' \subseteq favoriteIds \cup {c.ref}
        /\ \A r \in Ref \ {c.ref} : r \in favoriteIds' <=> r \in favoriteIds
        /\ c.answer # "ok" => (c.ref \in favoriteIds' <=> ~c.on)
    BY <1>2, <1>3, <2>1 DEF Lembra!With
  <2>3. GalleryTyped' /\ ViewerKnown'
    BY <1>2, <1>3, <1>4, <2>1, <2>2, KeptShown
  <2>4. \A r \in Ref : StillShown(r, c)
    BY <2>1 DEF StillShown
  <2> QED BY <1>1, <1>2, <1>9, <2>1, <2>2, <2>3, <2>4, AnsweredKept
<1> QED BY <1>2, <1>5, <1>6, <1>7, <1>8, <1>9 DEF Lembra!Call

LEMMA LembraInit ==
  ASSUME LembraInstance, Lembra!Init
  PROVE  LembraInv
<1>1. /\ shelf = [r \in Ref |-> IF r = Old
                    THEN [text |-> Opening.text, file |-> Opening.file, status |-> "active"]
                    ELSE Nil]
      /\ object = [r \in Ref |-> IF r = Old THEN Opening.file ELSE Nil]
      /\ favorites \subseteq {Old} /\ pending = [r \in Ref |-> <<>>]
      /\ references = Lembra!Loaded /\ favoriteIds = favorites
      /\ intent = Nil /\ viewer = Lembra!Closed /\ saving = Nil /\ asks = <<>>
      /\ chosen = [r \in Ref |-> Nil] /\ doubtful = {}
  BY DEF Lembra!Init
<1>2. PICK e : e = [text |-> Opening.text, file |-> Opening.file, status |-> "active"]
  OBVIOUS
<1>3. e \in Shelved /\ e # Nil /\ e.status = "active" /\ Old \in Ref
  BY <1>2 DEF Shelved, Choice, LembraInstance
<1>4. /\ shelf = [r \in Ref |-> IF r = Old THEN e ELSE Nil]
      /\ \A r \in Ref : Lembra!Active(r) => r = Old
  BY <1>1, <1>2 DEF Lembra!Active
<1>5. LibraryTyped
  <2>1. pending \in [Ref -> Seq(File \cup {Lembra!Spoilt})]
    <3>1. <<>> \in Seq(File \cup {Lembra!Spoilt})
      OBVIOUS
    <3> QED BY <1>1, <3>1
  <2>2. shelf \in [Ref -> Shelved \cup {Nil}]
    BY <1>3, <1>4
  <2>3. object \in [Ref -> File \cup {Nil}]
    BY <1>1 DEF LembraInstance, Choice
  <2> QED BY <1>1, <1>3, <2>1, <2>2, <2>3 DEF LibraryTyped
<1>6. GalleryTyped /\ ViewerKnown
  <2>1. references \in [Ref -> Caption \cup {Nil}]
    BY <1>1, <1>3, <1>4 DEF Lembra!Loaded, Shelved
  <2>2. asks \in Seq(Lembra!Call)
    BY <1>1
  <2> QED BY <1>1, <1>3, <2>1, <2>2 DEF GalleryTyped, ViewerKnown, Lembra!Closed
<1>7. UploadNew /\ CallsKept /\ OneAsked /\ OneHeart
  BY <1>1 DEF UploadNew, Uploading, Lembra!Sending, Lembra!Idle, CallsKept, OneAsked, OneHeart
<1>8. Hearts /\ Lembra!SavedAsChosen
  BY <1>1 DEF Hearts, Lembra!SavedAsChosen, Lembra!Mine
<1>9. \A r \in Ref : Known(r)
  BY <1>1, <1>3, <1>4 DEF Known, Lembra!Loaded
<1> QED BY <1>5, <1>6, <1>7, <1>8, <1>9 DEF LembraInv

(* The strengthening: nothing of a reference that is being sent is shown   *)
(* or liked, one save is under way at a time and its call brings what was  *)
(* chosen, and a heart pressed once agrees with its call.                  *)
THEOREM LembraInvariant ==
  ASSUME LembraInstance
  PROVE  Lembra!Spec => []LembraInv
<1>1. LembraInv /\ [Lembra!Next]_(Lembra!vars) => LembraInv'
  <2>1. ASSUME LembraInv, UNCHANGED Lembra!vars PROVE LembraInv'
    <3>1. /\ UNCHANGED <<shelf, pending, object, favorites, references, favoriteIds, saving, asks,
                         chosen, doubtful, viewer, intent>>
      BY <2>1 DEF Lembra!vars
    <3>2. intent \in Composed \cup {Nil}
      BY <2>1 DEF LembraInv, GalleryTyped
    <3> QED BY <2>1, <3>1, <3>2, LembraLooks
  <2>2. ASSUME LembraInv, Lembra!User PROVE LembraInv'
    BY <2>2, ViewerStep, ComposerStep, PageLoaded, AskStarts, HeartPressed DEF Lembra!User
  <2> QED BY <2>1, <2>2, ComposerStep, PartSent, FinalizeAsked, LembraServes, OthersEdit,
             LembraAnswered DEF Lembra!Next, Lembra!Done
<1>2. Lembra!Init => LembraInv
  BY LembraInit
<1> QED BY <1>1, <1>2, PTL DEF Lembra!Spec

(* What a user saved is in the library as chosen, whatever was pasted or   *)
(* dropped while it was being sent; and a heart shows what is saved once   *)
(* its call is answered, unless it was pressed again before or the answer  *)
(* was lost.                                                               *)
THEOREM LembraIsKept ==
  ASSUME LembraInstance
  PROVE  Lembra!Spec => [](Lembra!SavedAsChosen /\ Lembra!FavoriteIsSaved)
<1>1. LembraInv => Lembra!SavedAsChosen /\ Lembra!FavoriteIsSaved
  BY DEF LembraInv, Hearts, Lembra!FavoriteIsSaved, Lembra!Shown
<1> QED BY <1>1, LembraInvariant, PTL

-----------------------------------------------------------------------------
(* RunComparison *)
CONSTANTS Inputs, Tolerance
VARIABLES left, right, leftIndex, rightIndex, leftFrom, rightFrom, regions

Comparison == INSTANCE RunComparison

(* What the proofs ask of the constants: runs are finite, times are numbers. *)
ComparisonInstance ==
  /\ Tolerance \in Int
  /\ \A run \in Inputs :
       /\ Len(run) \in Nat
       /\ \A i \in 1 .. Len(run) : run[i].start \in Int /\ run[i].end \in Int

(* The pass goes forward, and a region is open on both sides or on none. *)
CursorsForward ==
  /\ left \in Inputs /\ right \in Inputs
  /\ leftIndex \in Nat /\ rightIndex \in Nat
  /\ leftFrom \in Nat /\ 1 <= leftFrom /\ leftFrom <= leftIndex /\ leftIndex <= Len(left) + 1
  /\ rightFrom \in Nat /\ 1 <= rightFrom /\ rightFrom <= rightIndex /\ rightIndex <= Len(right) + 1
  /\ ~Comparison!Open => leftFrom = leftIndex /\ rightFrom = rightIndex

(* The regions cover what is before the one being built, without overlap. *)
RegionsCover ==
  /\ \A R \in regions : R.left \subseteq 1 .. leftFrom - 1 /\ R.right \subseteq 1 .. rightFrom - 1
  /\ \A i \in 1 .. leftFrom - 1 : \E R \in regions : i \in R.left
  /\ \A k \in 1 .. rightFrom - 1 : \E R \in regions : k \in R.right

RegionsDisjoint ==
  \A R, S \in regions : R # S => R.left \cap S.left = {} /\ R.right \cap S.right = {}

(* The open region has one segment on a side, the longer of the first two. *)
OneIsLonger ==
  Comparison!Open =>
    /\ \A i \in leftFrom .. leftIndex - 1, k \in rightFrom .. rightIndex - 1 :
         Comparison!comparableInTime(left[i], right[k])
    /\ leftIndex > leftFrom + 1 =>
         rightIndex = rightFrom + 1 /\ right[rightFrom].end > left[leftFrom].end
    /\ rightIndex > rightFrom + 1 =>
         leftIndex = leftFrom + 1 /\ left[leftFrom].end > right[rightFrom].end

ComparisonInv == CursorsForward /\ RegionsCover /\ RegionsDisjoint /\ OneIsLonger /\ Comparison!AroundOneAnchor

(* Closing a region that ends after the next segments keeps the cover. *)
LEMMA CutCovers ==
  ASSUME CursorsForward, RegionsCover, RegionsDisjoint, NEW a \in Nat, NEW b \in Nat,
         leftFrom <= a, rightFrom <= b, Comparison!Cut(a, b)
  PROVE  RegionsCover' /\ RegionsDisjoint'
<1> DEFINE N == Comparison!Region(a, b)
<1>1. N.left = leftFrom .. a - 1 /\ N.right = rightFrom .. b - 1
  BY DEF Comparison!Region
<1>2. regions' = regions \cup {N} /\ leftFrom' = a /\ rightFrom' = b
  BY DEF Comparison!Cut
<1>3. leftFrom \in Nat /\ rightFrom \in Nat /\ 1 <= leftFrom /\ 1 <= rightFrom
  BY DEF CursorsForward
<1> HIDE DEF N
<1>4. \A R \in regions' : R.left \subseteq 1 .. leftFrom' - 1 /\ R.right \subseteq 1 .. rightFrom' - 1
  <2> SUFFICES ASSUME NEW R \in regions'
               PROVE  R.left \subseteq 1 .. a - 1 /\ R.right \subseteq 1 .. b - 1
    BY <1>2
  <2>1. CASE R \in regions
    <3>1. R.left \subseteq 1 .. leftFrom - 1 /\ R.right \subseteq 1 .. rightFrom - 1
      BY <2>1 DEF RegionsCover
    <3> QED BY <3>1, <1>3
  <2>2. CASE R = N
    BY <2>2, <1>1, <1>3
  <2> QED BY <2>1, <2>2, <1>2
<1>5. \A i \in 1 .. leftFrom' - 1 : \E R \in regions' : i \in R.left
  <2> SUFFICES ASSUME NEW i \in 1 .. a - 1 PROVE \E R \in regions \cup {N} : i \in R.left
    BY <1>2
  <2>1. CASE i < leftFrom
    <3>1. i \in 1 .. leftFrom - 1
      BY <2>1, <1>3
    <3> QED BY <3>1 DEF RegionsCover
  <2>2. CASE i >= leftFrom
    <3>1. i \in N.left
      BY <2>2, <1>1, <1>3
    <3> QED BY <3>1
  <2> QED BY <2>1, <2>2, <1>3
<1>6. \A k \in 1 .. rightFrom' - 1 : \E R \in regions' : k \in R.right
  <2> SUFFICES ASSUME NEW k \in 1 .. b - 1 PROVE \E R \in regions \cup {N} : k \in R.right
    BY <1>2
  <2>1. CASE k < rightFrom
    <3>1. k \in 1 .. rightFrom - 1
      BY <2>1, <1>3
    <3> QED BY <3>1 DEF RegionsCover
  <2>2. CASE k >= rightFrom
    <3>1. k \in N.right
      BY <2>2, <1>1, <1>3
    <3> QED BY <3>1
  <2> QED BY <2>1, <2>2, <1>3
<1>7. \A R \in regions : R.left \cap N.left = {} /\ R.right \cap N.right = {}
  <2> TAKE R \in regions
  <2>1. R.left \subseteq 1 .. leftFrom - 1 /\ R.right \subseteq 1 .. rightFrom - 1
    BY DEF RegionsCover
  <2> QED BY <2>1, <1>1, <1>3
<1>8. RegionsDisjoint'
  <2> SUFFICES ASSUME NEW R \in regions', NEW S \in regions', R # S
               PROVE  R.left \cap S.left = {} /\ R.right \cap S.right = {}
    BY DEF RegionsDisjoint
  <2>1. CASE R \in regions /\ S \in regions
    BY <2>1 DEF RegionsDisjoint
  <2>2. CASE R \in regions /\ S = N
    BY <2>2, <1>7
  <2>3. CASE R = N /\ S \in regions
    BY <2>3, <1>7
  <2> QED BY <2>1, <2>2, <2>3, <1>2
<1> QED BY <1>4, <1>5, <1>6, <1>8 DEF RegionsCover

(* A region with nothing on one side is around no pair. *)
LEMMA CutAround ==
  ASSUME Comparison!AroundOneAnchor, NEW a, NEW b, Comparison!Cut(a, b),
         LET N == Comparison!Region(a, b)
         IN N.left # {} /\ N.right # {} =>
              /\ \A i \in N.left, k \in N.right : Comparison!comparableInTime(left[i], right[k])
              /\ (\E i \in N.left : N.left = {i}) \/ (\E k \in N.right : N.right = {k})
  PROVE  Comparison!AroundOneAnchor'
<1>1. regions' = regions \cup {Comparison!Region(a, b)} /\ left' = left /\ right' = right
  BY DEF Comparison!Cut
<1> SUFFICES ASSUME NEW R \in regions', R.left # {}, R.right # {}
             PROVE  /\ \A i \in R.left, k \in R.right : Comparison!comparableInTime(left[i], right[k])
                    /\ (\E i \in R.left : R.left = {i}) \/ (\E k \in R.right : R.right = {k})
  BY <1>1 DEF Comparison!AroundOneAnchor, Comparison!comparableInTime, Comparison!Larger,
     Comparison!Smaller
<1>2. CASE R \in regions
  BY <1>2 DEF Comparison!AroundOneAnchor
<1>3. CASE R = Comparison!Region(a, b)
  BY <1>3
<1> QED BY <1>1, <1>2, <1>3

(* A segment of one side alone. *)
LEMMA AloneKeeps ==
  ASSUME ComparisonInstance, ComparisonInv, ~Comparison!Open,
         \/ Comparison!LeftLeft /\ Comparison!OnlyLeft
         \/ Comparison!RightLeft /\ Comparison!OnlyRight
  PROVE  ComparisonInv'
<1> USE DEF ComparisonInv
<1>1. /\ leftFrom = leftIndex /\ rightFrom = rightIndex
      /\ leftIndex \in Nat /\ rightIndex \in Nat /\ Len(left) \in Nat /\ Len(right) \in Nat
  BY DEF CursorsForward, ComparisonInstance
<1>2. PICK a \in Nat, b \in Nat :
        /\ Comparison!Cut(a, b) /\ leftIndex <= a /\ rightIndex <= b
        /\ a <= Len(left) + 1 /\ b <= Len(right) + 1
        /\ (a = leftIndex \/ b = rightIndex)
  <2>1. CASE Comparison!LeftLeft /\ Comparison!OnlyLeft
    BY <2>1, <1>1 DEF Comparison!LeftLeft, Comparison!OnlyLeft, CursorsForward
  <2>2. CASE Comparison!RightLeft /\ Comparison!OnlyRight
    BY <2>2, <1>1 DEF Comparison!RightLeft, Comparison!OnlyRight, CursorsForward
  <2> QED BY <2>1, <2>2
<1>3. RegionsCover' /\ RegionsDisjoint'
  BY <1>1, <1>2, CutCovers
<1>4. CursorsForward' /\ OneIsLonger'
  BY <1>1, <1>2 DEF CursorsForward, Comparison!Cut, Comparison!Open, OneIsLonger
<1>5. Comparison!Region(a, b).left = {} \/ Comparison!Region(a, b).right = {}
  BY <1>1, <1>2 DEF Comparison!Region
<1>6. Comparison!AroundOneAnchor'
  BY <1>2, <1>5, CutAround
<1> QED BY <1>3, <1>4, <1>6

(* Two segments that match open a region. *)
LEMMA MatchKeeps == ASSUME ComparisonInstance, ComparisonInv, Comparison!Match PROVE ComparisonInv'
<1> USE DEF ComparisonInv
<1>1. /\ leftFrom = leftIndex /\ rightFrom = rightIndex /\ left' = left /\ right' = right
      /\ leftIndex' = leftIndex + 1 /\ rightIndex' = rightIndex + 1
      /\ leftFrom' = leftFrom /\ rightFrom' = rightFrom /\ regions' = regions
      /\ leftIndex \in Nat /\ rightIndex \in Nat /\ Len(left) \in Nat /\ Len(right) \in Nat
  BY DEF Comparison!Match, Comparison!Take, CursorsForward, ComparisonInstance
<1>2. CursorsForward'
  BY <1>1 DEF CursorsForward, Comparison!Match, Comparison!LeftLeft, Comparison!RightLeft,
     Comparison!Open
<1>3. RegionsCover' /\ RegionsDisjoint' /\ Comparison!AroundOneAnchor'
  BY <1>1 DEF RegionsCover, RegionsDisjoint, Comparison!AroundOneAnchor
<1>4. OneIsLonger'
  <2>1. leftFrom' .. leftIndex' - 1 = {leftIndex} /\ rightFrom' .. rightIndex' - 1 = {rightIndex}
    BY <1>1
  <2>2. Comparison!comparableInTime(left'[leftIndex], right'[rightIndex])
    BY <1>1 DEF Comparison!Match
  <2> QED BY <1>1, <2>1, <2>2 DEF OneIsLonger
<1> QED BY <1>2, <1>3, <1>4

(* The longer one takes another: the region stays around it. *)
LEMMA MoreKeeps == ASSUME ComparisonInstance, ComparisonInv, Comparison!MoreRight \/ Comparison!MoreLeft PROVE ComparisonInv'
<1> USE DEF ComparisonInv
<1>1. /\ left' = left /\ right' = right /\ regions' = regions
      /\ leftFrom' = leftFrom /\ rightFrom' = rightFrom
      /\ leftIndex \in Nat /\ rightIndex \in Nat /\ leftFrom \in Nat /\ rightFrom \in Nat
      /\ Len(left) \in Nat /\ Len(right) \in Nat
      /\ 1 <= leftFrom /\ 1 <= rightFrom /\ Comparison!Open
      /\ left[leftFrom].end \in Int /\ right[rightFrom].end \in Int
  BY DEF Comparison!MoreRight, Comparison!MoreLeft, Comparison!TakesMoreRight,
     Comparison!TakesMoreLeft, Comparison!Take, CursorsForward, ComparisonInstance,
     Comparison!Open
<1>2. RegionsCover' /\ RegionsDisjoint' /\ Comparison!AroundOneAnchor'
  BY <1>1 DEF RegionsCover, RegionsDisjoint, Comparison!AroundOneAnchor
<1>3. CASE Comparison!MoreRight
  <2>1. /\ leftIndex' = leftIndex /\ rightIndex' = rightIndex + 1
        /\ rightIndex <= Len(right)
        /\ left[leftFrom].end > right[rightFrom].end
        /\ Comparison!comparableInTime(left[leftFrom], right[rightIndex])
    BY <1>1, <1>3 DEF Comparison!MoreRight, Comparison!TakesMoreRight, Comparison!Take,
       Comparison!RightLeft
  <2>2. leftIndex = leftFrom + 1
    BY SMTT(30), <1>1, <2>1 DEF OneIsLonger, Comparison!Open
  <2>3. CursorsForward'
    BY <1>1, <2>1 DEF CursorsForward, Comparison!Open
  <2>4. ASSUME NEW i \in leftFrom .. leftIndex - 1, NEW k \in rightFrom .. rightIndex
        PROVE  Comparison!comparableInTime(left[i], right[k])
    <3>1. i = leftFrom
      BY <1>1, <2>2
    <3>2. CASE k = rightIndex
      BY <3>1, <3>2, <2>1
    <3>3. CASE k \in rightFrom .. rightIndex - 1
      BY <3>3, <1>1 DEF OneIsLonger
    <3> QED BY <3>2, <3>3, <1>1
  <2>5. OneIsLonger'
    BY <1>1, <2>1, <2>2, <2>4 DEF OneIsLonger
  <2> QED BY <1>2, <2>3, <2>5
<1>4. CASE Comparison!MoreLeft
  <2>1. /\ rightIndex' = rightIndex /\ leftIndex' = leftIndex + 1
        /\ leftIndex <= Len(left)
        /\ right[rightFrom].end > left[leftFrom].end
        /\ Comparison!comparableInTime(left[leftIndex], right[rightFrom])
    BY <1>1, <1>4 DEF Comparison!MoreLeft, Comparison!TakesMoreLeft, Comparison!Take,
       Comparison!LeftLeft
  <2>2. rightIndex = rightFrom + 1
    BY <1>1, <2>1 DEF OneIsLonger, Comparison!Open
  <2>3. CursorsForward'
    BY <1>1, <2>1 DEF CursorsForward, Comparison!Open
  <2>4. ASSUME NEW i \in leftFrom .. leftIndex, NEW k \in rightFrom .. rightIndex - 1
        PROVE  Comparison!comparableInTime(left[i], right[k])
    <3>1. k = rightFrom
      BY <1>1, <2>2
    <3>2. CASE i = leftIndex
      BY <3>1, <3>2, <2>1
    <3>3. CASE i \in leftFrom .. leftIndex - 1
      BY <3>3, <1>1 DEF OneIsLonger
    <3> QED BY <3>2, <3>3, <1>1
  <2>5. OneIsLonger'
    BY <1>1, <2>1, <2>2, <2>4 DEF OneIsLonger
  <2> QED BY <1>2, <2>3, <2>5
<1> QED BY <1>3, <1>4

(* Closing leaves a region around the one that was alone on its side. *)
LEMMA CloseKeeps == ASSUME ComparisonInstance, ComparisonInv, Comparison!Close PROVE ComparisonInv'
<1> USE DEF ComparisonInv
<1>1. /\ Comparison!Cut(leftIndex, rightIndex) /\ Comparison!Open
      /\ leftIndex \in Nat /\ rightIndex \in Nat /\ leftFrom \in Nat /\ rightFrom \in Nat
  BY DEF Comparison!Close, CursorsForward
<1>2. RegionsCover' /\ RegionsDisjoint'
  BY <1>1, CutCovers DEF CursorsForward
<1>3. CursorsForward' /\ OneIsLonger'
  BY <1>1 DEF CursorsForward, Comparison!Cut, Comparison!Open, OneIsLonger
<1> DEFINE N == Comparison!Region(leftIndex, rightIndex)
<1>4. N.left = leftFrom .. leftIndex - 1 /\ N.right = rightFrom .. rightIndex - 1
  BY DEF Comparison!Region
<1>5. (\E i \in N.left : N.left = {i}) \/ (\E k \in N.right : N.right = {k})
  <2>1. leftIndex = leftFrom + 1 \/ rightIndex = rightFrom + 1
    BY <1>1 DEF OneIsLonger, Comparison!Open
  <2>2. CASE leftIndex = leftFrom + 1
    <3>1. N.left = {leftFrom}
      BY <1>1, <1>4, <2>2
    <3> QED BY <3>1
  <2>3. CASE rightIndex = rightFrom + 1
    <3>1. N.right = {rightFrom}
      BY <1>1, <1>4, <2>3
    <3> QED BY <3>1
  <2> QED BY <2>1, <2>2, <2>3
<1>6. \A i \in N.left, k \in N.right : Comparison!comparableInTime(left[i], right[k])
  BY <1>1, <1>4 DEF OneIsLonger
<1> HIDE DEF N
<1>7. Comparison!AroundOneAnchor'
  BY <1>1, <1>5, <1>6, CutAround DEF N
<1> QED BY <1>2, <1>3, <1>7

\* Before the first segment the invariant holds.
LEMMA ComparisonInit == ASSUME ComparisonInstance, Comparison!Init PROVE ComparisonInv
  BY DEF Comparison!Init, ComparisonInv, CursorsForward, RegionsCover, RegionsDisjoint,
     OneIsLonger, Comparison!AroundOneAnchor, Comparison!Open, ComparisonInstance

\* The invariant is preserved by every step of the loop.
LEMMA ComparisonStep == ASSUME ComparisonInstance, ComparisonInv, [Comparison!Next]_(Comparison!vars) PROVE ComparisonInv'
<1>1. CASE Comparison!RestOfRight
  BY <1>1, AloneKeeps DEF Comparison!RestOfRight
<1>2. CASE Comparison!RestOfLeft
  BY <1>2, AloneKeeps DEF Comparison!RestOfLeft
<1>3. CASE Comparison!Apart
  BY <1>3, AloneKeeps DEF Comparison!Apart
<1>4. CASE Comparison!Match
  BY <1>4, MatchKeeps
<1>5. CASE Comparison!MoreRight \/ Comparison!MoreLeft
  BY <1>5, MoreKeeps
<1>6. CASE Comparison!Close
  BY <1>6, CloseKeeps
<1>7. CASE UNCHANGED Comparison!vars
  BY <1>7 DEF Comparison!vars, ComparisonInv, CursorsForward, RegionsCover, RegionsDisjoint,
     OneIsLonger, Comparison!AroundOneAnchor, Comparison!Open
<1> QED BY <1>1, <1>2, <1>3, <1>4, <1>5, <1>6, <1>7 DEF Comparison!Next, Comparison!compareTrack

\* What the cursors have passed was taken once.
LEMMA CoverIsOnce == ASSUME ComparisonInstance, ComparisonInv PROVE Comparison!EverySegmentOnce
<1>1. leftFrom \in Nat /\ rightFrom \in Nat
  BY DEF ComparisonInv, CursorsForward
<1>2. \A i \in 1 .. Len(left) : (\E R \in regions : i \in R.left) <=> i < leftFrom
  <2> TAKE i \in 1 .. Len(left)
  <2>1. ASSUME NEW R \in regions, i \in R.left PROVE i < leftFrom
    <3>1. i \in 1 .. leftFrom - 1
      BY <2>1 DEF ComparisonInv, RegionsCover
    <3> QED BY <3>1, <1>1
  <2>2. ASSUME i < leftFrom PROVE \E R \in regions : i \in R.left
    <3>1. i \in 1 .. leftFrom - 1
      BY <2>2, <1>1
    <3> QED BY <3>1 DEF ComparisonInv, RegionsCover
  <2> QED BY <2>1, <2>2
<1>3. \A k \in 1 .. Len(right) : (\E R \in regions : k \in R.right) <=> k < rightFrom
  <2> TAKE k \in 1 .. Len(right)
  <2>1. ASSUME NEW R \in regions, k \in R.right PROVE k < rightFrom
    <3>1. k \in 1 .. rightFrom - 1
      BY <2>1 DEF ComparisonInv, RegionsCover
    <3> QED BY <3>1, <1>1
  <2>2. ASSUME k < rightFrom PROVE \E R \in regions : k \in R.right
    <3>1. k \in 1 .. rightFrom - 1
      BY <2>2, <1>1
    <3> QED BY <3>1 DEF ComparisonInv, RegionsCover
  <2> QED BY <2>1, <2>2
<1> QED BY <1>2, <1>3 DEF Comparison!EverySegmentOnce, ComparisonInv, RegionsDisjoint

(* Whatever the runs, every segment of both is in exactly one region when  *)
(* the pass is over, and no region goes around more than one segment.      *)
THEOREM ComparisonIsWhole ==
  ASSUME ComparisonInstance
  PROVE  Comparison!Spec => [](Comparison!EverySegmentOnce /\ Comparison!AroundOneAnchor)
<1>1. Comparison!Init => ComparisonInv
  BY ComparisonInit
<1>2. ComparisonInv /\ [Comparison!Next]_(Comparison!vars) => ComparisonInv'
  BY ComparisonStep
<1>3. ComparisonInv => Comparison!EverySegmentOnce /\ Comparison!AroundOneAnchor
  BY CoverIsOnce DEF ComparisonInv
<1> QED BY <1>1, <1>2, <1>3, PTL DEF Comparison!Spec

(* Of a run compared with itself, the two sides go together. *)
LastingRun == left = right /\ \A i \in 1 .. Len(left) : left[i].start < left[i].end

GoTogether ==
  LastingRun =>
    /\ leftFrom = rightFrom /\ leftIndex = rightIndex /\ leftIndex <= leftFrom + 1
    /\ \A R \in regions : R.left = R.right /\ R.left # {}

(* A segment that lasts overlaps itself. *)
LEMMA OverlapsItself ==
  ASSUME NEW s, s.start \in Int, s.end \in Int, s.start < s.end
  PROVE  Comparison!comparableInTime(s, s)
  BY DEF Comparison!comparableInTime, Comparison!Larger, Comparison!Smaller

\* Of two equal runs both cursors advance together.
LEMMA StepTogether ==
  ASSUME ComparisonInstance, ComparisonInv, GoTogether, [Comparison!Next]_(Comparison!vars) PROVE GoTogether'
<1> SUFFICES ASSUME LastingRun'
             PROVE  /\ leftFrom' = rightFrom' /\ leftIndex' = rightIndex'
                    /\ leftIndex' <= leftFrom' + 1
                    /\ \A R \in regions' : R.left = R.right /\ R.left # {}
  BY DEF GoTogether
<1>1. left' = left /\ right' = right
  BY DEF Comparison!Next, Comparison!compareTrack, Comparison!RestOfRight, Comparison!RestOfLeft,
     Comparison!Apart, Comparison!Match, Comparison!MoreRight, Comparison!MoreLeft,
     Comparison!Close,
         Comparison!OnlyLeft, Comparison!OnlyRight, Comparison!Cut, Comparison!Take, Comparison!vars
<1>2. LastingRun
  BY <1>1 DEF LastingRun
<1>3. /\ leftFrom = rightFrom /\ leftIndex = rightIndex /\ leftIndex <= leftFrom + 1
      /\ \A R \in regions : R.left = R.right /\ R.left # {}
  BY <1>2 DEF GoTogether
<1>4. /\ leftFrom \in Nat /\ leftIndex \in Nat /\ Len(left) \in Nat
      /\ 1 <= leftFrom /\ leftFrom <= leftIndex /\ leftIndex <= Len(left) + 1
      /\ left \in Inputs /\ left = right
  BY <1>2 DEF ComparisonInv, CursorsForward, ComparisonInstance, LastingRun
<1>5. Comparison!LeftLeft <=> Comparison!RightLeft
  BY <1>3, <1>4 DEF Comparison!LeftLeft, Comparison!RightLeft
<1>6. CASE Comparison!RestOfRight \/ Comparison!RestOfLeft
  BY <1>5, <1>6 DEF Comparison!RestOfRight, Comparison!RestOfLeft
<1>7. CASE Comparison!Apart
  <2>1. leftIndex \in 1 .. Len(left)
    BY <1>4, <1>7 DEF Comparison!Apart, Comparison!LeftLeft
  <2>2. /\ left[leftIndex].start \in Int /\ left[leftIndex].end \in Int
        /\ left[leftIndex].start < left[leftIndex].end
    BY <2>1, <1>2, <1>4 DEF ComparisonInstance, LastingRun
  <2>3. Comparison!comparableInTime(left[leftIndex], left[leftIndex])
    BY <2>2, OverlapsItself
  <2> QED BY <2>3, <1>3, <1>4, <1>7 DEF Comparison!Apart
<1>8. CASE Comparison!Match
  <2>1. ~Comparison!Open /\ leftFrom = leftIndex
    BY <1>8 DEF Comparison!Match, ComparisonInv, CursorsForward
  <2>2. /\ leftIndex' = leftIndex + 1 /\ rightIndex' = rightIndex + 1
        /\ leftFrom' = leftFrom /\ rightFrom' = rightFrom /\ regions' = regions
    BY <1>8 DEF Comparison!Match, Comparison!Take
  <2>3. leftIndex' = rightIndex' /\ leftFrom' = rightFrom' /\ leftIndex' <= leftFrom' + 1
    <3>1. leftIndex + 1 = rightIndex + 1
      BY <1>3
    <3>2. leftIndex + 1 <= leftFrom + 1
      BY <2>1, <1>4
    <3> QED BY <3>1, <3>2, <2>2, <1>3
  <2> QED BY <2>2, <2>3, <1>3
<1>9. CASE Comparison!MoreRight \/ Comparison!MoreLeft
  <2>1. left[leftFrom] = right[rightFrom]
    BY <1>3, <1>4
  <2>2. leftFrom \in 1 .. Len(left)
    BY <1>3, <1>4, <1>9 DEF Comparison!MoreRight, Comparison!MoreLeft, Comparison!TakesMoreRight,
       Comparison!TakesMoreLeft, Comparison!Open
  <2>3. left[leftFrom].end \in Int
    BY <2>2, <1>4 DEF ComparisonInstance
  <2> QED BY <2>1, <2>3, <1>9 DEF Comparison!MoreRight, Comparison!MoreLeft,
             Comparison!TakesMoreRight, Comparison!TakesMoreLeft
<1>10. CASE Comparison!Close
  <2>1. leftIndex = leftFrom + 1
    BY <1>3, <1>4, <1>10 DEF Comparison!Close, Comparison!Open
  <2>2. regions' = regions \cup {Comparison!Region(leftIndex, rightIndex)}
    BY <1>10 DEF Comparison!Close, Comparison!Cut
  <2>3. /\ Comparison!Region(leftIndex, rightIndex).left = {leftFrom}
        /\ Comparison!Region(leftIndex, rightIndex).right = {leftFrom}
    BY <1>3, <1>4, <2>1 DEF Comparison!Region
  <2>4. /\ leftIndex' = leftIndex /\ rightIndex' = rightIndex
        /\ leftFrom' = leftIndex /\ rightFrom' = rightIndex
    BY <1>10 DEF Comparison!Close, Comparison!Cut
  <2>5. \A R \in regions' : R.left = R.right /\ R.left # {}
    BY <2>2, <2>3, <1>3
  <2> QED BY <2>4, <2>5, <1>3, <1>4
<1>11. CASE UNCHANGED Comparison!vars
  BY <1>3, <1>11 DEF Comparison!vars
<1> QED BY <1>6, <1>7, <1>8, <1>9, <1>10, <1>11 DEF Comparison!Next, Comparison!compareTrack

(* A run compared with itself differs nowhere, if every segment lasts. *)
THEOREM ComparisonOfItself ==
  ASSUME ComparisonInstance
  PROVE  Comparison!Spec => []Comparison!SameRunIsEqual
<1>1. Comparison!Init => ComparisonInv /\ GoTogether
  <2>1. Comparison!Init => GoTogether
    BY DEF Comparison!Init, GoTogether
  <2> QED BY <2>1, ComparisonInit
<1>2. ComparisonInv /\ GoTogether /\ [Comparison!Next]_(Comparison!vars) => (ComparisonInv /\ GoTogether)'
  BY ComparisonStep, StepTogether
<1>3. GoTogether => Comparison!SameRunIsEqual
  <2> SUFFICES ASSUME GoTogether, LastingRun, NEW R \in regions
               PROVE  Comparison!kind(R) = "equal" /\ ~Comparison!speakerChanged(R)
    BY DEF Comparison!SameRunIsEqual, LastingRun, Comparison!differentRegions
  <2>1. R.left = R.right /\ R.left # {} /\ left = right
    BY DEF GoTogether, LastingRun
  <2>2. Comparison!Joined(left, R.left) = Comparison!Joined(right, R.right)
    BY <2>1
  <2>3. Comparison!speakerSequence(left, R.left) = Comparison!speakerSequence(right, R.right)
    BY <2>1
  <2> QED BY <2>1, <2>2, <2>3 DEF Comparison!kind, Comparison!speakerChanged
<1> QED BY <1>1, <1>2, <1>3, PTL DEF Comparison!Spec
=============================================================================

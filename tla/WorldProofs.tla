---------------------------- MODULE WorldProofs -----------------------------
(***************************************************************************)
(* Proofs about the editing of the World: the session with its lease, the  *)
(* content, the canvas and the portraits.  They share no state: each       *)
(* theorem is about one of them, for any values of its constants.          *)
(***************************************************************************)
EXTENDS Integers, Sequences, FiniteSets, FiniteSetTheorems, TLAPS

CONSTANT Nil

-----------------------------------------------------------------------------
(* WorldEditSession *)
CONSTANTS Window, Owner, Layouter, MaxToken, MaxEdit, MaxQueue, MaxExpiry, MaxFault
VARIABLES world, lease, copies, tabs, edits, issued, promised, expiries, faults

World == INSTANCE WorldEditSession WITH Tab <- Window, drafts <- copies, tokens <- issued

(* "No value" is no number. *)
WorldInstance == Nil \notin Nat

Contents == [World!Kind -> SUBSET Nat]
Revisions == [World!Kind -> Nat]
LeaseRecord ==
  [holder : {Owner[t] : t \in Window}, token : Nat, base : Revisions, draft : Contents,
   init : BOOLEAN, live : BOOLEAN]
RowRecord ==
  [base : Revisions, draft : Contents, init : BOOLEAN,
   status : {"active", "superseded", "published", "discarded"}]
SaveFieldsOf ==
  [kind : World!Marks, token : Nat, content : SUBSET Nat, base : Nat,
   why : {"auto", "safety", "final", "drain"}, then : SUBSET Nat, told : BOOLEAN]
SaveRecord == {s \in SaveFieldsOf : s.why # "drain" => s.kind \in World!Kind}
TabRecord ==
  [state : {"view", "acquiring", "editing", "publishing"}, pc : {"idle", "final", "publish"},
   goal : {Nil, "publish", "release", "discard"}, stored : Nat \cup {Nil}, token : Nat \cup {Nil},
   draft : Contents, base : Nat, dirty : BOOLEAN,
   armed : [World!Kind -> SaveRecord \cup {Nil}], queue : Seq(SaveRecord), told : SUBSET Nat]

(* A save that the page has still to make. *)
Pending(r, s) ==
  \/ \E i \in DOMAIN r.queue : s = r.queue[i]
  \/ \E k \in World!Kind : s = r.armed[k] /\ s # Nil

(* The save that publish, finish or discard waits for. *)
Awaited(s) == s.told /\ s.why \in {"final", "drain"}

(* What a page looks like.  While it publishes, its last saves come after  *)
(* every other save of its session that could take their place.            *)
Shape(t, r) ==
  /\ r \in TabRecord
  /\ r.state = "view" => r.token = Nil /\ r.pc = "idle" /\ \A s : Pending(r, s) => s.token # r.stored
  /\ r.state # "view" => r.token \in Nat /\ r.stored = r.token
  /\ r.pc # "idle" => r.state \in {"editing", "publishing"} /\ r.goal \in {"publish", "release", "discard"}
  /\ r.state = "publishing" => /\ r.goal = "publish" /\ r.pc # "idle"
                               /\ \A k \in World!Kind : r.armed[k] = Nil
  /\ r.goal = "publish" /\ r.pc # "idle" => r.state = "publishing"
  /\ r.pc = "publish" => r.goal = "publish" /\ \A i \in DOMAIN r.queue : r.queue[i].token # r.token
  /\ t \in Layouter => /\ r.draft["graph"] = {} /\ r.state # "acquiring"
                       /\ \A s : Pending(r, s) => s.kind # "graph"
  /\ \A k \in World!Kind : r.armed[k] # Nil => r.armed[k].why = "auto"

Queued(r) ==
  \A i \in DOMAIN r.queue : Awaited(r.queue[i]) =>
    LET s == r.queue[i]
    IN /\ r.pc = "final" /\ s.token = r.token
       /\ \A j \in DOMAIN r.queue : Awaited(r.queue[j]) => j = i
       /\ s.why = "final" => s.kind \in World!Kind
       /\ r.goal = "publish" =>
            /\ s.why = "final" /\ s.content = r.draft[s.kind]
            /\ s.kind = "layout" =>
                 \A j \in DOMAIN r.queue : j > i /\ r.queue[j].token = s.token => r.queue[j].kind = "graph"
            /\ s.kind = "graph" =>
                 \A j \in DOMAIN r.queue : j # i /\ r.queue[j].token = s.token
                                             => j < i /\ r.queue[j].kind = "graph"

(* A save under the lease l leaves in it what is published. *)
SaveCurrent(t, s, l, w) ==
  World!Owns(l, t, s.token) =>
    /\ s.kind = "layout" => w["layout"].content \subseteq s.content
    /\ s.kind = "graph" => l.init /\ w["graph"].content \subseteq s.content
    /\ s.why = "safety" /\ s.kind = "layout" /\ t \notin Layouter
         => l.init /\ w["graph"].content \subseteq s.then

(* So does the draft of the page that has the lease, and what it is about  *)
(* to publish is what it shows.                                            *)
Held(t, r, l, w) ==
  /\ \A s : Pending(r, s) => SaveCurrent(t, s, l, w)
  /\ r.state # "view" /\ World!Owns(l, t, r.token) =>
       /\ w["layout"].content \subseteq r.draft["layout"]
       /\ t \notin Layouter /\ r.state # "acquiring" => l.init /\ w["graph"].content \subseteq r.draft["graph"]
       /\ r.goal = "publish" /\ (\E i \in DOMAIN r.queue : Awaited(r.queue[i]) /\ r.queue[i].kind = "graph")
            => r.draft["layout"] \subseteq l.draft["layout"]
       /\ r.pc = "publish" => \A k \in World!Kinds(t) : r.draft[k] \subseteq l.draft[k]

(* The receipt it would find is that of what it shows. *)
Receipt(t, r, d, w) ==
  r.pc = "publish" =>
    LET p == <<Owner[t], r.token>>
    IN /\ p \in DOMAIN d
       /\ \A k \in World!Kinds(t) : r.draft[k] \subseteq d[p].draft[k]
       /\ t \notin Layouter => d[p].init
       /\ d[p].status = "published" => \A k \in World!Kinds(t) : r.draft[k] \subseteq w[k].content

(* An edit that the page has in its hands, and those a profile may see. *)
Keeps(r, n) ==
  \/ \E k \in World!Kind : n \in r.draft[k]
  \/ \E s : Pending(r, s) /\ n \in s.content \cup s.then
Mine(o, w, es) == w["layout"].content \cup w["graph"].content \cup {n \in DOMAIN es : es[n] = o}
LeaseMine(l, w, es) == \A k \in World!Kind : l.draft[k] \subseteq Mine(l.holder, w, es)
LeasePrivate(l, w, es) == l # Nil => LeaseMine(l, w, es)
RowsPrivate(d, w, es) ==
  \A q \in DOMAIN d : \A k \in World!Kind : d[q].draft[k] \subseteq Mine(q[1], w, es)
Private ==
  /\ \A t \in Window : \A n \in Nat : Keeps(tabs[t], n) => n \in Mine(Owner[t], world, edits)
  /\ LeasePrivate(lease, world, edits)
  /\ RowsPrivate(copies, world, edits)

(* A token is of one page. *)
Uses(r, x) == x \in Nat /\ (r.stored = x \/ \E s : Pending(r, s) /\ s.token = x)
OneUser ==
  /\ issued \in Nat
  /\ \A t \in Window : \A x \in Nat : Uses(tabs[t], x) =>
       x <= issued /\ \A u \in Window : Uses(tabs[u], x) => u = t

(* Nothing is published while there is a lease. *)
LeaseSound(l, w) ==
  /\ l \in LeaseRecord
  /\ l.base["layout"] = w["layout"].rev /\ w["layout"].content \subseteq l.draft["layout"]
  /\ l.base["graph"] <= w["graph"].rev
  /\ l.init => l.base["graph"] = w["graph"].rev /\ w["graph"].content \subseteq l.draft["graph"]
LeaseCurrent(l, w) == l # Nil => LeaseSound(l, w)

RowCurrent(rec, w) ==
  /\ rec \in RowRecord
  /\ \A k \in World!Kind :
       /\ rec.base[k] <= w[k].rev
       /\ rec.base[k] = w[k].rev /\ (k = "graph" => rec.init) => w[k].content \subseteq rec.draft[k]

WorldRecord == [World!Kind -> [rev : Nat, content : SUBSET Nat]]
RowsSound(d, w) ==
  /\ d = [q \in DOMAIN d |-> d[q]]
  /\ \A q \in DOMAIN d : q = <<q[1], q[2]>> /\ RowCurrent(d[q], w)
  /\ \A p, q \in DOMAIN d : p[1] = q[1] /\ d[p].status = "active" /\ d[q].status = "active" => p = q

PageSound(t, r, l, d, w) == Shape(t, r) /\ Queued(r) /\ Held(t, r, l, w) /\ Receipt(t, r, d, w)

WorldSound ==
  /\ world \in WorldRecord
  /\ LeaseCurrent(lease, world)
  /\ RowsSound(copies, world)
  /\ OneUser
  /\ edits \in Seq({Owner[t] : t \in Window})
  /\ tabs = [t \in Window |-> tabs[t]]
  /\ \A t \in Window : PageSound(t, tabs[t], lease, copies, world)
  /\ Private
  /\ World!ToldIsPublished

(* Like another save, but perhaps that nobody waits for it any more. *)
Like(a, s) ==
  /\ a.kind = s.kind /\ a.token = s.token /\ a.content = s.content /\ a.base = s.base
  /\ a.why = s.why /\ a.then = s.then
  /\ a.told => s.told

LEMMA LikeCurrent ==
  ASSUME NEW t, NEW a, NEW s, NEW l, NEW w, Like(a, s), SaveCurrent(t, s, l, w)
  PROVE  SaveCurrent(t, a, l, w)
<1>1. a.kind = s.kind /\ a.token = s.token /\ a.content = s.content /\ a.why = s.why /\ a.then = s.then
  BY DEF Like
<1> QED BY <1>1 DEF SaveCurrent

\* The head of the queue goes.
LEMMA TailOf ==
  ASSUME NEW q \in Seq(SaveRecord), q # <<>>
  PROVE  /\ Head(q) \in SaveRecord /\ Head(q) = q[1] /\ 1 \in DOMAIN q
         /\ Tail(q) \in Seq(SaveRecord)
         /\ \A i \in DOMAIN Tail(q) : i \in Nat /\ i + 1 \in DOMAIN q /\ i + 1 # 1 /\ Tail(q)[i] = q[i + 1]
OBVIOUS

LEMMA AppendOf ==
  ASSUME NEW q \in Seq(SaveRecord), NEW s \in SaveRecord
  PROVE  /\ Append(q, s) \in Seq(SaveRecord) /\ Len(q) + 1 \in DOMAIN Append(q, s)
         /\ Append(q, s)[Len(q) + 1] = s
         /\ \A i \in DOMAIN Append(q, s) : i \in Nat /\ (i = Len(q) + 1 \/ (i \in DOMAIN q /\ i < Len(q) + 1 /\ Append(q, s)[i] = q[i]))
OBVIOUS

LEMMA UntoldOf ==
  ASSUME NEW q \in Seq(SaveRecord), NEW whys, NEW kinds, NEW u, u = World!Untold(q, whys, kinds)
  PROVE  /\ u \in Seq(SaveRecord) /\ DOMAIN u = DOMAIN q
         /\ \A i \in DOMAIN q : /\ u[i] \in SaveRecord /\ Like(u[i], q[i])
                                /\ q[i].why \in whys /\ q[i].kind \in kinds => ~ u[i].told
<1>1. DOMAIN q = 1 .. Len(q) /\ Len(q) \in Nat /\ \A i \in DOMAIN q : q[i] \in SaveRecord
  OBVIOUS
<1>2. u = [i \in DOMAIN q |-> IF q[i].why \in whys /\ q[i].kind \in kinds
                              THEN [q[i] EXCEPT !.told = FALSE] ELSE q[i]]
  BY DEF World!Untold
<1>3. \A i \in DOMAIN q : /\ u[i] \in SaveRecord /\ Like(u[i], q[i])
                          /\ q[i].why \in whys /\ q[i].kind \in kinds => ~ u[i].told
  <2>1. ASSUME NEW i \in DOMAIN q
        PROVE  /\ u[i] \in SaveRecord /\ Like(u[i], q[i])
               /\ q[i].why \in whys /\ q[i].kind \in kinds => ~ u[i].told
    <3>1. CASE q[i].why \in whys /\ q[i].kind \in kinds
      <4>1. u[i] = [q[i] EXCEPT !.told = FALSE] /\ q[i] \in SaveRecord
        BY <1>1, <1>2, <3>1
      <4> QED BY <4>1 DEF SaveRecord, SaveFieldsOf, Like
    <3>2. CASE ~ (q[i].why \in whys /\ q[i].kind \in kinds)
      BY <1>1, <1>2, <3>2 DEF Like
    <3> QED BY <3>1, <3>2
  <2> QED BY <2>1
<1>4. u \in [1 .. Len(q) -> SaveRecord]
  BY <1>1, <1>2, <1>3
<1> QED BY <1>1, <1>2, <1>3, <1>4

(* A session that is over leaves nothing but saves that nobody waits for.  *)
Over(r, e) ==
  /\ e \in TabRecord
  /\ e.state = "view" /\ e.token = Nil /\ e.pc = "idle" /\ e.draft = World!Blank
  /\ e.stored = Nil \/ (e.stored = r.stored /\ \A s : ~ Pending(e, s))
  /\ \A s : Pending(e, s) => s \in SaveRecord /\ \E o : Pending(r, o) /\ Like(s, o)
  /\ \A i \in DOMAIN e.queue : ~ Awaited(e.queue[i])
  /\ \A k \in World!Kind : e.armed[k] # Nil => e.armed[k].why = "auto"

LEMMA OverUses ==
  ASSUME NEW r, NEW e, Over(r, e), WorldInstance, NEW x, Uses(e, x)
  PROVE  Uses(r, x)
BY DEF Over, Uses, Like, WorldInstance

LEMMA OverSound ==
  ASSUME WorldInstance, NEW t, NEW r, NEW e, NEW l, NEW d, NEW w,
         Shape(t, r), Held(t, r, l, w), Over(r, e)
  PROVE  PageSound(t, e, l, d, w)
<1>1. Queued(e) /\ Receipt(t, e, d, w)
  BY DEF Over, Queued, Receipt
<1>2. Shape(t, e)
  <2>1. \A s : Pending(e, s) => s.token # e.stored /\ (t \in Layouter => s.kind # "graph")
    BY DEF Over, Like, Shape, SaveRecord, SaveFieldsOf, WorldInstance
  <2> QED BY <2>1 DEF Over, Shape, World!Blank, World!Kind
<1>3. Held(t, e, l, w)
  <2>1. \A s : Pending(e, s) => SaveCurrent(t, s, l, w)
    BY LikeCurrent DEF Over, Held
  <2> QED BY <2>1 DEF Over, Held
<1> QED BY <1>1, <1>2, <1>3 DEF PageSound

\* What is pending is a save.
LEMMA PendingTyped ==
  ASSUME NEW r \in TabRecord, NEW s, Pending(r, s)
  PROVE  s \in SaveRecord
<1>1. r.queue \in Seq(SaveRecord) /\ r.armed \in [World!Kind -> SaveRecord \cup {Nil}]
  BY DEF TabRecord
<1> QED BY <1>1 DEF Pending

\* The ways in which a session ends.
LEMMA BlankTyped == World!Blank \in Contents
BY DEF World!Blank, Contents

ClosedFields ==
  LET c == World!Closed
  IN /\ c.state = "view" /\ c.pc = "idle" /\ c.goal = Nil /\ c.stored = Nil /\ c.token = Nil
     /\ c.draft = World!Blank /\ c.base = 0 /\ c.dirty = FALSE /\ c.queue = <<>> /\ c.told = {}
     /\ c.armed = [k \in World!Kind |-> Nil] /\ c \in TabRecord

LEMMA ClosedPage == ClosedFields
<1>1. World!Blank \in [World!Kind -> SUBSET Nat] /\ <<>> \in Seq(SaveRecord)
  BY BlankTyped DEF Contents
<1> QED BY <1>1 DEF ClosedFields, World!Closed, TabRecord, Contents

\* A closed page with the timers a, the queue q and what it was told.
Left(a, q, news) == [World!Closed EXCEPT !.armed = a, !.queue = q, !.told = news]

LEMMA LeftPage ==
  ASSUME NEW a \in [World!Kind -> SaveRecord \cup {Nil}], NEW q \in Seq(SaveRecord), NEW news \in SUBSET Nat,
         NEW e, e = Left(a, q, news)
  PROVE  /\ e \in TabRecord /\ e.state = "view" /\ e.pc = "idle" /\ e.stored = Nil /\ e.token = Nil
         /\ e.draft = World!Blank /\ e.queue = q /\ e.armed = a /\ e.told = news
<1>1. PICK c : c = World!Closed
  OBVIOUS
<1>2. c \in TabRecord /\ c.state = "view" /\ c.pc = "idle" /\ c.stored = Nil /\ c.token = Nil
      /\ c.draft = World!Blank
  BY <1>1, ClosedPage DEF ClosedFields
<1>3. e = [c EXCEPT !.armed = a, !.queue = q, !.told = news]
  BY <1>1 DEF Left
<1> QED BY <1>2, <1>3 DEF TabRecord

LEMMA LeftOver ==
  ASSUME NEW r \in TabRecord, NEW a, NEW q \in Seq(SaveRecord), NEW news \in SUBSET Nat, NEW e, e = Left(a, q, news),
         a = r.armed \/ a = [k \in World!Kind |-> Nil],
         \A k \in World!Kind : r.armed[k] # Nil => r.armed[k].why = "auto",
         DOMAIN q = DOMAIN r.queue,
         \A i \in DOMAIN q : Like(q[i], r.queue[i]) /\ ~ Awaited(q[i])
  PROVE  Over(r, e)
<1>1. a \in [World!Kind -> SaveRecord \cup {Nil}] /\ (\A k \in World!Kind : a[k] # Nil => a[k] = r.armed[k])
  BY DEF TabRecord
<1>2. /\ e \in TabRecord /\ e.state = "view" /\ e.pc = "idle" /\ e.stored = Nil /\ e.token = Nil
      /\ e.draft = World!Blank /\ e.queue = q /\ e.armed = a
  BY <1>1, LeftPage
<1>3. \A s : Pending(e, s) => s \in SaveRecord /\ \E o : Pending(r, o) /\ Like(s, o)
  <2>1. ASSUME NEW s, Pending(e, s) PROVE s \in SaveRecord /\ \E o : Pending(r, o) /\ Like(s, o)
    <3>1. s \in SaveRecord
      BY <1>2, <2>1, PendingTyped
    <3>2. CASE \E i \in DOMAIN q : s = q[i]
      BY <3>1, <3>2 DEF Pending
    <3>3. CASE \E k \in World!Kind : s = a[k] /\ s # Nil
      BY <1>1, <3>1, <3>3 DEF Pending, Like
    <3> QED BY <1>2, <2>1, <3>2, <3>3 DEF Pending
  <2> QED BY <2>1
<1>4. \A i \in DOMAIN e.queue : ~ Awaited(e.queue[i])
  BY <1>2
<1>5. \A k \in World!Kind : e.armed[k] # Nil => e.armed[k].why = "auto"
  BY <1>1, <1>2
<1> QED BY <1>2, <1>3, <1>4, <1>5 DEF Over

LEMMA EndsOver ==
  ASSUME NEW t, NEW r, Shape(t, r), Queued(r), NEW e,
         \/ e = World!markLeaseLost(r) \/ e = World!EndSession(r)
         \/ r.pc = "idle" /\ e = [World!EndSession(r) EXCEPT !.queue = r.queue]
  PROVE  Over(r, e) /\ e.told = r.told
<1>1. /\ r \in TabRecord /\ r.queue \in Seq(SaveRecord) /\ r.told \in SUBSET Nat
      /\ \A k \in World!Kind : r.armed[k] # Nil => r.armed[k].why = "auto"
      /\ \A i \in DOMAIN r.queue : r.queue[i] \in SaveRecord
  BY DEF Shape, TabRecord
<1>2. World!Closed.armed = [k \in World!Kind |-> Nil]
  BY ClosedPage DEF ClosedFields
<1>3. CASE e = World!markLeaseLost(r)
  <2>1. PICK q : q = World!Untold(r.queue, {"auto", "safety", "final", "drain"}, World!Marks)
    OBVIOUS
  <2>2. e = Left([k \in World!Kind |-> Nil], q, r.told)
    BY <1>2, <1>3, <2>1, ClosedPage DEF World!markLeaseLost, Left, ClosedFields, World!Closed
  <2>3. q \in Seq(SaveRecord) /\ DOMAIN q = DOMAIN r.queue /\ \A i \in DOMAIN q : Like(q[i], r.queue[i])
    BY <1>1, <2>1, UntoldOf
  <2>4. \A i \in DOMAIN q : ~ Awaited(q[i])
    <3>1. \A i \in DOMAIN q : r.queue[i].why \in {"auto", "safety", "final", "drain"} /\ r.queue[i].kind \in World!Marks
      BY <1>1, <2>3 DEF SaveRecord, SaveFieldsOf
    <3>2. \A i \in DOMAIN q : ~ q[i].told
      BY <1>1, <2>1, <2>3, <3>1, UntoldOf
    <3> QED BY <3>2 DEF Awaited
  <2> QED BY <1>1, <2>2, <2>3, <2>4, LeftOver, LeftPage
<1>4. CASE e = World!EndSession(r)
  <2>1. PICK q : q = World!Untold(r.queue, {"safety", "final", "drain"}, World!Marks)
    OBVIOUS
  <2>2. e = Left(r.armed, q, r.told)
    BY <1>4, <2>1 DEF World!EndSession, Left, World!Closed
  <2>3. q \in Seq(SaveRecord) /\ DOMAIN q = DOMAIN r.queue /\ \A i \in DOMAIN q : Like(q[i], r.queue[i])
    BY <1>1, <2>1, UntoldOf
  <2>4. \A i \in DOMAIN q : ~ Awaited(q[i])
    <3>1. \A i \in DOMAIN q : r.queue[i].kind \in World!Marks
      BY <1>1, <2>3 DEF SaveRecord, SaveFieldsOf
    <3>2. \A i \in DOMAIN q : r.queue[i].why \in {"safety", "final", "drain"} => ~ q[i].told
      BY <1>1, <2>1, <2>3, <3>1, UntoldOf
    <3> QED BY <2>3, <3>2 DEF Awaited, Like
  <2> QED BY <1>1, <2>2, <2>3, <2>4, LeftOver, LeftPage DEF TabRecord
<1>5. CASE r.pc = "idle" /\ e = [World!EndSession(r) EXCEPT !.queue = r.queue]
  <2>1. e = Left(r.armed, r.queue, r.told)
    BY <1>5 DEF World!EndSession, Left, World!Closed
  <2>2. \A i \in DOMAIN r.queue : ~ Awaited(r.queue[i])
    BY <1>5 DEF Queued
  <2>3. \A i \in DOMAIN r.queue : Like(r.queue[i], r.queue[i])
    BY DEF Like
  <2> QED BY <1>1, <2>1, <2>2, <2>3, LeftOver, LeftPage DEF TabRecord
<1> QED BY <1>3, <1>4, <1>5

(* It knows no token and has no edit that the other does not. *)
Knows(e, r) == \A x : Uses(e, x) => Uses(r, x)
From(e, r) == \A n : Keeps(e, n) => Keeps(r, n)
Within(e, r) == Knows(e, r) /\ From(e, r)

LEMMA FromLike ==
  ASSUME NEW e, NEW r, e.draft = r.draft \/ e.draft = World!Blank,
         \A s : Pending(e, s) => \E o : Pending(r, o) /\ Like(s, o)
  PROVE  From(e, r)
<1>1. ASSUME NEW n, NEW k \in World!Kind, n \in e.draft[k] PROVE Keeps(r, n)
  BY <1>1 DEF Keeps, World!Blank
<1>2. ASSUME NEW n, NEW s, Pending(e, s), n \in s.content \cup s.then PROVE Keeps(r, n)
  BY <1>2 DEF Keeps, Like
<1> QED BY <1>1, <1>2 DEF From, Keeps

LEMMA FromSame ==
  ASSUME NEW e, NEW r, e.draft = r.draft, \A s : Pending(e, s) => Pending(r, s)
  PROVE  From(e, r)
BY DEF From, Keeps

LEMMA WithinThrough ==
  ASSUME NEW e, NEW m, NEW r, Within(e, m), Within(m, r)
  PROVE  Within(e, r)
BY DEF Within, Knows, From

(* The same page with another queue. *)
WithQueue(r, q) == [r EXCEPT !.queue = q]

SameBut(e, r) ==
  /\ e.state = r.state /\ e.pc = r.pc /\ e.goal = r.goal /\ e.stored = r.stored /\ e.token = r.token
  /\ e.draft = r.draft /\ e.base = r.base /\ e.dirty = r.dirty /\ e.armed = r.armed /\ e.told = r.told

LEMMA QueueFields ==
  ASSUME NEW r \in TabRecord, NEW q \in Seq(SaveRecord), NEW e, e = WithQueue(r, q)
  PROVE  e \in TabRecord /\ e.queue = q /\ SameBut(e, r)
BY DEF TabRecord, WithQueue, SameBut

LEMMA TailSound ==
  ASSUME NEW t, NEW r, NEW l, NEW d, NEW w, PageSound(t, r, l, d, w), r.queue # <<>>,
         NEW e, e = WithQueue(r, Tail(r.queue))
  PROVE  PageSound(t, e, l, d, w) /\ Within(e, r) /\ SameBut(e, r) /\ e.queue = Tail(r.queue)
<1>1. r \in TabRecord /\ r.queue \in Seq(SaveRecord)
  BY DEF PageSound, Shape, TabRecord
<1>2. /\ Tail(r.queue) \in Seq(SaveRecord)
      /\ \A i \in DOMAIN Tail(r.queue) : i \in Nat /\ i + 1 \in DOMAIN r.queue /\ i + 1 # 1
                                         /\ Tail(r.queue)[i] = r.queue[i + 1]
  BY <1>1, TailOf
<1>3. e \in TabRecord /\ e.queue = Tail(r.queue) /\ SameBut(e, r)
  BY <1>1, <1>2, QueueFields
<1>4. \A i \in DOMAIN e.queue : i \in Nat /\ i + 1 \in DOMAIN r.queue /\ e.queue[i] = r.queue[i + 1]
  BY <1>2, <1>3
<1>5. \A s : Pending(e, s) => Pending(r, s)
  BY <1>3, <1>4 DEF Pending, SameBut
<1>6. Shape(t, e)
  BY <1>3, <1>4, <1>5 DEF PageSound, Shape, SameBut
<1>7. Queued(e)
  <2>1. SUFFICES ASSUME NEW i \in DOMAIN e.queue, Awaited(e.queue[i])
                 PROVE  /\ e.pc = "final" /\ e.queue[i].token = e.token
                        /\ \A j \in DOMAIN e.queue : Awaited(e.queue[j]) => j = i
                        /\ e.queue[i].why = "final" => e.queue[i].kind \in World!Kind
                        /\ e.goal = "publish" =>
                            /\ e.queue[i].why = "final" /\ e.queue[i].content = e.draft[e.queue[i].kind]
                            /\ e.queue[i].kind = "layout" =>
                                 \A j \in DOMAIN e.queue : j > i /\ e.queue[j].token = e.queue[i].token
                                                             => e.queue[j].kind = "graph"
                            /\ e.queue[i].kind = "graph" =>
                                 \A j \in DOMAIN e.queue : j # i /\ e.queue[j].token = e.queue[i].token
                                                             => j < i /\ e.queue[j].kind = "graph"
    BY DEF Queued
  <2>2. i + 1 \in DOMAIN r.queue /\ Awaited(r.queue[i + 1]) /\ e.queue[i] = r.queue[i + 1] /\ i \in Nat
    BY <1>4, <2>1
  <2>3. Queued(r)
    BY DEF PageSound
  <2>4. /\ r.pc = "final" /\ r.queue[i + 1].token = r.token
        /\ \A j \in DOMAIN r.queue : Awaited(r.queue[j]) => j = i + 1
        /\ r.queue[i + 1].why = "final" => r.queue[i + 1].kind \in World!Kind
    BY <2>2, <2>3 DEF Queued
  <2>5. r.goal = "publish" =>
          /\ r.queue[i + 1].why = "final" /\ r.queue[i + 1].content = r.draft[r.queue[i + 1].kind]
          /\ r.queue[i + 1].kind = "layout" =>
               \A j \in DOMAIN r.queue : j > i + 1 /\ r.queue[j].token = r.queue[i + 1].token
                                           => r.queue[j].kind = "graph"
          /\ r.queue[i + 1].kind = "graph" =>
               \A j \in DOMAIN r.queue : j # i + 1 /\ r.queue[j].token = r.queue[i + 1].token
                                           => j < i + 1 /\ r.queue[j].kind = "graph"
    BY <2>2, <2>3 DEF Queued
  <2>6. \A j \in DOMAIN e.queue : j \in Nat /\ j + 1 \in DOMAIN r.queue /\ e.queue[j] = r.queue[j + 1]
    BY <1>4
  <2> QED BY <1>3, <2>2, <2>4, <2>5, <2>6 DEF SameBut
<1>8. Held(t, e, l, w)
  BY <1>3, <1>4, <1>5 DEF PageSound, Held, SameBut
<1>9. Receipt(t, e, d, w)
  BY <1>3 DEF PageSound, Receipt, SameBut
<1>10. Within(e, r)
  BY <1>3, <1>5, FromSame DEF Within, Knows, Uses, SameBut
<1> QED BY <1>3, <1>6, <1>7, <1>8, <1>9, <1>10 DEF PageSound

\* The lease changes, but not under the tokens that the page knows.
LEMMA LeaseMoves ==
  ASSUME NEW t, NEW r, NEW l, NEW l2, NEW w, Shape(t, r), Held(t, r, l, w),
         \A x \in Nat : Uses(r, x) /\ World!Owns(l2, t, x) =>
           World!Owns(l, t, x) /\ l2.draft = l.draft /\ (l.init => l2.init)
  PROVE  Held(t, r, l2, w)
<1>1. \A s : Pending(r, s) => SaveCurrent(t, s, l2, w)
  <2>1. ASSUME NEW s, Pending(r, s), World!Owns(l2, t, s.token)
        PROVE  World!Owns(l, t, s.token) /\ (l.init => l2.init)
    <3>1. s.token \in Nat
      BY <2>1, PendingTyped DEF Shape, SaveRecord, SaveFieldsOf
    <3> QED BY <2>1, <3>1 DEF Uses
  <2> QED BY <2>1 DEF Held, SaveCurrent
<1>2. ASSUME r.state # "view", World!Owns(l2, t, r.token)
      PROVE  World!Owns(l, t, r.token) /\ l2.draft = l.draft /\ (l.init => l2.init)
  BY <1>2 DEF Shape, Uses
<1> QED BY <1>1, <1>2 DEF Held

\* There is no lease.
LEMMA NoLease ==
  ASSUME NEW t, NEW r, NEW w
  PROVE  Held(t, r, Nil, w)
BY DEF Held, SaveCurrent, World!Owns

(* Only the status of a row has changed, and what is published of it now is. *)
RowStays(d, d2, p, w) ==
  p \in DOMAIN d => /\ p \in DOMAIN d2 /\ d2[p].draft = d[p].draft /\ d2[p].init = d[p].init
                    /\ d2[p].status = "published" =>
                         \/ d[p].status = "published"
                         \/ /\ d[p].draft["layout"] \subseteq w["layout"].content
                            /\ d[p].init => d[p].draft["graph"] \subseteq w["graph"].content

LEMMA ReceiptMoves ==
  ASSUME NEW t, NEW r, NEW d, NEW d2, NEW w, NEW w2, Receipt(t, r, d, w),
         \A k \in World!Kind : w[k].content \subseteq w2[k].content,
         r.pc = "publish" => RowStays(d, d2, <<Owner[t], r.token>>, w2)
  PROVE  Receipt(t, r, d2, w2)
<1> SUFFICES ASSUME r.pc = "publish" PROVE Receipt(t, r, d2, w2)
  BY DEF Receipt
<1>1. PICK p : p = <<Owner[t], r.token>>
  OBVIOUS
<1>2. /\ p \in DOMAIN d
      /\ \A k \in World!Kinds(t) : r.draft[k] \subseteq d[p].draft[k]
      /\ t \notin Layouter => d[p].init
      /\ d[p].status = "published" => \A k \in World!Kinds(t) : r.draft[k] \subseteq w[k].content
  BY <1>1 DEF Receipt
<1>3. RowStays(d, d2, p, w2)
  BY <1>1
<1>4. \A k \in World!Kinds(t) : k \in World!Kind /\ (k = "layout" \/ (k = "graph" /\ t \notin Layouter))
  BY DEF World!Kinds, World!Kind
<1>5. d2[p].status = "published" => \A k \in World!Kinds(t) : r.draft[k] \subseteq w2[k].content
  BY <1>2, <1>3, <1>4 DEF RowStays
<1> QED BY <1>1, <1>2, <1>3, <1>5 DEF Receipt, RowStays

(* All that is new of the page is the save s. *)
Adds(e, r, s) ==
  /\ \A x : Uses(e, x) => Uses(r, x) \/ x = s.token
  /\ \A n : Keeps(e, n) => Keeps(r, n) \/ n \in s.content \cup s.then

LEMMA AddsWithin ==
  ASSUME NEW e, NEW m, NEW r, NEW s, Adds(e, m, s), Within(m, r), Uses(r, s.token),
         \A n \in s.content \cup s.then : Keeps(r, n)
  PROVE  Within(e, r)
BY DEF Adds, Within, Knows, From

\* One more save, for which nobody waits.
LEMMA AppendSound ==
  ASSUME NEW t, NEW r, NEW l, NEW d, NEW w, PageSound(t, r, l, d, w), NEW s \in SaveRecord,
         NEW e, e = WithQueue(r, Append(r.queue, s)),
         ~ Awaited(s), SaveCurrent(t, s, l, w), r.state = "view" => s.token # r.stored,
         r.pc = "publish" => s.token # r.token, t \in Layouter => s.kind # "graph",
         r.goal = "publish" /\ s.token = r.token =>
           \A i \in DOMAIN r.queue : Awaited(r.queue[i]) => s.kind = "graph" /\ r.queue[i].kind # "graph"
  PROVE  PageSound(t, e, l, d, w) /\ SameBut(e, r) /\ Adds(e, r, s)
<1>1. r \in TabRecord /\ r.queue \in Seq(SaveRecord)
  BY DEF PageSound, Shape, TabRecord
<1>2. PICK n \in Nat : n = Len(r.queue) + 1
  BY <1>1
<1>3. /\ Append(r.queue, s) \in Seq(SaveRecord) /\ Append(r.queue, s)[n] = s
      /\ \A i \in DOMAIN Append(r.queue, s) :
           i \in Nat /\ (i = n \/ (i \in DOMAIN r.queue /\ i < n /\ Append(r.queue, s)[i] = r.queue[i]))
  BY <1>1, <1>2, AppendOf
<1>4. e \in TabRecord /\ e.queue = Append(r.queue, s) /\ SameBut(e, r)
  <2>1. PICK q \in Seq(SaveRecord) : q = Append(r.queue, s)
    BY <1>3
  <2> QED BY ONLY <1>1, <2>1, e = WithQueue(r, Append(r.queue, s)), QueueFields
<1>5. /\ e.queue[n] = s
      /\ \A i \in DOMAIN e.queue : i \in Nat /\ (i = n \/ (i \in DOMAIN r.queue /\ i < n /\ e.queue[i] = r.queue[i]))
  BY <1>3, <1>4
<1>6. \A x : Pending(e, x) => x = s \/ Pending(r, x)
  BY <1>4, <1>5 DEF Pending, SameBut
<1>7. Shape(t, e)
  BY <1>4, <1>5, <1>6 DEF PageSound, Shape, SameBut
<1>8. Queued(e)
  <2>1. SUFFICES ASSUME NEW i \in DOMAIN e.queue, Awaited(e.queue[i])
                 PROVE  /\ e.pc = "final" /\ e.queue[i].token = e.token
                        /\ \A j \in DOMAIN e.queue : Awaited(e.queue[j]) => j = i
                        /\ e.queue[i].why = "final" => e.queue[i].kind \in World!Kind
                        /\ e.goal = "publish" =>
                            /\ e.queue[i].why = "final" /\ e.queue[i].content = e.draft[e.queue[i].kind]
                            /\ e.queue[i].kind = "layout" =>
                                 \A j \in DOMAIN e.queue : j > i /\ e.queue[j].token = e.queue[i].token
                                                             => e.queue[j].kind = "graph"
                            /\ e.queue[i].kind = "graph" =>
                                 \A j \in DOMAIN e.queue : j # i /\ e.queue[j].token = e.queue[i].token
                                                             => j < i /\ e.queue[j].kind = "graph"
    BY DEF Queued
  <2>2. i \in DOMAIN r.queue /\ Awaited(r.queue[i]) /\ e.queue[i] = r.queue[i] /\ i \in Nat /\ i < n
    BY <1>5, <2>1
  <2>3. Queued(r)
    BY DEF PageSound
  <2>4. /\ r.pc = "final" /\ r.queue[i].token = r.token
        /\ \A j \in DOMAIN r.queue : Awaited(r.queue[j]) => j = i
        /\ r.queue[i].why = "final" => r.queue[i].kind \in World!Kind
    BY <2>2, <2>3 DEF Queued
  <2>5. r.goal = "publish" =>
          /\ r.queue[i].why = "final" /\ r.queue[i].content = r.draft[r.queue[i].kind]
          /\ r.queue[i].kind = "layout" =>
               \A j \in DOMAIN r.queue : j > i /\ r.queue[j].token = r.queue[i].token
                                           => r.queue[j].kind = "graph"
          /\ r.queue[i].kind = "graph" =>
               \A j \in DOMAIN r.queue : j # i /\ r.queue[j].token = r.queue[i].token
                                           => j < i /\ r.queue[j].kind = "graph"
    BY <2>2, <2>3 DEF Queued
  <2>6. \A j \in DOMAIN e.queue : Awaited(e.queue[j]) => j = i
    BY <1>5, <2>4
  <2> QED BY <1>4, <1>5, <2>2, <2>4, <2>5, <2>6 DEF SameBut
<1>9. Held(t, e, l, w)
  <2>1. \A x : Pending(e, x) => SaveCurrent(t, x, l, w)
    BY <1>6 DEF PageSound, Held
  <2>2. \A i \in DOMAIN e.queue : Awaited(e.queue[i]) => i \in DOMAIN r.queue /\ e.queue[i] = r.queue[i]
    BY <1>5
  <2> QED BY <1>4, <2>1, <2>2 DEF PageSound, Held, SameBut
<1>10. Receipt(t, e, d, w)
  BY <1>4 DEF PageSound, Receipt, SameBut
<1>11. Adds(e, r, s)
  <2>1. \A x : Uses(e, x) => Uses(r, x) \/ x = s.token
    BY <1>4, <1>6 DEF Uses, SameBut
  <2>2. \A m : Keeps(e, m) => Keeps(r, m) \/ m \in s.content \cup s.then
    BY <1>4, <1>6 DEF Keeps, SameBut
  <2> QED BY <2>1, <2>2 DEF Adds
<1> QED BY <1>4, <1>7, <1>8, <1>9, <1>10, <1>11 DEF PageSound

\* One more save, the one that the page waits for.
LEMMA AwaitSound ==
  ASSUME NEW t, NEW r, NEW l, NEW d, NEW w, PageSound(t, r, l, d, w), NEW s \in SaveRecord,
         NEW e, e = WithQueue(r, Append(r.queue, s)),
         r.pc = "final", \A i \in DOMAIN r.queue : ~ Awaited(r.queue[i]),
         SaveCurrent(t, s, l, w), s.token = r.token, s.why = "final" => s.kind \in World!Kind,
         t \in Layouter => s.kind # "graph", \A n \in s.content \cup s.then : Keeps(r, n),
         r.goal = "publish" =>
           /\ s.why = "final" /\ s.content = r.draft[s.kind]
           /\ s.kind = "graph" =>
                /\ \A i \in DOMAIN r.queue : r.queue[i].token = r.token => r.queue[i].kind = "graph"
                /\ World!Owns(l, t, r.token) => r.draft["layout"] \subseteq l.draft["layout"]
  PROVE  PageSound(t, e, l, d, w) /\ Within(e, r) /\ SameBut(e, r)
<1>1. r \in TabRecord /\ r.queue \in Seq(SaveRecord) /\ r.state # "view" /\ r.stored = r.token
  BY DEF PageSound, Shape, TabRecord
<1>2. PICK n \in Nat : n = Len(r.queue) + 1
  BY <1>1
<1>3. /\ Append(r.queue, s) \in Seq(SaveRecord) /\ Append(r.queue, s)[n] = s
      /\ \A i \in DOMAIN Append(r.queue, s) :
           i \in Nat /\ (i = n \/ (i \in DOMAIN r.queue /\ i < n /\ Append(r.queue, s)[i] = r.queue[i]))
  BY <1>1, <1>2, AppendOf
<1>4. e \in TabRecord /\ e.queue = Append(r.queue, s) /\ SameBut(e, r)
  <2>1. PICK q \in Seq(SaveRecord) : q = Append(r.queue, s)
    BY <1>3
  <2> QED BY ONLY <1>1, <2>1, e = WithQueue(r, Append(r.queue, s)), QueueFields
<1>5. /\ e.queue[n] = s
      /\ \A i \in DOMAIN e.queue : i \in Nat /\ (i = n \/ (i \in DOMAIN r.queue /\ i < n /\ e.queue[i] = r.queue[i]))
  BY <1>3, <1>4
<1>6. \A x : Pending(e, x) => x = s \/ Pending(r, x)
  BY <1>4, <1>5 DEF Pending, SameBut
<1>7. Shape(t, e)
  BY <1>1, <1>4, <1>5, <1>6 DEF PageSound, Shape, SameBut
<1>8. \A i \in DOMAIN e.queue : Awaited(e.queue[i]) => i = n
  BY <1>5
<1>9. Queued(e)
  <2>1. SUFFICES ASSUME NEW i \in DOMAIN e.queue, Awaited(e.queue[i])
                 PROVE  /\ e.pc = "final" /\ e.queue[i].token = e.token
                        /\ \A j \in DOMAIN e.queue : Awaited(e.queue[j]) => j = i
                        /\ e.queue[i].why = "final" => e.queue[i].kind \in World!Kind
                        /\ e.goal = "publish" =>
                            /\ e.queue[i].why = "final" /\ e.queue[i].content = e.draft[e.queue[i].kind]
                            /\ e.queue[i].kind = "layout" =>
                                 \A j \in DOMAIN e.queue : j > i /\ e.queue[j].token = e.queue[i].token
                                                             => e.queue[j].kind = "graph"
                            /\ e.queue[i].kind = "graph" =>
                                 \A j \in DOMAIN e.queue : j # i /\ e.queue[j].token = e.queue[i].token
                                                             => j < i /\ e.queue[j].kind = "graph"
    BY DEF Queued
  <2>2. i = n /\ e.queue[i] = s
    BY <1>5, <1>8, <2>1
  <2>3. \A j \in DOMAIN e.queue : j # i => j < i /\ j \in DOMAIN r.queue /\ e.queue[j] = r.queue[j]
    BY <1>5, <2>2
  <2>4. \A j \in DOMAIN e.queue : j \in Nat
    BY <1>5
  <2> QED BY <1>4, <1>8, <2>1, <2>2, <2>3, <2>4 DEF SameBut
<1>10. Held(t, e, l, w)
  <2>1. \A x : Pending(e, x) => SaveCurrent(t, x, l, w)
    BY <1>6 DEF PageSound, Held
  <2>2. \A i \in DOMAIN e.queue : Awaited(e.queue[i]) => e.queue[i] = s
    BY <1>5, <1>8
  <2> QED BY <1>4, <2>1, <2>2 DEF PageSound, Held, SameBut
<1>11. Receipt(t, e, d, w)
  BY <1>4 DEF PageSound, Receipt, SameBut
<1>12. Within(e, r)
  <2>1. \A x : Uses(e, x) => Uses(r, x)
    BY <1>1, <1>4, <1>6 DEF Uses, SameBut
  <2>2. \A m : Keeps(e, m) => Keeps(r, m)
    BY <1>4, <1>6 DEF Keeps, SameBut
  <2> QED BY <2>1, <2>2 DEF Within, Knows, From
<1> QED BY <1>4, <1>7, <1>9, <1>10, <1>11, <1>12 DEF PageSound

\* The saves that a page makes of what it shows.
LEMMA SaveFields ==
  ASSUME NEW r \in TabRecord, NEW k \in World!Kind, NEW why \in {"auto", "safety", "final"}, r.token \in Nat,
         NEW s, s = World!Save(r, k, why)
  PROVE  /\ s \in SaveRecord /\ s.kind = k /\ s.token = r.token /\ s.content = r.draft[k] /\ s.why = why
         /\ why = "safety" => s.then = r.draft["graph"]
         /\ why # "safety" => s.then = {}
         /\ \A n \in s.content \cup s.then : Keeps(r, n)
         /\ s.told
<1>1. r.draft \in [World!Kind -> SUBSET Nat] /\ r.base \in Nat /\ "graph" \in World!Kind
  BY DEF TabRecord, Contents, World!Kind
<1>2. PICK c \in SUBSET Nat, g \in SUBSET Nat : c = r.draft[k] /\ g = IF why = "safety" THEN r.draft["graph"] ELSE {}
  BY <1>1
<1>3. s = [kind |-> k, token |-> r.token, content |-> c, base |-> r.base, why |-> why, then |-> g, told |-> TRUE]
  BY <1>2 DEF World!Save
<1>4. s.content = r.draft[k] /\ s.then \subseteq r.draft["graph"]
  BY <1>2, <1>3
<1>5. \A n \in s.content \cup s.then : Keeps(r, n)
  BY <1>1, <1>4 DEF Keeps
<1> QED BY <1>1, <1>2, <1>3, <1>5 DEF SaveRecord, SaveFieldsOf, World!Marks

LEMMA MarkerFields ==
  ASSUME NEW r \in TabRecord, NEW goal \in {"release", "discard"}, r.token \in Nat, NEW s, s = World!Marker(r, goal)
  PROVE  s \in SaveRecord /\ s.kind = goal /\ s.token = r.token /\ s.why = "drain" /\ s.told
         /\ s.content = {} /\ s.then = {}
<1>1. s = [kind |-> goal, token |-> r.token, content |-> {}, base |-> r.base, why |-> "drain",
           then |-> {}, told |-> TRUE] /\ r.base \in Nat
  BY DEF World!Marker, TabRecord
<1> QED BY <1>1 DEF SaveRecord, SaveFieldsOf, World!Marks

\* They are current while the page has the lease.
LEMMA SaveOfPage ==
  ASSUME NEW t, NEW r, NEW l, NEW w, Held(t, r, l, w), r.state \in {"editing", "publishing"}, NEW s,
         s.token = r.token,
         s.kind \in World!Kind => s.content = r.draft[s.kind],
         s.kind = "graph" => t \notin Layouter,
         s.why = "safety" => s.then = r.draft["graph"]
  PROVE  SaveCurrent(t, s, l, w)
BY DEF Held, SaveCurrent, World!Kind

\* The page goes back to the editing.
Back(r) == [r EXCEPT !.pc = "idle", !.state = "editing"]

LEMMA BackSound ==
  ASSUME NEW t, NEW r, NEW l, NEW d, NEW w, PageSound(t, r, l, d, w),
         r.state \in {"editing", "publishing"},
         \A i \in DOMAIN r.queue : ~ Awaited(r.queue[i]),
         NEW e, e = Back(r)
  PROVE  PageSound(t, e, l, d, w) /\ Within(e, r) /\ e.told = r.told
<1>1. /\ e \in TabRecord /\ e.pc = "idle" /\ e.state = "editing" /\ e.goal = r.goal /\ e.stored = r.stored
      /\ e.token = r.token /\ e.draft = r.draft /\ e.armed = r.armed /\ e.queue = r.queue /\ e.told = r.told
  BY DEF PageSound, Shape, TabRecord, Back
<1>2. \A s : Pending(e, s) <=> Pending(r, s)
  BY <1>1 DEF Pending
<1>3. Shape(t, e)
  BY <1>1, <1>2 DEF PageSound, Shape
<1>4. Queued(e) /\ Receipt(t, e, d, w)
  BY <1>1 DEF Queued, Receipt
<1>5. Held(t, e, l, w)
  BY <1>1, <1>2 DEF PageSound, Held
<1>6. Within(e, r)
  BY <1>1, <1>2, FromSame DEF Within, Knows, Uses
<1> QED BY <1>1, <1>3, <1>4, <1>5, <1>6 DEF PageSound

\* All that it publishes is in the lease and in its checkpoint.
LEMMA PublishSound ==
  ASSUME NEW t, NEW r, NEW l, NEW d, NEW w, PageSound(t, r, l, d, w), r.pc = "final", r.goal = "publish",
         \A i \in DOMAIN r.queue : ~ Awaited(r.queue[i]) /\ r.queue[i].token # r.token,
         \A k \in World!Kinds(t) : r.draft[k] \subseteq l.draft[k],
         NEW e, e = [r EXCEPT !.pc = "publish"], Receipt(t, e, d, w)
  PROVE  PageSound(t, e, l, d, w) /\ Within(e, r) /\ e.told = r.told
<1>1. /\ e \in TabRecord /\ e.pc = "publish" /\ e.state = r.state /\ e.goal = r.goal /\ e.stored = r.stored
      /\ e.token = r.token /\ e.draft = r.draft /\ e.armed = r.armed /\ e.queue = r.queue /\ e.told = r.told
  BY DEF PageSound, Shape, TabRecord
<1>2. \A s : Pending(e, s) <=> Pending(r, s)
  BY <1>1 DEF Pending
<1>3. Shape(t, e)
  BY <1>1, <1>2 DEF PageSound, Shape
<1>4. Queued(e)
  BY <1>1 DEF Queued
<1>5. Held(t, e, l, w)
  BY <1>1, <1>2 DEF PageSound, Held
<1>6. Within(e, r)
  BY <1>1, <1>2, FromSame DEF Within, Knows, Uses
<1> QED BY <1>1, <1>3, <1>4, <1>5, <1>6 DEF PageSound

\* What was saved of the head of the queue leaves the page sound: nothing that
\* is about to be published is replaced.
Kept(l, s) == [l EXCEPT !.draft = [@ EXCEPT ![s.kind] = s.content]]

LEMMA KeptFields ==
  ASSUME NEW l \in LeaseRecord, NEW s \in SaveRecord, s.kind \in World!Kind, NEW l2, l2 = Kept(l, s)
  PROVE  /\ l2 \in LeaseRecord /\ l2.holder = l.holder /\ l2.token = l.token /\ l2.base = l.base
         /\ l2.init = l.init /\ l2.live = l.live
         /\ \A k \in World!Kind : l2.draft[k] = IF k = s.kind THEN s.content ELSE l.draft[k]
<1>1. PICK c : c = [l.draft EXCEPT ![s.kind] = s.content]
  OBVIOUS
<1>2. l.draft \in [World!Kind -> SUBSET Nat] /\ s.content \in SUBSET Nat
  BY DEF LeaseRecord, Contents, SaveRecord, SaveFieldsOf
<1>3. c \in [World!Kind -> SUBSET Nat] /\ \A k \in World!Kind : c[k] = IF k = s.kind THEN s.content ELSE l.draft[k]
  BY <1>1, <1>2
<1>4. l2 = [l EXCEPT !.draft = c]
  BY <1>1 DEF Kept
<1> QED BY <1>3, <1>4 DEF LeaseRecord, Contents

\* A row of the owner, and the others turned.
LEMMA TurnFields ==
  ASSUME NEW w, NEW d, RowsSound(d, w), NEW o, NEW marked \in {"superseded", "discarded"},
         NEW f, f = World!Turn(d, o, marked)
  PROVE  /\ RowsSound(f, w) /\ DOMAIN f = DOMAIN d
         /\ \A q \in DOMAIN d : /\ f[q].draft = d[q].draft /\ f[q].init = d[q].init /\ f[q].base = d[q].base
                                /\ f[q].status # d[q].status => f[q].status = marked
                                /\ q[1] = o => f[q].status # "active"
<1>1. f = [q \in DOMAIN d |-> IF q[1] = o /\ d[q].status = "active" THEN [d[q] EXCEPT !.status = marked] ELSE d[q]]
  BY DEF World!Turn
<1>2. ASSUME NEW q \in DOMAIN d
      PROVE  /\ f[q] \in RowRecord /\ f[q].draft = d[q].draft /\ f[q].init = d[q].init /\ f[q].base = d[q].base
             /\ f[q].status # d[q].status => f[q].status = marked
             /\ q[1] = o => f[q].status # "active"
  <2>1. d[q] \in RowRecord
    BY DEF RowsSound, RowCurrent
  <2>2. CASE q[1] = o /\ d[q].status = "active"
    <3>1. f[q] = [d[q] EXCEPT !.status = marked]
      BY <1>1, <2>2
    <3> QED BY <2>1, <3>1 DEF RowRecord
  <2>3. CASE ~ (q[1] = o /\ d[q].status = "active")
    <3>1. f[q] = d[q]
      BY <1>1, <2>3
    <3> QED BY <2>1, <2>3, <3>1
  <2> QED BY <2>2, <2>3
<1>3. DOMAIN f = DOMAIN d /\ f = [q \in DOMAIN f |-> f[q]]
  BY <1>1
<1>4. \A q \in DOMAIN f : q = <<q[1], q[2]>> /\ RowCurrent(f[q], w)
  BY <1>2, <1>3 DEF RowsSound, RowCurrent
<1>5. \A p, q \in DOMAIN f : p[1] = q[1] /\ f[p].status = "active" /\ f[q].status = "active" => p = q
  BY <1>2, <1>3 DEF RowsSound
<1> QED BY <1>2, <1>3, <1>4, <1>5 DEF RowsSound

LEMMA PutFields ==
  ASSUME NEW w, NEW d, RowsSound(d, w), NEW o, NEW x, NEW rec, RowCurrent(rec, w),
         rec.status = "active" => \A q \in DOMAIN d : q[1] = o => d[q].status # "active",
         NEW f, f = World!Put(d, <<o, x>>, rec)
  PROVE  /\ RowsSound(f, w) /\ <<o, x>> \in DOMAIN f /\ f[<<o, x>>] = rec
         /\ \A q \in DOMAIN d : q # <<o, x>> => q \in DOMAIN f /\ f[q] = d[q]
<1>1. PICK p : p = <<o, x>>
  OBVIOUS
<1>2. f = [q \in DOMAIN d \cup {p} |-> IF q = p THEN rec ELSE d[q]]
  BY <1>1 DEF World!Put
<1>3. /\ DOMAIN f = DOMAIN d \cup {p} /\ f[p] = rec /\ f = [q \in DOMAIN f |-> f[q]]
      /\ \A q \in DOMAIN d : q # p => f[q] = d[q]
  BY <1>2
<1>4. \A q \in DOMAIN f : q = <<q[1], q[2]>> /\ RowCurrent(f[q], w)
  BY <1>1, <1>3 DEF RowsSound
<1>5. \A a, b \in DOMAIN f : a[1] = b[1] /\ f[a].status = "active" /\ f[b].status = "active" => a = b
  <2>1. p[1] = o
    BY <1>1
  <2> QED BY <1>3, <2>1 DEF RowsSound
<1> QED BY <1>1, <1>3, <1>4, <1>5 DEF RowsSound

\* The row that is written of a lease.
LEMMA RowOfLease ==
  ASSUME NEW w \in WorldRecord, NEW l, LeaseSound(l, w),
         NEW marked \in {"active", "superseded", "published", "discarded"}, NEW rec, rec = World!Row(l, marked)
  PROVE  /\ RowCurrent(rec, w) /\ rec.draft = l.draft /\ rec.init = l.init /\ rec.base = l.base /\ rec.status = marked
<1>1. rec = [base |-> l.base, draft |-> l.draft, init |-> l.init, status |-> marked] /\ l \in LeaseRecord
  BY DEF World!Row, LeaseSound
<1>2. /\ rec \in RowRecord /\ rec.draft = l.draft /\ rec.init = l.init /\ rec.base = l.base /\ rec.status = marked
  BY <1>1 DEF LeaseRecord, RowRecord
<1>3. w["layout"].rev \in Nat
  BY DEF WorldRecord, World!Kind
<1> QED BY <1>2, <1>3 DEF RowCurrent, LeaseSound, World!Kind

\* The lease that a new token gets.
LEMMA FreshFields ==
  ASSUME world \in WorldRecord, NEW t \in Window, NEW x \in Nat, NEW l, l = World!Handoff(t, x)
  PROVE  LeaseSound(l, world) /\ l.holder = Owner[t] /\ l.token = x /\ LeaseMine(l, world, edits)
<1>1. /\ world["layout"].rev \in Nat /\ world["graph"].rev \in Nat
      /\ world["layout"].content \in SUBSET Nat
  BY DEF WorldRecord, World!Kind
<1>2. PICK b, c : b = [World!Revs EXCEPT !["graph"] = 0] /\ c = [World!Content EXCEPT !["graph"] = {}]
  OBVIOUS
<1>3. b \in Revisions /\ b["layout"] = world["layout"].rev /\ b["graph"] = 0
  BY <1>1, <1>2 DEF Revisions, World!Revs, World!Kind
<1>4. c \in Contents /\ c["layout"] = world["layout"].content /\ c["graph"] = {}
  BY <1>1, <1>2 DEF Contents, World!Content, World!Kind
<1>5. l = [holder |-> Owner[t], token |-> x, base |-> b, draft |-> c, init |-> FALSE, live |-> TRUE]
  BY <1>2 DEF World!Handoff, World!FreshLease
<1>6. l \in LeaseRecord /\ l.holder = Owner[t] /\ l.token = x /\ l.base = b /\ l.draft = c /\ l.init = FALSE
  BY <1>3, <1>4, <1>5 DEF LeaseRecord
<1>7. LeaseMine(l, world, edits)
  BY <1>4, <1>6 DEF LeaseMine, Mine, World!Kind
<1> QED BY <1>1, <1>3, <1>4, <1>6, <1>7 DEF LeaseSound

\* The rows stay private.
LEMMA TurnPrivate ==
  ASSUME NEW w, NEW d, NEW es, RowsSound(d, w), RowsPrivate(d, w, es), NEW o, NEW marked \in {"superseded", "discarded"}
  PROVE  RowsPrivate(World!Turn(d, o, marked), w, es)
<1>1. PICK f : f = World!Turn(d, o, marked)
  OBVIOUS
<1>2. DOMAIN f = DOMAIN d /\ \A q \in DOMAIN d : f[q].draft = d[q].draft
  BY <1>1, TurnFields
<1> QED BY <1>1, <1>2 DEF RowsPrivate

LEMMA PutPrivate ==
  ASSUME NEW w, NEW d, NEW es, RowsPrivate(d, w, es), NEW l, LeaseMine(l, w, es), NEW x, NEW marked,
         NEW o, o = l.holder
  PROVE  RowsPrivate(World!Put(d, <<o, x>>, World!Row(l, marked)), w, es)
<1>1. PICK p, rec : p = <<o, x>> /\ rec = World!Row(l, marked)
  OBVIOUS
<1>2. PICK f : f = World!Put(d, p, rec)
  OBVIOUS
<1>3. DOMAIN f = DOMAIN d \cup {p} /\ f[p] = rec /\ \A q \in DOMAIN d : q # p => f[q] = d[q]
  BY <1>2 DEF World!Put
<1>4. rec.draft = l.draft /\ p[1] = o
  BY <1>1 DEF World!Row
<1> QED BY <1>1, <1>2, <1>3, <1>4 DEF RowsPrivate, LeaseMine

LEMMA CheckpointPrivate ==
  ASSUME RowsSound(copies, world), RowsPrivate(copies, world, edits), NEW l, LeaseMine(l, world, edits)
  PROVE  RowsPrivate(World!checkpoint_world_edit_draft_from_lease(l), world, edits)
<1>1. PICK f : f = World!Turn(copies, l.holder, "superseded")
  OBVIOUS
<1>2. RowsPrivate(f, world, edits)
  BY <1>1, TurnPrivate
<1>3. RowsPrivate(World!Put(f, <<l.holder, l.token>>, World!Row(l, "active")), world, edits)
  BY <1>2, PutPrivate
<1> QED BY <1>1, <1>3 DEF World!checkpoint_world_edit_draft_from_lease

\* What a checkpoint changes.
LEMMA CheckpointFields ==
  ASSUME world \in WorldRecord, RowsSound(copies, world), NEW l, LeaseSound(l, world),
         NEW d, d = World!checkpoint_world_edit_draft_from_lease(l)
  PROVE  /\ RowsSound(d, world)
         /\ <<l.holder, l.token>> \in DOMAIN d /\ d[<<l.holder, l.token>>].draft = l.draft
         /\ d[<<l.holder, l.token>>].init = l.init /\ d[<<l.holder, l.token>>].status = "active"
         /\ \A p : p # <<l.holder, l.token>> => RowStays(copies, d, p, world)
<1>1. PICK f : f = World!Turn(copies, l.holder, "superseded")
  OBVIOUS
<1>2. /\ RowsSound(f, world) /\ DOMAIN f = DOMAIN copies
      /\ \A q \in DOMAIN copies : /\ f[q].draft = copies[q].draft /\ f[q].init = copies[q].init
                                  /\ f[q].status # copies[q].status => f[q].status = "superseded"
                                  /\ q[1] = l.holder => f[q].status # "active"
  BY <1>1, TurnFields
<1>3. PICK rec : rec = World!Row(l, "active")
  OBVIOUS
<1>4. RowCurrent(rec, world) /\ rec.draft = l.draft /\ rec.init = l.init /\ rec.status = "active"
  BY <1>3, RowOfLease
<1>5. d = World!Put(f, <<l.holder, l.token>>, rec)
  BY <1>1, <1>3 DEF World!checkpoint_world_edit_draft_from_lease
<1>6. /\ RowsSound(d, world) /\ <<l.holder, l.token>> \in DOMAIN d /\ d[<<l.holder, l.token>>] = rec
      /\ \A q \in DOMAIN f : q # <<l.holder, l.token>> => q \in DOMAIN d /\ d[q] = f[q]
  BY <1>2, <1>4, <1>5, PutFields
<1>7. \A p : p # <<l.holder, l.token>> => RowStays(copies, d, p, world)
  BY <1>2, <1>6 DEF RowStays
<1> QED BY <1>4, <1>6, <1>7

\* A draft that is what was published ends, and is not recovered.
LEMMA SameFields ==
  ASSUME RowsSound(copies, world), NEW q \in DOMAIN copies, World!SameAsPublished(copies[q]),
         NEW d, d = [copies EXCEPT ![q].status = "published"]
  PROVE  /\ RowsSound(d, world) /\ \A p : RowStays(copies, d, p, world)
         /\ RowsPrivate(copies, world, edits) => RowsPrivate(d, world, edits)
<1>1. PICK rec : rec = [copies[q] EXCEPT !.status = "published"]
  OBVIOUS
<1>2. copies[q] \in RowRecord /\ RowCurrent(copies[q], world) /\ copies = [p \in DOMAIN copies |-> copies[p]]
  BY DEF RowsSound, RowCurrent
<1>3. /\ rec \in RowRecord /\ rec.status = "published" /\ rec.base = copies[q].base
      /\ rec.draft = copies[q].draft /\ rec.init = copies[q].init
  BY <1>1, <1>2 DEF RowRecord
<1>4. d = [copies EXCEPT ![q] = rec]
  BY <1>1
<1>5. /\ DOMAIN d = DOMAIN copies /\ d[q] = rec /\ d = [p \in DOMAIN d |-> d[p]]
      /\ \A p \in DOMAIN copies : p # q => d[p] = copies[p]
  BY <1>2, <1>4
<1>6. RowCurrent(rec, world)
  BY <1>2, <1>3 DEF RowCurrent
<1>7. RowsSound(d, world)
  BY <1>3, <1>5, <1>6 DEF RowsSound
<1>8. \A p : RowStays(copies, d, p, world)
  BY <1>3, <1>5 DEF RowStays, World!SameAsPublished
<1>9. RowsPrivate(copies, world, edits) => RowsPrivate(d, world, edits)
  BY <1>3, <1>5 DEF RowsPrivate
<1> QED BY <1>7, <1>8, <1>9

(* What the answer of the acquisition leaves in the database. *)
Acquired(t, x, a) ==
  /\ LeaseCurrent(a.lease, world) /\ RowsSound(a.drafts, world)
  /\ \/ a.lease = lease
     \/ a.lease.holder = Owner[t] /\ a.lease.token = x
  /\ a.ok \/ a.lease = lease
  /\ a.ok => LeaseSound(a.lease, world) /\ LeaseMine(a.lease, world, edits) /\ a.lease.holder = Owner[t]
  /\ LeasePrivate(a.lease, world, edits) /\ RowsPrivate(a.drafts, world, edits)
  /\ \A p : p[2] # x => RowStays(copies, a.drafts, p, world)

AnswerOf(a, ok, l, d) == a.ok = ok /\ a.lease = l /\ a.drafts = d

LEMMA RecoveryAnswers ==
  ASSUME world \in WorldRecord, RowsSound(copies, world), RowsPrivate(copies, world, edits), NEW t \in Window, NEW x \in Nat,
         NEW a, a = World!Recovery(t, x)
  PROVE  Acquired(t, x, a)
<1>1. PICK fresh : fresh = World!Handoff(t, x)
  OBVIOUS
<1>2. LeaseSound(fresh, world) /\ fresh.holder = Owner[t] /\ fresh.token = x /\ LeaseMine(fresh, world, edits)
  BY <1>1, FreshFields
<1>3. \A p : RowStays(copies, copies, p, world)
  BY DEF RowStays
<1>4. CASE <<Owner[t], x>> \in DOMAIN copies /\ copies[<<Owner[t], x>>].status = "published"
  <2>1. PICK f : f = World!Turn(copies, Owner[t], "superseded")
    OBVIOUS
  <2>2. AnswerOf(a, TRUE, fresh, f)
    BY <1>1, <1>4, <2>1 DEF World!Recovery, World!Answer, AnswerOf
  <2>3. RowsSound(f, world) /\ \A p : RowStays(copies, f, p, world)
    BY <2>1, TurnFields DEF RowStays
  <2>4. RowsPrivate(f, world, edits)
    BY <2>1, TurnPrivate
  <2> QED BY <1>2, <2>2, <2>3, <2>4 DEF Acquired, AnswerOf, LeaseCurrent, LeasePrivate
<1>5. CASE ~ (<<Owner[t], x>> \in DOMAIN copies /\ copies[<<Owner[t], x>>].status = "published")
           /\ World!Active(Owner[t]) = {}
  <2>1. AnswerOf(a, TRUE, fresh, copies)
    BY <1>1, <1>5 DEF World!Recovery, World!Answer, AnswerOf
  <2> QED BY <1>2, <1>3, <2>1 DEF Acquired, AnswerOf, LeaseCurrent, LeasePrivate
<1>6. CASE ~ (<<Owner[t], x>> \in DOMAIN copies /\ copies[<<Owner[t], x>>].status = "published")
           /\ World!Active(Owner[t]) # {}
  <2>1. PICK q : q = CHOOSE y \in World!Active(Owner[t]) : TRUE
    OBVIOUS
  <2>2. q \in DOMAIN copies /\ q[1] = Owner[t] /\ copies[q].status = "active"
    BY <1>6, <2>1 DEF World!Active
  <2>3. PICK rec : rec = copies[q]
    OBVIOUS
  <2>4. CASE World!SameAsPublished(rec)
    <3>1. PICK d : d = [copies EXCEPT ![q].status = "published"]
      OBVIOUS
    <3>2. AnswerOf(a, TRUE, fresh, d)
      BY <1>1, <1>6, <2>1, <2>3, <2>4, <3>1 DEF World!Recovery, World!Answer, AnswerOf
    <3>3. RowsSound(d, world) /\ (\A p : RowStays(copies, d, p, world)) /\ RowsPrivate(d, world, edits)
      BY <2>2, <2>3, <2>4, <3>1, SameFields
    <3> QED BY <1>2, <3>2, <3>3 DEF Acquired, AnswerOf, LeaseCurrent, LeasePrivate
  <2>5. CASE ~ World!SameAsPublished(rec) /\ World!CurrentBase(rec)
    <3>1. PICK l : l = [fresh EXCEPT !.base = rec.base, !.draft = rec.draft, !.init = rec.init]
      OBVIOUS
    <3>2. PICK d : d = World!checkpoint_world_edit_draft_from_lease(l)
      OBVIOUS
    <3>3. AnswerOf(a, TRUE, l, d)
      BY <1>1, <1>6, <2>1, <2>3, <2>5, <3>1, <3>2 DEF World!Recovery, World!Answer, AnswerOf
    <3>4. rec \in RowRecord /\ RowCurrent(rec, world)
      BY <2>2, <2>3 DEF RowsSound, RowCurrent
    <3>5. /\ l \in LeaseRecord /\ l.holder = Owner[t] /\ l.token = x /\ l.base = rec.base
          /\ l.draft = rec.draft /\ l.init = rec.init
      BY <1>2, <3>1, <3>4 DEF LeaseSound, LeaseRecord, RowRecord
    <3>6. LeaseSound(l, world)
      BY <2>5, <3>4, <3>5 DEF LeaseSound, RowCurrent, World!CurrentBase, World!Kind
    <3>7. RowsSound(d, world) /\ \A p : p # <<l.holder, l.token>> => RowStays(copies, d, p, world)
      BY <3>2, <3>6, CheckpointFields
    <3>9. LeaseMine(l, world, edits) /\ RowsPrivate(d, world, edits)
      <4>1. LeaseMine(l, world, edits)
        BY <2>2, <2>3, <3>5 DEF LeaseMine, RowsPrivate
      <4> QED BY <3>2, <4>1, CheckpointPrivate
    <3>8. \A p : p[2] # x => p # <<l.holder, l.token>>
      BY <3>5
    <3> QED BY <3>3, <3>5, <3>6, <3>7, <3>8, <3>9 DEF Acquired, AnswerOf, LeaseCurrent,
      LeasePrivate
  <2>6. CASE ~ World!SameAsPublished(rec) /\ ~ World!CurrentBase(rec)
    <3>1. AnswerOf(a, TRUE, fresh, copies)
      BY <1>1, <1>6, <2>1, <2>3, <2>6 DEF World!Recovery, World!Answer, AnswerOf
    <3> QED BY <1>2, <1>3, <3>1 DEF Acquired, AnswerOf, LeaseCurrent, LeasePrivate
  <2> QED BY <2>4, <2>5, <2>6
<1> QED BY <1>4, <1>5, <1>6

LEMMA AcquireAnswers ==
  ASSUME world \in WorldRecord, LeaseCurrent(lease, world), RowsSound(copies, world),
         LeasePrivate(lease, world, edits), RowsPrivate(copies, world, edits),
         NEW t \in Window, NEW x \in Nat, NEW a, a = World!acquire_world_edit_lease_atomic(t, x)
  PROVE  Acquired(t, x, a)
<1>1. \A p : RowStays(copies, copies, p, world)
  BY DEF RowStays
<1>2. CASE lease = Nil \/ (~ lease.live /\ lease.holder # Owner[t])
  <2>1. a = World!Recovery(t, x)
    BY <1>2 DEF World!acquire_world_edit_lease_atomic
  <2> QED BY <2>1, RecoveryAnswers
<1>3. CASE lease # Nil /\ lease.live
  <2>1. \/ AnswerOf(a, TRUE, lease, copies) /\ lease.holder = Owner[t]
        \/ AnswerOf(a, FALSE, lease, copies)
    BY <1>3 DEF World!acquire_world_edit_lease_atomic, World!Answer, AnswerOf, World!Owns
  <2> QED BY <1>1, <1>3, <2>1 DEF Acquired, AnswerOf, LeaseCurrent, LeasePrivate
<1>4. CASE lease # Nil /\ ~ lease.live /\ lease.holder = Owner[t]
  <2>1. PICK l : l = [lease EXCEPT !.token = x, !.live = TRUE]
    OBVIOUS
  <2>2. AnswerOf(a, TRUE, l, copies)
    BY <1>4, <2>1 DEF World!acquire_world_edit_lease_atomic, World!Answer, AnswerOf
  <2>3. lease \in LeaseRecord /\ LeaseSound(lease, world)
    BY <1>4 DEF LeaseCurrent, LeaseSound
  <2>4. /\ l \in LeaseRecord /\ l.holder = Owner[t] /\ l.token = x /\ l.base = lease.base
        /\ l.draft = lease.draft /\ l.init = lease.init
    BY <1>4, <2>1, <2>3 DEF LeaseRecord
  <2>5. LeaseSound(l, world)
    BY <2>3, <2>4 DEF LeaseSound
  <2>6. LeaseMine(l, world, edits)
    BY <1>4, <2>4 DEF LeasePrivate, LeaseMine
  <2> QED BY <1>1, <2>2, <2>4, <2>5, <2>6 DEF Acquired, AnswerOf, LeaseCurrent, LeasePrivate
<1> QED BY <1>2, <1>3, <1>4

\* The page of another token sees no difference.
LEMMA OtherPage ==
  ASSUME NEW u, NEW r, PageSound(u, r, lease, copies, world), NEW x, ~ Uses(r, x),
         NEW l2, NEW d2, NEW w2,
         l2 = Nil \/ (w2 = world /\ (l2 = lease \/ l2.token = x)),
         \A k \in World!Kind : world[k].content \subseteq w2[k].content,
         \A p : p[2] # x => RowStays(copies, d2, p, w2)
  PROVE  PageSound(u, r, l2, d2, w2)
<1>1. Shape(u, r) /\ Queued(r) /\ Held(u, r, lease, world) /\ Receipt(u, r, copies, world)
  BY DEF PageSound
<1>2. Held(u, r, l2, w2)
  <2>1. CASE l2 = Nil
    BY <2>1, NoLease
  <2>2. CASE w2 = world /\ (l2 = lease \/ l2.token = x)
    <3>1. \A y \in Nat : Uses(r, y) /\ World!Owns(l2, u, y) => l2 = lease
      BY <2>2 DEF World!Owns
    <3> QED BY <1>1, <2>2, <3>1, LeaseMoves
  <2> QED BY <2>1, <2>2
<1>3. Receipt(u, r, d2, w2)
  <2>1. ASSUME r.pc = "publish" PROVE RowStays(copies, d2, <<Owner[u], r.token>>, w2)
    <3>1. Uses(r, r.token)
      BY <1>1, <2>1 DEF Shape, Uses
    <3>2. r.token # x
      BY <3>1
    <3>3. PICK p : p = <<Owner[u], r.token>>
      OBVIOUS
    <3>4. p[2] # x
      BY <3>2, <3>3
    <3> QED BY <3>3, <3>4
  <2> QED BY <1>1, <2>1, ReceiptMoves
<1> QED BY <1>1, <1>2, <1>3 DEF PageSound

(* A step of one page under a token that is its own, or a new one. *)
Step(t, x, e) ==
  /\ tabs' = [tabs EXCEPT ![t] = e]
  /\ issued' \in Nat /\ issued <= issued'
  /\ \A y \in Nat : Uses(e, y) => Uses(tabs[t], y) \/ (y = x /\ x <= issued')
  /\ \A n \in Nat : Keeps(e, n) => Keeps(tabs[t], n) \/ n \in Mine(Owner[t], world', edits')
  /\ \A o : Mine(o, world, edits) \subseteq Mine(o, world', edits')
  /\ LeasePrivate(lease', world', edits') /\ RowsPrivate(copies', world', edits')
  /\ PageSound(t, e, lease', copies', world')
  /\ x \in Nat => Uses(tabs[t], x) \/ x > issued
  /\ lease' = Nil \/ (world' = world /\ (lease' = lease \/ lease'.token = x))
  /\ \A p : p[2] # x => RowStays(copies, copies', p, world')
  /\ world' \in WorldRecord /\ \A k \in World!Kind : world[k].content \subseteq world'[k].content
  /\ LeaseCurrent(lease', world') /\ RowsSound(copies', world')
  /\ edits' \in Seq({Owner[u] : u \in Window})
  /\ e.told \subseteq tabs[t].told \cup world'["layout"].content \cup world'["graph"].content

LEMMA StepSound ==
  ASSUME WorldSound, NEW t \in Window, NEW x, NEW e, Step(t, x, e)
  PROVE  WorldSound'
<1>1. tabs' = [u \in Window |-> tabs'[u]] /\ tabs'[t] = e /\ \A u \in Window : u # t => tabs'[u] = tabs[u]
  BY DEF WorldSound, Step
<1>2. ASSUME NEW u \in Window, u # t, Uses(tabs[u], x) PROVE FALSE
  <2>1. x \in Nat /\ (Uses(tabs[t], x) \/ x > issued)
    BY <1>2 DEF Step, Uses
  <2>2. x <= issued /\ issued \in Nat /\ ~ Uses(tabs[t], x)
    BY <1>2, <2>1 DEF WorldSound, OneUser, Uses
  <2> QED BY <1>2, <2>1, <2>2 DEF Uses
<1>3. ASSUME NEW u \in Window, u # t PROVE PageSound(u, tabs[u], lease', copies', world')
  <2>1. PageSound(u, tabs[u], lease, copies, world) /\ ~ Uses(tabs[u], x)
    BY <1>2, <1>3 DEF WorldSound
  <2>2. PICK l2, d2, w2 : l2 = lease' /\ d2 = copies' /\ w2 = world'
    OBVIOUS
  <2>3. /\ l2 = Nil \/ (w2 = world /\ (l2 = lease \/ l2.token = x))
        /\ \A k \in World!Kind : world[k].content \subseteq w2[k].content
        /\ \A p : p[2] # x => RowStays(copies, d2, p, w2)
    BY <2>2 DEF Step
  <2>4. PageSound(u, tabs[u], l2, d2, w2)
    BY <2>1, <2>3, OtherPage
  <2> QED BY <2>2, <2>4
<1>4. \A u \in Window : PageSound(u, tabs'[u], lease', copies', world')
  BY <1>1, <1>3 DEF Step
<1>5. OneUser'
  <2>1. issued' \in Nat /\ issued \in Nat /\ issued <= issued'
    BY DEF WorldSound, OneUser, Step
  <2>2. \A u \in Window : \A y \in Nat : Uses(tabs[u], y) => y <= issued /\ \A v \in Window : Uses(tabs[v], y) => v = u
    BY DEF WorldSound, OneUser
  <2>3. \A y \in Nat : Uses(tabs'[t], y) => y <= issued' /\ \A v \in Window : v # t => ~ Uses(tabs[v], y)
    <3>1. \A y \in Nat : Uses(e, y) => Uses(tabs[t], y) \/ (y = x /\ x <= issued')
      BY DEF Step
    <3> QED BY <1>1, <1>2, <2>1, <2>2, <3>1
  <2>4. \A u \in Window : \A y \in Nat : Uses(tabs'[u], y) =>
          y <= issued' /\ \A v \in Window : Uses(tabs'[v], y) => v = u
    BY <1>1, <2>1, <2>2, <2>3
  <2> QED BY <2>1, <2>4 DEF OneUser, Uses, Pending
<1>6. World!ToldIsPublished'
  <2>1. \A u \in Window : tabs[u].told \subseteq world["layout"].content \cup world["graph"].content
    BY DEF WorldSound, World!ToldIsPublished
  <2>2. /\ world["layout"].content \subseteq world'["layout"].content
        /\ world["graph"].content \subseteq world'["graph"].content
    BY DEF Step, World!Kind
  <2>3. \A u \in Window : tabs'[u].told \subseteq world'["layout"].content \cup world'["graph"].content
    BY <1>1, <2>1, <2>2 DEF Step
  <2> QED BY <2>3 DEF World!ToldIsPublished
<1>7. Private'
  <2>1. ASSUME NEW u \in Window, NEW n \in Nat, Keeps(tabs'[u], n) PROVE n \in Mine(Owner[u], world', edits')
    <3>1. Keeps(tabs[u], n) => n \in Mine(Owner[u], world, edits)
      BY DEF WorldSound, Private
    <3>2. Keeps(tabs[u], n) \/ n \in Mine(Owner[u], world', edits')
      BY <1>1, <2>1 DEF Step
    <3> QED BY <3>1, <3>2 DEF Step
  <2> QED BY <2>1 DEF Private, Step, Keeps, Mine, Pending, LeasePrivate, LeaseMine, RowsPrivate
<1> QED BY <1>1, <1>4, <1>5, <1>6, <1>7 DEF WorldSound, Step, LeaseCurrent, RowsSound, PageSound,
       LeaseSound, RowCurrent, Shape, Queued, Held, Receipt, SaveCurrent

\* Only the page of t moves.
LEMMA WorldPageStep ==
  ASSUME WorldInstance, WorldSound, NEW t \in Window, NEW e, tabs' = [tabs EXCEPT ![t] = e],
         world' = world, lease' = lease, copies' = copies, issued' = issued,
         edits' = edits,
         Within(e, tabs[t]), PageSound(t, e, lease, copies, world),
         e.told \subseteq tabs[t].told \cup world["layout"].content \cup world["graph"].content
  PROVE  WorldSound'
<1>1. \A p : RowStays(copies, copies, p, world)
  BY DEF RowStays
<1>2. /\ issued \in Nat /\ world \in WorldRecord /\ LeaseCurrent(lease, world) /\ RowsSound(copies, world)
      /\ edits \in Seq({Owner[u] : u \in Window})
      /\ LeasePrivate(lease, world, edits) /\ RowsPrivate(copies, world, edits)
  BY DEF WorldSound, OneUser, Private
<1>3. Step(t, Nil, e)
  BY <1>1, <1>2 DEF Step, Within, Knows, From, WorldInstance
<1> QED BY <1>3, StepSound

\* The page of t moves and the lease and the rows of its token.
LEMMA LeaseStep ==
  ASSUME WorldInstance, WorldSound, NEW t \in Window, NEW e, tabs' = [tabs EXCEPT ![t] = e],
         NEW x, Uses(tabs[t], x),
         world' = world, issued' = issued, edits' = edits,
         lease' = Nil \/ lease' = lease \/ lease'.token = x,
         \A p : p[2] # x => RowStays(copies, copies', p, world),
         LeaseCurrent(lease', world), RowsSound(copies', world),
         LeasePrivate(lease', world, edits), RowsPrivate(copies', world, edits),
         Within(e, tabs[t]), PageSound(t, e, lease', copies', world), e.told = tabs[t].told
  PROVE  WorldSound'
<1>1. issued \in Nat /\ world \in WorldRecord /\ edits \in Seq({Owner[u] : u \in Window})
  BY DEF WorldSound, OneUser
<1>2. Step(t, x, e)
  BY <1>1 DEF Step, Within, Knows, From
<1> QED BY <1>2, StepSound

\* The lease is given back.
LEMMA GoneFields ==
  ASSUME LeaseCurrent(lease, world), LeasePrivate(lease, world, edits), NEW t, NEW x
  PROVE  /\ World!Gone(t, x) = Nil \/ World!Gone(t, x) = lease
         /\ LeaseCurrent(World!Gone(t, x), world) /\ LeasePrivate(World!Gone(t, x), world, edits)
         /\ \A u, r : Held(u, r, lease, world) => Held(u, r, World!Gone(t, x), world)
<1>1. World!Gone(t, x) = Nil \/ World!Gone(t, x) = lease
  BY DEF World!Gone
<1>2. \A u, r : Held(u, r, Nil, world)
  BY NoLease
<1> QED BY <1>1, <1>2 DEF LeaseCurrent, LeasePrivate

LEMMA PageGone ==
  ASSUME NEW t, NEW u, NEW x, NEW r, PageSound(u, r, lease, copies, world)
  PROVE  PageSound(u, r, World!Gone(t, x), copies, world)
BY NoLease DEF PageSound, World!Gone

-----------------------------------------------------------------------------
\* The page opens the session.
StartFields(t, r, x, a, e) ==
  \/ ~ a.ok /\ e = [r EXCEPT !.stored = x]
  \/ e = [r EXCEPT !.stored = Nil]
  \/ /\ a.ok
     /\ \E got, s : /\ e = [got EXCEPT !.state = s]
                    /\ (t \in Layouter /\ s = "editing") \/ (t \notin Layouter /\ s = "acquiring")
                    /\ got = [r EXCEPT !.draft = [a.lease.draft EXCEPT !["graph"] = {}], !.token = x,
                                       !.stored = x, !.dirty = a.status # "acquired"]

LEMMA StartPage ==
  ASSUME WorldInstance, world \in WorldRecord, NEW t \in Window, NEW r, PageSound(t, r, lease, copies, world),
         r.state = "view",
         NEW x \in Nat, \A s : Pending(r, s) => s.token # x, NEW a, Acquired(t, x, a), NEW e, StartFields(t, r, x, a, e)
  PROVE  /\ PageSound(t, e, a.lease, a.drafts, world) /\ e.told = r.told
         /\ \A y \in Nat : Uses(e, y) => Uses(r, y) \/ y = x
         /\ \A n : Keeps(e, n) => Keeps(r, n) \/ (a.ok /\ n \in a.lease.draft["layout"])
<1>1. Shape(t, r) /\ Queued(r) /\ Held(t, r, lease, world) /\ r \in TabRecord /\ r.pc = "idle"
  BY DEF PageSound, Shape
<1>2. ASSUME NEW s, Pending(r, s) PROVE SaveCurrent(t, s, a.lease, world)
  <2>1. World!Owns(a.lease, t, s.token) => a.lease = lease
    BY <1>2 DEF Acquired, World!Owns
  <2> QED BY <1>1, <1>2, <2>1 DEF Held, SaveCurrent
<1>3. \A i \in DOMAIN r.queue : ~ Awaited(r.queue[i])
  BY <1>1 DEF Queued
<1>4. CASE (~ a.ok /\ e = [r EXCEPT !.stored = x]) \/ e = [r EXCEPT !.stored = Nil]
  <2>1. /\ e \in TabRecord /\ e.state = "view" /\ e.pc = "idle" /\ e.goal = r.goal /\ e.token = r.token
        /\ e.draft = r.draft /\ e.armed = r.armed /\ e.queue = r.queue /\ e.told = r.told
        /\ e.stored = Nil \/ e.stored = x
    BY <1>1, <1>4 DEF TabRecord
  <2>2. \A s : Pending(e, s) <=> Pending(r, s)
    BY <2>1 DEF Pending
  <2>3. \A s : Pending(e, s) => s.token \in Nat
    BY <2>1, PendingTyped DEF SaveRecord, SaveFieldsOf
  <2>4. Shape(t, e)
    BY <1>1, <2>1, <2>2, <2>3 DEF Shape, WorldInstance
  <2>5. Queued(e) /\ Receipt(t, e, a.drafts, world)
    BY <1>3, <2>1 DEF Queued, Receipt
  <2>6. Held(t, e, a.lease, world)
    BY <1>2, <2>1, <2>2 DEF Held
  <2>7. \A y \in Nat : Uses(e, y) => Uses(r, y) \/ y = x
    BY <2>1, <2>2 DEF Uses, WorldInstance
  <2>8. \A n : Keeps(e, n) => Keeps(r, n)
    BY <2>1, <2>2, FromSame DEF From
  <2> QED BY <2>1, <2>4, <2>5, <2>6, <2>7, <2>8 DEF PageSound
<1>5. CASE /\ a.ok
           /\ \E got, s : /\ e = [got EXCEPT !.state = s]
                          /\ (t \in Layouter /\ s = "editing") \/ (t \notin Layouter /\ s = "acquiring")
                          /\ got = [r EXCEPT !.draft = [a.lease.draft EXCEPT !["graph"] = {}], !.token = x,
                                             !.stored = x, !.dirty = a.status # "acquired"]
  <2>1. PICK got, s : /\ e = [got EXCEPT !.state = s]
                      /\ (t \in Layouter /\ s = "editing") \/ (t \notin Layouter /\ s = "acquiring")
                      /\ got = [r EXCEPT !.draft = [a.lease.draft EXCEPT !["graph"] = {}], !.token = x,
                                         !.stored = x, !.dirty = a.status # "acquired"]
    BY <1>5
  <2>2. LeaseSound(a.lease, world)
    BY <1>5 DEF Acquired
  <2>3. PICK c : c = [a.lease.draft EXCEPT !["graph"] = {}]
    OBVIOUS
  <2>4. c \in Contents /\ c["layout"] = a.lease.draft["layout"] /\ c["graph"] = {}
    BY <2>2, <2>3 DEF LeaseSound, LeaseRecord, Contents, World!Kind
  <2>5. PICK b : b = (a.status # "acquired")
    OBVIOUS
  <2>6. got = [r EXCEPT !.draft = c, !.token = x, !.stored = x, !.dirty = b] /\ b \in BOOLEAN
    BY <2>1, <2>3, <2>5
  <2>7. /\ got \in TabRecord /\ got.draft = c /\ got.token = x /\ got.stored = x /\ got.pc = r.pc
        /\ got.goal = r.goal /\ got.armed = r.armed /\ got.queue = r.queue /\ got.told = r.told
    BY ONLY <1>1, <2>4, <2>6, x \in Nat DEF TabRecord
  <2>8. /\ e \in TabRecord /\ e.draft = c /\ e.token = x /\ e.stored = x /\ e.pc = "idle" /\ e.state = s
        /\ e.goal = r.goal /\ e.armed = r.armed /\ e.queue = r.queue /\ e.told = r.told
    <3>1. s \in {"editing", "acquiring"} /\ e = [got EXCEPT !.state = s] /\ r.pc = "idle"
      BY <1>1, <2>1
    <3> QED BY ONLY <2>7, <3>1 DEF TabRecord
  <2>9. \A y : Pending(e, y) <=> Pending(r, y)
    BY <2>8 DEF Pending
  <2>10. Shape(t, e)
    BY <1>1, <2>1, <2>4, <2>8, <2>9 DEF Shape
  <2>11. Queued(e) /\ Receipt(t, e, a.drafts, world)
    BY <1>3, <2>8 DEF Queued, Receipt
  <2>12. Held(t, e, a.lease, world)
    <3>1. world["layout"].content \subseteq e.draft["layout"]
      BY <2>2, <2>4, <2>8 DEF LeaseSound
    <3>2. \A i \in DOMAIN e.queue : ~ Awaited(e.queue[i])
      BY <1>3, <2>8
    <3> QED BY <1>2, <2>1, <2>8, <2>9, <3>1, <3>2 DEF Held
  <2>13. \A y \in Nat : Uses(e, y) => Uses(r, y) \/ y = x
    BY <2>8, <2>9 DEF Uses
  <2>14. \A n : Keeps(e, n) => Keeps(r, n) \/ n \in a.lease.draft["layout"]
    BY <2>4, <2>8, <2>9 DEF Keeps, World!Kind
  <2> QED BY <1>5, <2>8, <2>10, <2>11, <2>12, <2>13, <2>14 DEF PageSound
<1> QED BY <1>4, <1>5 DEF StartFields

LEMMA WorldStart ==
  ASSUME WorldInstance, WorldSound, NEW t \in Window, World!Start(t)
  PROVE  WorldSound'
<1>1. PICK r : r = tabs[t]
  OBVIOUS
<1>2. PageSound(t, r, lease, copies, world) /\ r \in TabRecord
  BY <1>1 DEF WorldSound, PageSound, Shape
<1>3. /\ world \in WorldRecord /\ LeaseCurrent(lease, world) /\ RowsSound(copies, world) /\ issued \in Nat
      /\ edits \in Seq({Owner[u] : u \in Window})
      /\ LeasePrivate(lease, world, edits) /\ RowsPrivate(copies, world, edits)
  BY DEF WorldSound, OneUser, Private
<1>4. PICK x : x = IF r.stored = Nil THEN issued + 1 ELSE r.stored
  OBVIOUS
<1>5. PICK a : a = World!acquire_world_edit_lease_atomic(t, x)
  OBVIOUS
<1>6. /\ r.state = "view" /\ issued' = IF r.stored = Nil THEN issued + 1 ELSE issued
      /\ lease' = a.lease /\ copies' = a.drafts /\ world' = world /\ edits' = edits
  BY <1>1, <1>4, <1>5 DEF World!Start
<1>7. PICK e : tabs' = [tabs EXCEPT ![t] = e] /\ StartFields(t, r, x, a, e)
  <2>1. PICK got : got = [r EXCEPT !.draft = [a.lease.draft EXCEPT !["graph"] = {}], !.token = x,
                                   !.stored = x, !.dirty = a.status # "acquired"]
    OBVIOUS
  <2>2. PICK e : /\ tabs' = [tabs EXCEPT ![t] = e]
                 /\ \/ e = CASE ~a.ok -> [r EXCEPT !.stored = x]
                             [] a.ok /\ t \in Layouter -> [got EXCEPT !.state = "editing"]
                             [] OTHER -> [got EXCEPT !.state = "acquiring"]
                    \/ e = [r EXCEPT !.stored = Nil]
    BY <1>1, <1>4, <1>5, <2>1 DEF World!Start, World!Tabs
  <2>3. a.ok => StartFields(t, r, x, a, [got EXCEPT !.state = IF t \in Layouter THEN "editing" ELSE "acquiring"])
    BY <2>1 DEF StartFields
  <2>4. \/ ~ a.ok /\ e = [r EXCEPT !.stored = x]
        \/ a.ok /\ e = [got EXCEPT !.state = IF t \in Layouter THEN "editing" ELSE "acquiring"]
        \/ e = [r EXCEPT !.stored = Nil]
    BY <2>2
  <2>5. StartFields(t, r, x, a, e)
    BY <2>3, <2>4 DEF StartFields
  <2> QED BY <2>2, <2>5
<1>8. x \in Nat /\ (x > issued \/ Uses(r, x)) /\ x <= issued' /\ issued <= issued' /\ issued' \in Nat
  <2>1. r.stored \in Nat \cup {Nil}
    BY <1>2 DEF TabRecord
  <2>2. CASE r.stored = Nil
    BY <1>3, <1>4, <1>6, <2>2
  <2>3. CASE r.stored # Nil
    <3>1. x \in Nat /\ Uses(r, x)
      BY <1>4, <2>1, <2>3 DEF Uses
    <3>2. x <= issued
      BY <1>1, <3>1 DEF WorldSound, OneUser
    <3> QED BY <1>3, <1>6, <2>3, <3>1, <3>2
  <2> QED BY <2>2, <2>3
<1>9. \A s : Pending(r, s) => s.token # x
  <2>1. ASSUME NEW s, Pending(r, s), s.token = x PROVE FALSE
    <3>1. Uses(r, x)
      BY <1>8, <2>1 DEF Uses
    <3>2. x <= issued
      BY <1>1, <1>8, <3>1 DEF WorldSound, OneUser
    <3>3. r.stored = x
      BY <1>3, <1>4, <3>2
    <3> QED BY <1>2, <1>6, <2>1, <3>3 DEF PageSound, Shape
  <2> QED BY <2>1
<1>10. Acquired(t, x, a)
  BY <1>3, <1>5, <1>8, AcquireAnswers
<1>11. /\ PageSound(t, e, a.lease, a.drafts, world) /\ e.told = r.told
       /\ \A y \in Nat : Uses(e, y) => Uses(r, y) \/ y = x
       /\ \A n : Keeps(e, n) => Keeps(r, n) \/ (a.ok /\ n \in a.lease.draft["layout"])
  BY <1>2, <1>3, <1>6, <1>7, <1>8, <1>9, <1>10, StartPage
<1>13. \A n : Keeps(e, n) => Keeps(r, n) \/ n \in Mine(Owner[t], world, edits)
  <2>1. a.ok => a.lease.draft["layout"] \subseteq Mine(Owner[t], world, edits)
    BY <1>10 DEF Acquired, LeaseMine, World!Kind
  <2> QED BY <1>11, <2>1
<1>12. Step(t, x, e)
  BY <1>1, <1>3, <1>6, <1>7, <1>8, <1>10, <1>11, <1>13 DEF Step, Acquired
<1> QED BY <1>12, StepSound

-----------------------------------------------------------------------------
\* The session of t is over; what it was told may grow by what is published.
LEMMA EndOfSession ==
  ASSUME WorldInstance, NEW t, NEW r, NEW l, NEW d, NEW w, PageSound(t, r, l, d, w), NEW e, Over(r, e)
  PROVE  PageSound(t, e, l, d, w) /\ Within(e, r)
<1>1. PageSound(t, e, l, d, w)
  BY OverSound DEF PageSound
<1>2. Knows(e, r)
  BY OverUses DEF Knows
<1>3. From(e, r)
  BY FromLike DEF Over
<1> QED BY <1>1, <1>2, <1>3 DEF Within

\* The lease with the graph in it.
LEMMA GraphFields ==
  ASSUME world \in WorldRecord, LeaseSound(lease, world), NEW l, l = World!GraphDraft
  PROVE  /\ LeaseSound(l, world) /\ l.init /\ l.holder = lease.holder /\ l.token = lease.token
         /\ l.draft["layout"] = lease.draft["layout"] /\ world["graph"].content \subseteq l.draft["graph"]
         /\ l.draft["graph"] \in SUBSET Nat /\ l.base["graph"] \in Nat
         /\ lease.init => l = lease
         /\ l.draft["graph"] = lease.draft["graph"] \/ l.draft["graph"] = world["graph"].content
<1>1. /\ world["graph"].rev \in Nat /\ world["graph"].content \in SUBSET Nat
      /\ lease \in LeaseRecord
  BY DEF WorldRecord, World!Kind, LeaseSound
<1>2. CASE lease.init
  <2>1. l = lease
    BY <1>2 DEF World!GraphDraft
  <2> QED BY <1>1, <1>2, <2>1 DEF LeaseSound, LeaseRecord, Contents, Revisions, World!Kind
<1>3. CASE ~ lease.init
  <2>1. PICK b, c : /\ b = [lease.base EXCEPT !["graph"] = world["graph"].rev]
                    /\ c = [lease.draft EXCEPT !["graph"] = world["graph"].content]
    OBVIOUS
  <2>2. b \in Revisions /\ b["layout"] = lease.base["layout"] /\ b["graph"] = world["graph"].rev
    BY <1>1, <2>1 DEF LeaseRecord, Revisions, World!Kind
  <2>3. c \in Contents /\ c["layout"] = lease.draft["layout"] /\ c["graph"] = world["graph"].content
    BY <1>1, <2>1 DEF LeaseRecord, Contents, World!Kind
  <2>4. l = [lease EXCEPT !.init = TRUE, !.base = b, !.draft = c]
    BY <1>3, <2>1 DEF World!GraphDraft
  <2>5. /\ l \in LeaseRecord /\ l.init = TRUE /\ l.base = b /\ l.draft = c
        /\ l.holder = lease.holder /\ l.token = lease.token
    BY <1>1, <2>2, <2>3, <2>4 DEF LeaseRecord
  <2> QED BY <1>1, <1>3, <2>2, <2>3, <2>5 DEF LeaseSound
<1> QED BY <1>2, <1>3

\* The graph arrives.
GraphShown(r, l, e) ==
  e = [r EXCEPT !.state = "editing", !.draft["graph"] = l.draft["graph"], !.base = l.base["graph"]]

LEMMA GraphPage ==
  ASSUME NEW t \in Window, NEW r, NEW l, NEW d, NEW w, PageSound(t, r, l, d, w), r.state = "acquiring",
         World!Owns(l, t, r.token), NEW l2, l2.holder = l.holder, l2.token = l.token, l2.init,
         l2.draft["layout"] = l.draft["layout"], w["graph"].content \subseteq l2.draft["graph"],
         l2.draft["graph"] \in SUBSET Nat, l2.base["graph"] \in Nat,
         NEW e, GraphShown(r, l2, e)
  PROVE  /\ PageSound(t, e, l2, d, w) /\ Knows(e, r) /\ e.told = r.told
         /\ \A n : Keeps(e, n) => Keeps(r, n) \/ n \in l2.draft["graph"]
<1>1. /\ Shape(t, r) /\ Queued(r) /\ Held(t, r, l, w) /\ r \in TabRecord /\ r.pc = "idle"
      /\ t \notin Layouter
  BY DEF PageSound, Shape
<1>2. PICK c, g : c = [r.draft EXCEPT !["graph"] = g] /\ g = l2.draft["graph"]
  OBVIOUS
<1>3. c \in Contents /\ c["layout"] = r.draft["layout"] /\ c["graph"] = g
  BY <1>1, <1>2 DEF TabRecord, Contents, World!Kind
<1>4. PICK b \in Nat : b = l2.base["graph"]
  OBVIOUS
<1>5. e = [r EXCEPT !.state = "editing", !.draft = c, !.base = b]
  BY <1>2, <1>4 DEF GraphShown
<1>6. /\ e \in TabRecord /\ e.state = "editing" /\ e.pc = "idle" /\ e.goal = r.goal /\ e.stored = r.stored
      /\ e.token = r.token /\ e.draft = c /\ e.armed = r.armed /\ e.queue = r.queue /\ e.told = r.told
  BY ONLY <1>1, <1>3, <1>4, <1>5 DEF TabRecord
<1>7. \A s : Pending(e, s) <=> Pending(r, s)
  BY <1>6 DEF Pending
<1>8. Shape(t, e)
  BY <1>1, <1>6, <1>7 DEF Shape
<1>9. \A i \in DOMAIN e.queue : ~ Awaited(e.queue[i])
  BY <1>1, <1>6 DEF Queued
<1>10. Queued(e) /\ Receipt(t, e, d, w)
  BY <1>6, <1>9 DEF Queued, Receipt
<1>11. \A x : World!Owns(l2, t, x) => World!Owns(l, t, x)
  BY DEF World!Owns
<1>12. \A s : Pending(e, s) => SaveCurrent(t, s, l2, w)
  BY <1>1, <1>7, <1>11 DEF Held, SaveCurrent
<1>13. w["layout"].content \subseteq e.draft["layout"] /\ w["graph"].content \subseteq e.draft["graph"]
  BY <1>1, <1>2, <1>3, <1>6 DEF Held
<1>14. Held(t, e, l2, w)
  BY <1>6, <1>9, <1>12, <1>13 DEF Held
<1>15. Knows(e, r)
  BY <1>6, <1>7 DEF Knows, Uses
<1>16. \A n : Keeps(e, n) => Keeps(r, n) \/ n \in l2.draft["graph"]
  BY <1>2, <1>3, <1>6, <1>7 DEF Keeps, World!Kind
<1> QED BY <1>6, <1>8, <1>10, <1>14, <1>15, <1>16 DEF PageSound

LEMMA WorldAcquireGraph ==
  ASSUME WorldInstance, WorldSound, NEW t \in Window, World!AcquireGraph(t)
  PROVE  WorldSound'
<1>1. PICK r : r = tabs[t]
  OBVIOUS
<1>2. /\ PageSound(t, r, lease, copies, world) /\ r.state = "acquiring" /\ r.pc = "idle"
      /\ Uses(r, r.token) /\ Shape(t, r) /\ Queued(r)
  BY <1>1 DEF WorldSound, PageSound, Shape, Uses, World!AcquireGraph
<1>3. /\ world' = world /\ copies' = copies /\ issued' = issued /\ edits' = edits
      /\ world \in WorldRecord /\ LeaseCurrent(lease, world) /\ RowsSound(copies, world)
      /\ \A p : RowStays(copies, copies, p, world)
      /\ LeasePrivate(lease, world, edits) /\ RowsPrivate(copies, world, edits)
      /\ issued \in Nat /\ edits \in Seq({Owner[u] : u \in Window})
  BY DEF WorldSound, World!AcquireGraph, RowStays, Private, OneUser
<1>4. CASE World!Holds(t, r.token) /\ lease' = World!GraphDraft
           /\ World!Tabs(t, [r EXCEPT !.state = "editing",
                               !.draft["graph"] = World!GraphDraft.draft["graph"],
                               !.base = World!GraphDraft.base["graph"]])
  <2>1. PICK l2, e : /\ l2 = World!GraphDraft /\ GraphShown(r, l2, e)
                     /\ tabs' = [tabs EXCEPT ![t] = e]
    BY <1>4 DEF World!Tabs, GraphShown
  <2>2. World!Owns(lease, t, r.token) /\ lease # Nil /\ LeaseSound(lease, world) /\ lease.token = r.token
    BY <1>3, <1>4 DEF World!Holds, World!Owns, LeaseCurrent
  <2>3. /\ LeaseSound(l2, world) /\ l2.init /\ l2.holder = lease.holder /\ l2.token = lease.token
        /\ l2.draft["layout"] = lease.draft["layout"] /\ world["graph"].content \subseteq l2.draft["graph"]
        /\ l2.draft["graph"] \in SUBSET Nat /\ l2.base["graph"] \in Nat
    BY <1>3, <2>1, <2>2, GraphFields
  <2>5. LeaseMine(l2, world, edits)
    <3>1. LeaseMine(lease, world, edits)
      BY <1>3, <2>2 DEF LeasePrivate
    <3>2. l2.draft["graph"] = lease.draft["graph"] \/ l2.draft["graph"] = world["graph"].content
      BY <1>3, <2>1, <2>2, GraphFields
    <3> QED BY <2>3, <3>1, <3>2 DEF LeaseMine, Mine, World!Kind
  <2>4. /\ PageSound(t, e, l2, copies, world) /\ Knows(e, r) /\ e.told = r.told
        /\ \A n : Keeps(e, n) => Keeps(r, n) \/ n \in l2.draft["graph"]
    BY <1>2, <2>1, <2>2, <2>3, GraphPage
  <2>6. \A n : Keeps(e, n) => Keeps(r, n) \/ n \in Mine(Owner[t], world, edits)
    BY <2>2, <2>3, <2>4, <2>5 DEF LeaseMine, World!Kind, World!Owns
  <2>7. Step(t, r.token, e)
    BY <1>1, <1>2, <1>3, <1>4, <2>1, <2>2, <2>3, <2>4, <2>5, <2>6 DEF Step, Knows,
      LeaseCurrent, LeasePrivate
  <2> QED BY <2>7, StepSound
<1>5. CASE lease' = World!Gone(t, r.token) /\ World!Tabs(t, [World!EndSession(r) EXCEPT !.queue = r.queue])
  <2>1. PICK e : e = [World!EndSession(r) EXCEPT !.queue = r.queue]
    OBVIOUS
  <2>2. Over(r, e) /\ e.told = r.told
    BY <1>2, <2>1, EndsOver
  <2>3. PICK l2 : l2 = World!Gone(t, r.token)
    OBVIOUS
  <2>4. /\ PageSound(t, r, l2, copies, world) /\ (l2 = Nil \/ l2 = lease) /\ LeaseCurrent(l2, world)
        /\ LeasePrivate(l2, world, edits)
    BY <1>2, <1>3, <2>3, PageGone, GoneFields
  <2>5. PageSound(t, e, l2, copies, world) /\ Within(e, r)
    BY <2>2, <2>4, EndOfSession
  <2> QED BY <1>1, <1>2, <1>3, <1>5, <2>1, <2>2, <2>3, <2>4, <2>5, LeaseStep DEF World!Tabs
<1> QED BY <1>1, <1>4, <1>5 DEF World!AcquireGraph

EditShown(r, k, n, e) ==
  LET with == [r EXCEPT !.draft[k] = @ \cup {n}, !.dirty = TRUE,
                        !.queue = World!Untold(@, {"auto"}, {k})]
  IN e = [with EXCEPT !.armed[k] = World!Save(with, k, "auto")]

\* The page is edited, and the timer of the kind is set again.
LEMMA EditPage ==
  ASSUME NEW t \in Window, NEW r, NEW l, NEW d, NEW w, PageSound(t, r, l, d, w), r.state = "editing",
         NEW k \in World!Kinds(t), NEW n \in Nat, NEW e, EditShown(r, k, n, e)
  PROVE  /\ PageSound(t, e, l, d, w) /\ Knows(e, r) /\ e.told = r.told
         /\ \A x : Keeps(e, x) => Keeps(r, x) \/ x = n
<1>1. /\ Shape(t, r) /\ Queued(r) /\ Held(t, r, l, w) /\ r \in TabRecord
      /\ r.goal = "publish" => r.pc = "idle"
  BY DEF PageSound, Shape
<1>2. /\ r.token \in Nat /\ r.stored = r.token /\ r.pc # "publish" /\ k \in World!Kind
      /\ k = "graph" => t \notin Layouter
  BY <1>1 DEF Shape, World!Kinds, World!Kind
<1>3. PICK c, q : c = [r.draft EXCEPT ![k] = @ \cup {n}] /\ q = World!Untold(r.queue, {"auto"}, {k})
  OBVIOUS
<1>4. /\ c \in Contents /\ c[k] = r.draft[k] \cup {n} /\ \A j \in World!Kind : r.draft[j] \subseteq c[j]
      /\ \A j \in World!Kind : j # k => c[j] = r.draft[j]
  BY <1>1, <1>2, <1>3 DEF TabRecord, Contents
<1>5. /\ q \in Seq(SaveRecord) /\ DOMAIN q = DOMAIN r.queue
      /\ \A i \in DOMAIN q : Like(q[i], r.queue[i])
  BY <1>1, <1>3, UntoldOf DEF TabRecord
<1>6. PICK with : /\ with = [r EXCEPT !.draft = c, !.dirty = TRUE, !.queue = q]
                  /\ e = [with EXCEPT !.armed[k] = World!Save(with, k, "auto")]
  BY <1>3 DEF EditShown
<1>7. /\ with \in TabRecord /\ with.state = "editing" /\ with.pc = r.pc /\ with.goal = r.goal
      /\ with.stored = r.stored /\ with.token = r.token /\ with.draft = c /\ with.armed = r.armed
      /\ with.queue = q /\ with.told = r.told
  BY ONLY <1>1, <1>4, <1>5, <1>6, r.state = "editing" DEF TabRecord
<1>8. PICK s : s = World!Save(with, k, "auto")
  OBVIOUS
<1>9. s \in SaveRecord /\ s.kind = k /\ s.token = r.token /\ s.content = c[k] /\ s.why = "auto" /\ s.then = {}
  <2>1. with.token \in Nat /\ k \in World!Kind /\ with \in TabRecord /\ "auto" \in {"auto", "safety", "final"}
    BY <1>2, <1>7
  <2>2. /\ s \in SaveRecord /\ s.kind = k /\ s.token = with.token /\ s.content = with.draft[k] /\ s.why = "auto"
        /\ s.then = {}
    BY ONLY <1>8, <2>1, SaveFields
  <2> QED BY <1>7, <2>2
<1>10. PICK a : a = [r.armed EXCEPT ![k] = s]
  OBVIOUS
<1>11. /\ a \in [World!Kind -> SaveRecord \cup {Nil}] /\ a[k] = s
       /\ \A j \in World!Kind : j # k => a[j] = r.armed[j]
  BY <1>1, <1>2, <1>9, <1>10 DEF TabRecord
<1>12. e = [with EXCEPT !.armed = a]
  BY <1>6, <1>7, <1>8, <1>10
<1>13. /\ e \in TabRecord /\ e.state = "editing" /\ e.pc = r.pc /\ e.goal = r.goal
       /\ e.stored = r.stored /\ e.token = r.token /\ e.draft = c /\ e.armed = a
       /\ e.queue = q /\ e.told = r.told
  BY ONLY <1>7, <1>11, <1>12 DEF TabRecord
<1>14. \A x : Pending(e, x) => x = s \/ \E o : Pending(r, o) /\ Like(x, o)
  <2>1. ASSUME NEW i \in DOMAIN q PROVE \E o : Pending(r, o) /\ Like(q[i], o)
    BY <1>5 DEF Pending
  <2>2. ASSUME NEW j \in World!Kind, a[j] # Nil PROVE a[j] = s \/ \E o : Pending(r, o) /\ Like(a[j], o)
    BY <1>11, <2>2 DEF Pending, Like
  <2> QED BY <1>13, <2>1, <2>2 DEF Pending
<1>15. \A i \in DOMAIN q : Awaited(q[i]) => Awaited(r.queue[i]) /\ q[i].token = r.queue[i].token
                                            /\ q[i].why = r.queue[i].why /\ q[i].kind = r.queue[i].kind
  BY <1>5 DEF Awaited, Like
<1>16. Shape(t, e)
  <2>1. t \in Layouter => e.draft["graph"] = {} /\ \A x : Pending(e, x) => x.kind # "graph"
    BY <1>1, <1>2, <1>4, <1>9, <1>13, <1>14 DEF Shape, Like, World!Kind
  <2>2. \A j \in World!Kind : a[j] # Nil => a[j].why = "auto"
    BY <1>1, <1>9, <1>11 DEF Shape
  <2> QED BY <1>1, <1>2, <1>13, <2>1, <2>2 DEF Shape
<1>17. Queued(e)
  <2>1. r.pc = "final" => r.goal # "publish"
    BY <1>1
  <2>2. SUFFICES ASSUME NEW i \in DOMAIN q, Awaited(q[i])
                 PROVE  /\ r.pc = "final" /\ q[i].token = r.token
                        /\ \A j \in DOMAIN q : Awaited(q[j]) => j = i
                        /\ q[i].why = "final" => q[i].kind \in World!Kind
    BY <1>13, <2>1 DEF Queued
  <2> QED BY <1>1, <1>5, <1>15, <2>2 DEF Queued
<1>18. Held(t, e, l, w)
  <2>1. SaveCurrent(t, s, l, w)
    BY <1>1, <1>2, <1>4, <1>9 DEF Held, SaveCurrent, World!Kind
  <2>2. \A x : Pending(e, x) => SaveCurrent(t, x, l, w)
    BY <1>1, <1>14, <2>1, LikeCurrent DEF Held
  <2>3. \A i \in DOMAIN q : Awaited(q[i]) => r.goal # "publish"
    BY <1>1, <1>5, <1>15 DEF Queued
  <2>4. World!Owns(l, t, r.token) =>
          /\ w["layout"].content \subseteq c["layout"]
          /\ t \notin Layouter => l.init /\ w["graph"].content \subseteq c["graph"]
    BY <1>1, <1>4 DEF Held, World!Kind
  <2> QED BY <1>2, <1>13, <2>2, <2>3, <2>4 DEF Held
<1>19. Receipt(t, e, d, w)
  BY <1>2, <1>13 DEF Receipt
<1>20. Knows(e, r)
  BY <1>2, <1>9, <1>13, <1>14 DEF Knows, Uses, Like
<1>21. \A x : Keeps(e, x) => Keeps(r, x) \/ x = n
  <2>1. \A j \in World!Kind : \A x \in c[j] : Keeps(r, x) \/ x = n
    BY <1>2, <1>4 DEF Keeps
  <2>2. \A x \in s.content \cup s.then : Keeps(r, x) \/ x = n
    BY <1>2, <1>9, <2>1
  <2>3. ASSUME NEW x, NEW o, Pending(e, o), x \in o.content \cup o.then PROVE Keeps(r, x) \/ x = n
    BY <1>14, <2>2, <2>3 DEF Keeps, Like
  <2> QED BY <1>13, <2>1, <2>3 DEF Keeps
<1> QED BY <1>13, <1>16, <1>17, <1>18, <1>19, <1>20, <1>21 DEF PageSound

LEMMA WorldEdit ==
  ASSUME WorldInstance, WorldSound, NEW t \in Window, NEW k \in World!Kind, World!Edit(t, k)
  PROVE  WorldSound'
<1>1. PICK r : r = tabs[t]
  OBVIOUS
<1>2. PICK n : n = Len(edits) + 1
  OBVIOUS
<1>3. n \in Nat /\ edits' \in Seq({Owner[u] : u \in Window})
  BY <1>2 DEF WorldSound, World!Edit
<1>8. /\ n \in Mine(Owner[t], world, edits')
      /\ \A o : Mine(o, world, edits) \subseteq Mine(o, world, edits')
  <2>1. /\ edits' = Append(edits, Owner[t]) /\ edits \in Seq({Owner[u] : u \in Window})
    BY DEF WorldSound, World!Edit
  <2>2. /\ n \in DOMAIN edits' /\ edits'[n] = Owner[t]
        /\ \A i \in DOMAIN edits : i \in DOMAIN edits' /\ edits'[i] = edits[i]
    BY <1>2, <2>1
  <2> QED BY <2>2 DEF Mine
<1>4. PICK e : tabs' = [tabs EXCEPT ![t] = e] /\ EditShown(r, k, n, e)
  BY <1>1, <1>2 DEF World!Edit, World!Tabs, EditShown
<1>5. /\ r.state = "editing" /\ k \in World!Kinds(t)
      /\ world' = world /\ lease' = lease /\ copies' = copies /\ issued' = issued
  BY <1>1 DEF World!Edit
<1>6. PageSound(t, r, lease, copies, world)
  BY <1>1 DEF WorldSound
<1>7. /\ PageSound(t, e, lease, copies, world) /\ Knows(e, r) /\ e.told = r.told
      /\ \A x : Keeps(e, x) => Keeps(r, x) \/ x = n
  BY ONLY <1>3, <1>4, <1>5, <1>6, t \in Window, EditPage
<1>9. \A p : RowStays(copies, copies, p, world)
  BY DEF RowStays
<1>10. /\ issued \in Nat /\ world \in WorldRecord /\ LeaseCurrent(lease, world) /\ RowsSound(copies, world)
       /\ LeasePrivate(lease, world, edits) /\ RowsPrivate(copies, world, edits)
  BY DEF WorldSound, OneUser, Private
<1>11. LeasePrivate(lease, world, edits') /\ RowsPrivate(copies, world, edits')
  BY <1>8, <1>10 DEF LeasePrivate, LeaseMine, RowsPrivate
<1>12. Step(t, Nil, e)
  BY <1>1, <1>3, <1>4, <1>5, <1>7, <1>8, <1>9, <1>10, <1>11 DEF Step, Knows, WorldInstance
<1> QED BY <1>12, StepSound

\* The timer of one kind is off.
LEMMA DisarmSound ==
  ASSUME NEW t, NEW r, NEW l, NEW d, NEW w, PageSound(t, r, l, d, w), NEW k \in World!Kind,
         NEW e, e = [r EXCEPT !.armed[k] = Nil]
  PROVE  PageSound(t, e, l, d, w) /\ Within(e, r) /\ e.told = r.told
<1>1. r \in TabRecord
  BY DEF PageSound, Shape
<1>2. PICK a : a = [r.armed EXCEPT ![k] = Nil]
  OBVIOUS
<1>3. a \in [World!Kind -> SaveRecord \cup {Nil}] /\ \A j \in World!Kind : a[j] # Nil => a[j] = r.armed[j]
  BY <1>1, <1>2 DEF TabRecord
<1>4. e = [r EXCEPT !.armed = a]
  BY <1>2
<1>5. /\ e \in TabRecord /\ e.state = r.state /\ e.pc = r.pc /\ e.goal = r.goal /\ e.stored = r.stored
      /\ e.token = r.token /\ e.draft = r.draft /\ e.armed = a /\ e.queue = r.queue /\ e.told = r.told
  BY ONLY <1>1, <1>3, <1>4 DEF TabRecord
<1>6. \A s : Pending(e, s) => Pending(r, s)
  BY <1>3, <1>5 DEF Pending
<1>7. Shape(t, e)
  BY <1>3, <1>5, <1>6 DEF PageSound, Shape
<1>8. Queued(e) /\ Receipt(t, e, d, w)
  BY <1>5 DEF PageSound, Queued, Receipt
<1>9. Held(t, e, l, w)
  BY <1>5, <1>6 DEF PageSound, Held
<1>10. Within(e, r)
  BY <1>5, <1>6, FromSame DEF Within, Knows, Uses
<1> QED BY <1>5, <1>7, <1>8, <1>9, <1>10 DEF PageSound

LEMMA WorldDebounceEnds ==
  ASSUME WorldInstance, WorldSound, NEW t \in Window, NEW k \in World!Kind, World!DebounceEnds(t, k)
  PROVE  WorldSound'
<1>1. PICK r, s : r = tabs[t] /\ s = tabs[t].armed[k]
  OBVIOUS
<1>2. /\ s # Nil /\ tabs' = [tabs EXCEPT ![t] = [r EXCEPT !.armed[k] = Nil, !.queue = Append(@, s)]]
      /\ world' = world /\ lease' = lease /\ copies' = copies /\ issued' = issued /\ edits' = edits
  BY <1>1 DEF World!DebounceEnds, World!Tabs
<1>3. /\ PageSound(t, r, lease, copies, world) /\ Shape(t, r) /\ Queued(r) /\ Held(t, r, lease, world)
      /\ r \in TabRecord /\ edits \in Seq({Owner[u] : u \in Window})
  BY <1>1 DEF WorldSound, PageSound, Shape
<1>4. Pending(r, s) /\ s \in SaveRecord /\ s.why = "auto" /\ s.token \in Nat
  <2>1. Pending(r, s) /\ s.why = "auto"
    BY <1>1, <1>2, <1>3 DEF Pending, Shape
  <2> QED BY <1>3, <2>1, PendingTyped DEF SaveRecord, SaveFieldsOf
<1>5. PICK m : m = WithQueue(r, Append(r.queue, s))
  OBVIOUS
<1>6. r.state # "publishing" /\ r.pc # "publish"
  BY <1>1, <1>2, <1>3 DEF Shape
<1>7. r.goal = "publish" => \A i \in DOMAIN r.queue : ~ Awaited(r.queue[i])
  BY <1>3, <1>6 DEF Queued, Shape
<1>8. PageSound(t, m, lease, copies, world) /\ SameBut(m, r) /\ Adds(m, r, s)
  <2>1. ~ Awaited(s) /\ SaveCurrent(t, s, lease, world) /\ (r.state = "view" => s.token # r.stored)
        /\ (t \in Layouter => s.kind # "graph")
    BY <1>3, <1>4 DEF Awaited, Held, Shape
  <2> QED BY <1>3, <1>4, <1>5, <1>6, <1>7, <2>1, AppendSound
<1>9. PICK e : e = [m EXCEPT !.armed[k] = Nil]
  OBVIOUS
<1>10. PageSound(t, e, lease, copies, world) /\ Within(e, m) /\ e.told = m.told
  BY <1>8, <1>9, DisarmSound
<1>11. e = [r EXCEPT !.armed[k] = Nil, !.queue = Append(@, s)]
  BY <1>3, <1>5, <1>9 DEF WithQueue, TabRecord
<1>12. Within(e, r) /\ e.told = r.told
  <2>1. Uses(r, s.token) /\ \A n \in s.content \cup s.then : Keeps(r, n)
    BY <1>4 DEF Uses, Keeps
  <2>2. Within(m, r)
    BY <1>8, <2>1, AddsWithin DEF Within, Knows, From
  <2> QED BY <1>8, <1>10, <2>2, WithinThrough DEF SameBut
<1> QED BY <1>1, <1>2, <1>3, <1>10, <1>11, <1>12, WorldPageStep

LEMMA WorldSafetyFlush ==
  ASSUME WorldInstance, WorldSound, NEW t \in Window, World!SafetyFlush(t)
  PROVE  WorldSound'
<1>1. PICK r : r = tabs[t]
  OBVIOUS
<1>2. PICK s : s = World!Save(r, "layout", "safety")
  OBVIOUS
<1>3. PICK e : e = WithQueue(r, Append(r.queue, s))
  OBVIOUS
<1>4. /\ r.state = "editing" /\ tabs' = [tabs EXCEPT ![t] = e]
      /\ world' = world /\ lease' = lease /\ copies' = copies /\ issued' = issued /\ edits' = edits
  BY <1>1, <1>2, <1>3 DEF World!SafetyFlush, World!Tabs, WithQueue
<1>5. /\ PageSound(t, r, lease, copies, world) /\ Shape(t, r) /\ Queued(r) /\ Held(t, r, lease, world)
      /\ r \in TabRecord /\ edits \in Seq({Owner[u] : u \in Window})
  BY <1>1 DEF WorldSound, PageSound, Shape
<1>6. /\ r.token \in Nat /\ r.stored = r.token /\ r.pc # "publish"
      /\ r.goal = "publish" => r.pc = "idle"
  BY <1>4, <1>5 DEF Shape
<1>7. /\ s \in SaveRecord /\ s.kind = "layout" /\ s.token = r.token /\ s.content = r.draft["layout"]
      /\ s.why = "safety" /\ s.then = r.draft["graph"]
      /\ \A n \in s.content \cup s.then : Keeps(r, n)
  <2>1. "layout" \in World!Kind /\ "safety" \in {"auto", "safety", "final"} /\ r.token \in Nat
    BY <1>6 DEF World!Kind
  <2> QED BY ONLY <1>2, <1>5, <2>1, SaveFields
<1>8. SaveCurrent(t, s, lease, world)
  BY <1>4, <1>5, <1>7, SaveOfPage
<1>9. r.goal = "publish" => \A i \in DOMAIN r.queue : ~ Awaited(r.queue[i])
  BY <1>5, <1>6 DEF Queued
<1>10. PageSound(t, e, lease, copies, world) /\ SameBut(e, r) /\ Adds(e, r, s)
  BY <1>3, <1>4, <1>5, <1>6, <1>7, <1>8, <1>9, AppendSound DEF Awaited
<1>11. Within(e, r) /\ e.told = r.told
  <2>1. Within(r, r) /\ Uses(r, s.token)
    BY <1>6, <1>7 DEF Within, Knows, From, Uses
  <2>2. Within(e, r)
    BY <1>7, <1>10, <2>1, AddsWithin
  <2> QED BY <1>10, <2>2 DEF SameBut
<1> QED BY <1>1, <1>4, <1>5, <1>10, <1>11, WorldPageStep

Disarmed(r) == \A k \in World!Kind : r.armed[k] = Nil
Unawaited(r) == \A i \in DOMAIN r.queue : ~ Awaited(r.queue[i])

\* The timers are off, and nobody waits for the saves of the timers.
LEMMA CancelSound ==
  ASSUME NEW t, NEW r, NEW l, NEW d, NEW w, PageSound(t, r, l, d, w), r.state = "editing", r.pc = "idle",
         NEW e, e = World!cancelPendingDraftSaves(r)
  PROVE  /\ PageSound(t, e, l, d, w) /\ Within(e, r) /\ e.told = r.told /\ e.state = "editing" /\ e.pc = "idle"
         /\ Disarmed(e)
<1>1. Shape(t, r) /\ Queued(r) /\ Held(t, r, l, w) /\ r \in TabRecord
  BY DEF PageSound, Shape
<1>2. PICK a, q : a = World!Closed.armed /\ q = World!Untold(r.queue, {"auto"}, World!Kind)
  OBVIOUS
<1>3. a \in [World!Kind -> SaveRecord \cup {Nil}] /\ \A k \in World!Kind : a[k] = Nil
  BY <1>2, ClosedPage DEF ClosedFields
<1>4. q \in Seq(SaveRecord) /\ DOMAIN q = DOMAIN r.queue /\ \A i \in DOMAIN q : Like(q[i], r.queue[i])
  BY <1>1, <1>2, UntoldOf DEF TabRecord
<1>5. e = [r EXCEPT !.armed = a, !.queue = q]
  BY <1>2 DEF World!cancelPendingDraftSaves
<1>6. /\ e \in TabRecord /\ e.state = r.state /\ e.pc = r.pc /\ e.goal = r.goal /\ e.stored = r.stored
      /\ e.token = r.token /\ e.draft = r.draft /\ e.armed = a /\ e.queue = q /\ e.told = r.told
  BY ONLY <1>1, <1>3, <1>4, <1>5 DEF TabRecord
<1>7. \A x : Pending(e, x) => \E o : Pending(r, o) /\ Like(x, o)
  BY <1>3, <1>4, <1>6 DEF Pending
<1>8. \A i \in DOMAIN q : ~ Awaited(q[i])
  BY <1>1, <1>4 DEF Queued, Awaited, Like
<1>9. Shape(t, e)
  BY <1>1, <1>3, <1>6, <1>7 DEF Shape, Like
<1>10. Queued(e) /\ Receipt(t, e, d, w)
  BY <1>6, <1>8 DEF Queued, Receipt
<1>11. Held(t, e, l, w)
  <2>1. \A x : Pending(e, x) => SaveCurrent(t, x, l, w)
    BY <1>1, <1>7, LikeCurrent DEF Held
  <2> QED BY <1>1, <1>6, <1>8, <2>1 DEF Held
<1>12. Within(e, r)
  <2>1. \A x : Uses(e, x) => Uses(r, x)
    BY <1>6, <1>7 DEF Uses, Like
  <2> QED BY <1>6, <1>7, <2>1, FromLike DEF Within, Knows
<1> QED BY <1>3, <1>6, <1>9, <1>10, <1>11, <1>12 DEF PageSound, Disarmed

AsksFor(r, goal, e) ==
  e = [r EXCEPT !.goal = goal, !.pc = "final",
                !.state = IF goal = "publish" THEN "publishing" ELSE "editing"]

\* The page waits for its last save.
LEMMA WaitSound ==
  ASSUME NEW t, NEW r, NEW l, NEW d, NEW w, PageSound(t, r, l, d, w), r.state = "editing", r.pc = "idle",
         Disarmed(r), NEW goal \in {"publish", "release", "discard"},
         NEW e, AsksFor(r, goal, e)
  PROVE  /\ PageSound(t, e, l, d, w) /\ Within(e, r) /\ e \in TabRecord /\ e.goal = goal /\ e.pc = "final"
         /\ e.state \in {"editing", "publishing"} /\ e.token = r.token /\ e.draft = r.draft /\ e.base = r.base /\ e.queue = r.queue
         /\ e.told = r.told /\ Unawaited(e)
<1>1. Shape(t, r) /\ Queued(r) /\ Held(t, r, l, w) /\ r \in TabRecord
  BY DEF PageSound, Shape
<1>2. PICK state \in {"publishing", "editing"} : /\ state = IF goal = "publish" THEN "publishing" ELSE "editing"
                                               /\ e = [r EXCEPT !.goal = goal, !.pc = "final", !.state = state]
  BY DEF AsksFor
<1>3. /\ e \in TabRecord /\ e.state = state /\ e.pc = "final" /\ e.goal = goal /\ e.stored = r.stored
      /\ e.token = r.token /\ e.draft = r.draft /\ e.base = r.base /\ e.armed = r.armed /\ e.queue = r.queue
      /\ e.told = r.told
  BY ONLY <1>1, <1>2, goal \in {"publish", "release", "discard"} DEF TabRecord
<1>4. \A x : Pending(e, x) <=> Pending(r, x)
  BY <1>3 DEF Pending
<1>5. \A i \in DOMAIN e.queue : ~ Awaited(e.queue[i])
  BY <1>1, <1>3 DEF Queued
<1>6. Shape(t, e)
  BY <1>1, <1>2, <1>3, <1>4 DEF Shape, Disarmed
<1>7. Queued(e) /\ Receipt(t, e, d, w)
  BY <1>3, <1>5 DEF Queued, Receipt
<1>8. Held(t, e, l, w)
  BY <1>1, <1>3, <1>4, <1>5 DEF Held
<1>9. Within(e, r)
  BY <1>3, <1>4, FromSame DEF Within, Knows, Uses
<1> QED BY <1>3, <1>5, <1>6, <1>7, <1>8, <1>9 DEF PageSound, Unawaited

LEMMA WorldAsk ==
  ASSUME WorldInstance, WorldSound, NEW t \in Window, NEW goal \in {"publish", "release", "discard"},
         World!Ask(t, goal)
  PROVE  WorldSound'
<1>1. PICK p, r : p = tabs[t] /\ r = World!cancelPendingDraftSaves(p)
  OBVIOUS
<1>2. PICK last : last = (goal = "publish" \/ goal = "discard" \/ r.dirty)
  OBVIOUS
<1>3. PICK s : s = IF last THEN World!Save(r, "layout", "final") ELSE World!Marker(r, goal)
  OBVIOUS
<1>4. PICK state : state = IF goal = "publish" THEN "publishing" ELSE "editing"
  OBVIOUS
<1>5. /\ PageSound(t, p, lease, copies, world) /\ edits \in Seq({Owner[u] : u \in Window})
      /\ p \in TabRecord /\ Shape(t, p)
  BY <1>1 DEF WorldSound, PageSound, Shape
<1>6. p.state = "editing" /\ p.pc = "idle"
  <2>1. r.state = p.state /\ r.pc = p.pc
    BY <1>1, <1>5 DEF World!cancelPendingDraftSaves, TabRecord
  <2> QED BY <1>1, <2>1 DEF World!Ask
<1>7. /\ PageSound(t, r, lease, copies, world) /\ Within(r, p) /\ r.told = p.told /\ r.state = "editing"
      /\ r.pc = "idle" /\ Disarmed(r)
  <2>1. r = World!cancelPendingDraftSaves(p)
    BY <1>1
  <2> QED BY ONLY <1>5, <1>6, <2>1, CancelSound
<1>8. PICK m : AsksFor(r, goal, m)
  BY DEF AsksFor
<1>9. /\ PageSound(t, m, lease, copies, world) /\ Within(m, r) /\ m \in TabRecord /\ m.goal = goal
      /\ m.pc = "final" /\ m.state \in {"editing", "publishing"} /\ m.token = r.token /\ m.draft = r.draft /\ m.base = r.base
      /\ m.queue = r.queue /\ m.told = r.told /\ Unawaited(m)
  BY <1>7, <1>8, WaitSound
<1>10. PICK e : e = WithQueue(m, Append(m.queue, s))
  OBVIOUS
<1>11. /\ tabs' = [tabs EXCEPT ![t] = e]
       /\ world' = world /\ lease' = lease /\ copies' = copies /\ issued' = issued /\ edits' = edits
  <2>1. r \in TabRecord
    BY <1>7 DEF PageSound, Shape
  <2>2. tabs' = [tabs EXCEPT ![t] = [r EXCEPT !.goal = goal, !.pc = "final",
                                       !.state = IF goal = "publish" THEN "publishing" ELSE @,
                                       !.queue = Append(@, s)]]
    BY <1>1, <1>2, <1>3 DEF World!Ask, World!Tabs
  <2>3. e = [r EXCEPT !.goal = goal, !.pc = "final", !.state = state, !.queue = Append(r.queue, s)]
    <3>1. m = [r EXCEPT !.goal = goal, !.pc = "final", !.state = state]
      BY <1>4, <1>8 DEF AsksFor
    <3> QED BY <1>9, <1>10, <2>1, <3>1 DEF WithQueue, TabRecord
  <2>4. [r EXCEPT !.goal = goal, !.pc = "final", !.state = state, !.queue = Append(r.queue, s)]
        = [r EXCEPT !.goal = goal, !.pc = "final", !.state = IF goal = "publish" THEN "publishing" ELSE @,
                    !.queue = Append(@, s)]
    BY <1>4, <1>7
  <2>5. /\ world' = world /\ lease' = lease /\ copies' = copies /\ issued' = issued /\ edits' = edits
    BY DEF World!Ask
  <2> QED BY <2>2, <2>3, <2>4, <2>5
<1>12. /\ s \in SaveRecord /\ s.token = m.token
       /\ \A n \in s.content \cup s.then : Keeps(m, n)
       /\ last => s.kind = "layout" /\ s.content = m.draft["layout"] /\ s.why = "final"
       /\ ~ last => s.kind \notin World!Kind /\ s.why = "drain"
  <2>1. r.token \in Nat /\ r \in TabRecord
    BY <1>7 DEF PageSound, Shape
  <2>2. CASE last
    <3>1. s = World!Save(r, "layout", "final") /\ "layout" \in World!Kind /\ "final" \in {"auto", "safety", "final"}
      BY <1>3, <2>2 DEF World!Kind
    <3>2. /\ s \in SaveRecord /\ s.kind = "layout" /\ s.token = r.token /\ s.content = r.draft["layout"]
          /\ s.why = "final" /\ s.then = {}
      BY ONLY <2>1, <3>1, SaveFields
    <3>3. \A n \in s.content \cup s.then : Keeps(m, n)
      BY <1>9, <3>1, <3>2 DEF Keeps
    <3> QED BY <1>9, <2>2, <3>2, <3>3
  <2>3. CASE ~ last
    <3>1. s = World!Marker(r, goal) /\ goal \in {"release", "discard"}
      BY <1>2, <1>3, <2>3
    <3>2. /\ s \in SaveRecord /\ s.kind = goal /\ s.token = r.token /\ s.why = "drain"
          /\ s.content = {} /\ s.then = {}
      BY <2>1, <3>1, MarkerFields
    <3> QED BY <1>9, <2>3, <3>1, <3>2 DEF World!Kind
  <2> QED BY <2>2, <2>3
<1>13. SaveCurrent(t, s, lease, world)
  <2>1. Held(t, m, lease, world) /\ m.state \in {"editing", "publishing"}
    BY <1>4, <1>9 DEF PageSound
  <2>2. /\ s.kind \in World!Kind => s.content = m.draft[s.kind]
        /\ s.kind # "graph" /\ s.why # "safety"
    BY <1>12 DEF World!Kind
  <2> QED BY <1>12, <2>1, <2>2, SaveOfPage
<1>14. PageSound(t, e, lease, copies, world) /\ Within(e, m) /\ SameBut(e, m)
  <2>1. /\ s.why = "final" => s.kind \in World!Kind
        /\ s.kind # "graph"
        /\ m.goal = "publish" => s.why = "final" /\ s.content = m.draft[s.kind]
    BY <1>2, <1>9, <1>12 DEF World!Kind
  <2> QED BY <1>9, <1>10, <1>12, <1>13, <2>1, AwaitSound DEF Unawaited
<1>15. Within(e, p) /\ e.told = p.told
  BY <1>7, <1>9, <1>14, WithinThrough DEF SameBut
<1> QED BY <1>1, <1>5, <1>11, <1>14, <1>15, WorldPageStep

LEMMA WorldHeartbeat ==
  ASSUME WorldInstance, WorldSound, NEW t \in Window, World!Heartbeat(t)
  PROVE  WorldSound'
<1>1. PICK r, e : r = tabs[t] /\ e = World!markLeaseLost(r)
  OBVIOUS
<1>2. /\ tabs' = [tabs EXCEPT ![t] = e]
      /\ world' = world /\ lease' = lease /\ copies' = copies /\ issued' = issued /\ edits' = edits
  BY <1>1 DEF World!Heartbeat, World!Tabs
<1>3. PageSound(t, r, lease, copies, world) /\ edits \in Seq({Owner[u] : u \in Window})
  BY <1>1 DEF WorldSound
<1>4. Over(r, e) /\ e.told = r.told
  BY <1>1, <1>3, EndsOver DEF PageSound
<1>5. PageSound(t, e, lease, copies, world) /\ Within(e, r)
  BY <1>3, <1>4, EndOfSession
<1> QED BY <1>1, <1>2, <1>3, <1>4, <1>5, WorldPageStep

LEMMA WorldReload ==
  ASSUME WorldInstance, WorldSound, NEW t \in Window, World!Reload(t)
  PROVE  WorldSound'
<1>1. PICK r, e : r = tabs[t] /\ e = [World!Closed EXCEPT !.stored = r.stored, !.told = r.told]
  OBVIOUS
<1>2. /\ tabs' = [tabs EXCEPT ![t] = e]
      /\ world' = world /\ lease' = lease /\ copies' = copies /\ issued' = issued /\ edits' = edits
  BY <1>1 DEF World!Reload, World!Tabs
<1>3. /\ PageSound(t, r, lease, copies, world) /\ edits \in Seq({Owner[u] : u \in Window})
      /\ r.stored \in Nat \cup {Nil} /\ r.told \in SUBSET Nat
  BY <1>1 DEF WorldSound, PageSound, Shape, TabRecord
<1>4. PICK c : c = World!Closed
  OBVIOUS
<1>5. /\ c.state = "view" /\ c.pc = "idle" /\ c.token = Nil /\ c.draft = World!Blank /\ c.queue = <<>>
      /\ c.armed = [k \in World!Kind |-> Nil] /\ c \in TabRecord
  BY <1>4, ClosedPage DEF ClosedFields
<1>6. /\ e \in TabRecord /\ e.state = "view" /\ e.pc = "idle" /\ e.token = Nil /\ e.draft = World!Blank
      /\ e.queue = <<>> /\ e.armed = [k \in World!Kind |-> Nil] /\ e.stored = r.stored /\ e.told = r.told
  <2>1. e = [c EXCEPT !.stored = r.stored, !.told = r.told]
    BY <1>1, <1>4
  <2> QED BY ONLY <1>3, <1>5, <2>1 DEF TabRecord
<1>7. DOMAIN e.queue = {} /\ \A k \in World!Kind : e.armed[k] = Nil
  BY <1>6
<1>8. \A s : ~ Pending(e, s)
  BY <1>7 DEF Pending
<1>9. Over(r, e)
  BY <1>6, <1>7, <1>8 DEF Over
<1>10. PageSound(t, e, lease, copies, world) /\ Within(e, r)
  BY <1>3, <1>9, EndOfSession
<1> QED BY <1>1, <1>2, <1>3, <1>6, <1>10, WorldPageStep

LEMMA WorldExpire ==
  ASSUME WorldInstance, WorldSound, World!Expire
  PROVE  WorldSound'
<1>1. PICK l : l = [lease EXCEPT !.live = FALSE]
  OBVIOUS
<1>2. /\ lease # Nil /\ lease' = l /\ world' = world /\ copies' = copies /\ tabs' = tabs /\ edits' = edits
      /\ issued' = issued
  BY <1>1 DEF World!Expire
<1>3. LeaseSound(lease, world) /\ lease \in LeaseRecord
  BY <1>2 DEF WorldSound, LeaseCurrent, LeaseSound
<1>4. /\ l \in LeaseRecord /\ l.holder = lease.holder /\ l.token = lease.token /\ l.base = lease.base
      /\ l.draft = lease.draft /\ l.init = lease.init
  BY <1>1, <1>3 DEF LeaseRecord
<1>5. LeaseSound(l, world)
  BY <1>3, <1>4 DEF LeaseSound
<1>6. ASSUME NEW t \in Window PROVE PageSound(t, tabs[t], l, copies, world)
  <2>1. PageSound(t, tabs[t], lease, copies, world)
    BY DEF WorldSound
  <2>2. \A x \in Nat : World!Owns(l, t, x) => World!Owns(lease, t, x)
    BY <1>2, <1>4 DEF World!Owns
  <2>3. Held(t, tabs[t], l, world)
    BY <1>4, <2>1, <2>2, LeaseMoves DEF PageSound
  <2> QED BY <2>1, <2>3 DEF PageSound
<1>7. OneUser'
  BY <1>2 DEF WorldSound, OneUser, Uses, Pending
<1>8. World!ToldIsPublished'
  BY <1>2 DEF WorldSound, World!ToldIsPublished
<1>9. \A t \in Window : PageSound(t, tabs'[t], lease', copies', world')
  BY <1>2, <1>6
<1>10. LeaseCurrent(lease', world') /\ RowsSound(copies', world')
  BY <1>2, <1>5 DEF WorldSound, LeaseCurrent
<1>11. Private'
  <2>1. Private /\ LeasePrivate(l, world, edits)
    BY <1>2, <1>4 DEF WorldSound, Private, LeasePrivate, LeaseMine
  <2>2. \A t \in Window : \A n \in Nat : Keeps(tabs'[t], n) => n \in Mine(Owner[t], world', edits')
    BY <1>2, <2>1 DEF Private
  <2> QED BY <1>2, <2>1, <2>2 DEF Private, Keeps, Pending, Mine, LeasePrivate, LeaseMine,
    RowsPrivate
<1> QED BY <1>2, <1>7, <1>8, <1>9, <1>10, <1>11 DEF WorldSound, LeaseCurrent, RowsSound,
  PageSound,
       LeaseSound, RowCurrent, Shape, Queued, Held, Receipt, SaveCurrent

-----------------------------------------------------------------------------
\* The save s is in the lease, and in the checkpoint of its token.
Landed(t, s, l, l2, d2) ==
  /\ World!Owns(l, t, s.token) /\ l2 = Kept(l, s)
  /\ s.kind = "graph" => l.init
  /\ l2.init = l.init /\ l2.token = s.token
  /\ \A k \in World!Kind : l2.draft[k] = IF k = s.kind THEN s.content ELSE l.draft[k]
  /\ <<Owner[t], s.token>> \in DOMAIN d2
  /\ d2[<<Owner[t], s.token>>].draft = l2.draft /\ d2[<<Owner[t], s.token>>].init = l2.init
  /\ d2[<<Owner[t], s.token>>].status = "active"

\* The first save of a page, and what comes after it.
LEMMA HeadOf ==
  ASSUME NEW t, NEW p, NEW l, NEW d, NEW w, PageSound(t, p, l, d, w), p.queue # <<>>, NEW s, s = Head(p.queue),
         NEW r, r = WithQueue(p, Tail(p.queue))
  PROVE  /\ Pending(p, s) /\ s \in SaveRecord /\ 1 \in DOMAIN p.queue /\ p.queue[1] = s /\ Uses(p, s.token)
         /\ r \in TabRecord /\ Within(r, p) /\ SameBut(r, p) /\ r.queue = Tail(p.queue)
         /\ \A i \in DOMAIN r.queue : i \in Nat /\ i + 1 \in DOMAIN p.queue /\ i + 1 # 1 /\ r.queue[i] = p.queue[i + 1]
<1>1. p.queue \in Seq(SaveRecord)
  BY DEF PageSound, Shape, TabRecord
<1>2. /\ s \in SaveRecord /\ s = p.queue[1] /\ 1 \in DOMAIN p.queue
      /\ \A i \in DOMAIN Tail(p.queue) : i \in Nat /\ i + 1 \in DOMAIN p.queue /\ i + 1 # 1
                                         /\ Tail(p.queue)[i] = p.queue[i + 1]
  BY <1>1, TailOf
<1>3. PageSound(t, r, l, d, w) /\ Within(r, p) /\ SameBut(r, p) /\ r.queue = Tail(p.queue)
  BY TailSound
<1>4. Pending(p, s) /\ s.token \in Nat
  BY <1>2 DEF Pending, SaveRecord, SaveFieldsOf
<1> QED BY <1>2, <1>3, <1>4 DEF Uses, PageSound, Shape

LEMMA SaveLands ==
  ASSUME world \in WorldRecord, LeaseCurrent(lease, world), RowsSound(copies, world),
         LeasePrivate(lease, world, edits), RowsPrivate(copies, world, edits),
         NEW t \in Window, NEW p, \A n \in Nat : Keeps(p, n) => n \in Mine(Owner[t], world, edits), PageSound(t, p, lease, copies, world), p.queue # <<>>, NEW s, s = Head(p.queue),
         NEW r, r = WithQueue(p, Tail(p.queue)),
         s.why # "drain", World!Owns(lease, t, s.token), s.kind = "graph" => lease.init,
         NEW l2, l2 = Kept(lease, s), NEW d2, d2 = World!checkpoint_world_edit_draft_from_lease(l2)
  PROVE  /\ LeaseSound(l2, world) /\ RowsSound(d2, world) /\ Landed(t, s, lease, l2, d2)
         /\ LeaseMine(l2, world, edits) /\ RowsPrivate(d2, world, edits)
         /\ \A q : q[2] # s.token => RowStays(copies, d2, q, world)
         /\ PageSound(t, r, l2, d2, world)
<1>1. /\ Pending(p, s) /\ s \in SaveRecord /\ 1 \in DOMAIN p.queue /\ p.queue[1] = s /\ Uses(p, s.token)
      /\ r \in TabRecord /\ Within(r, p) /\ SameBut(r, p) /\ r.queue = Tail(p.queue)
      /\ \A i \in DOMAIN r.queue : i \in Nat /\ i + 1 \in DOMAIN p.queue /\ i + 1 # 1 /\ r.queue[i] = p.queue[i + 1]
  BY HeadOf
<1>2. PageSound(t, r, lease, copies, world)
  BY TailSound
<1>3. s.kind \in World!Kind
  BY <1>1 DEF SaveRecord
<1>4. /\ LeaseSound(lease, world) /\ lease \in LeaseRecord /\ lease.holder = Owner[t] /\ lease.token = s.token
  BY DEF World!Owns, LeaseCurrent, LeaseSound
<1>5. /\ l2 \in LeaseRecord /\ l2.holder = lease.holder /\ l2.token = lease.token /\ l2.base = lease.base
      /\ l2.init = lease.init
      /\ \A k \in World!Kind : l2.draft[k] = IF k = s.kind THEN s.content ELSE lease.draft[k]
  BY <1>1, <1>3, <1>4, KeptFields
<1>6. LeaseSound(l2, world)
  <2>1. SaveCurrent(t, s, lease, world)
    BY <1>1 DEF PageSound, Held
  <2>2. /\ s.kind = "layout" => world["layout"].content \subseteq s.content
        /\ s.kind = "graph" => world["graph"].content \subseteq s.content
    BY <2>1 DEF SaveCurrent
  <2> QED BY <1>4, <1>5, <2>2 DEF LeaseSound, World!Kind
<1>7. /\ RowsSound(d2, world) /\ <<Owner[t], s.token>> \in DOMAIN d2
      /\ d2[<<Owner[t], s.token>>].draft = l2.draft /\ d2[<<Owner[t], s.token>>].init = l2.init
      /\ d2[<<Owner[t], s.token>>].status = "active"
      /\ \A q : q # <<Owner[t], s.token>> => RowStays(copies, d2, q, world)
  BY <1>4, <1>5, <1>6, CheckpointFields
<1>8. Landed(t, s, lease, l2, d2)
  BY <1>4, <1>5, <1>7 DEF Landed
<1>9. \A q : q[2] # s.token => RowStays(copies, d2, q, world)
  <2>1. \A q : q[2] # s.token => q # <<Owner[t], s.token>>
    OBVIOUS
  <2> QED BY <1>7, <2>1
<1>10. Held(t, r, l2, world)
  <2>1. \A x : World!Owns(l2, t, x) => World!Owns(lease, t, x) /\ x = s.token
    BY <1>4, <1>5 DEF World!Owns
  <2>2. \A x : Pending(r, x) => SaveCurrent(t, x, l2, world)
    BY <1>2, <1>5, <2>1 DEF PageSound, Held, SaveCurrent
  <2>3. ASSUME r.state # "view", World!Owns(l2, t, r.token)
        PROVE  /\ world["layout"].content \subseteq r.draft["layout"]
               /\ t \notin Layouter /\ r.state # "acquiring" => l2.init /\ world["graph"].content \subseteq r.draft["graph"]
               /\ r.goal = "publish" /\ (\E i \in DOMAIN r.queue : Awaited(r.queue[i]) /\ r.queue[i].kind = "graph")
                    => r.draft["layout"] \subseteq l2.draft["layout"]
               /\ r.pc = "publish" => \A k \in World!Kinds(t) : r.draft[k] \subseteq l2.draft[k]
    <3>1. r.token = s.token /\ World!Owns(lease, t, r.token)
      BY <2>1, <2>3
    <3>2. /\ world["layout"].content \subseteq r.draft["layout"]
          /\ t \notin Layouter /\ r.state # "acquiring" => lease.init /\ world["graph"].content \subseteq r.draft["graph"]
          /\ r.goal = "publish" /\ (\E i \in DOMAIN r.queue : Awaited(r.queue[i]) /\ r.queue[i].kind = "graph")
               => r.draft["layout"] \subseteq lease.draft["layout"]
      BY <1>2, <2>3, <3>1 DEF PageSound, Held
    <3>3. r.pc # "publish"
      BY <1>1, <3>1 DEF PageSound, Shape, SameBut
    <3>4. ASSUME r.goal = "publish", NEW i \in DOMAIN r.queue, Awaited(r.queue[i]), r.queue[i].kind = "graph"
          PROVE  r.draft["layout"] \subseteq l2.draft["layout"]
      <4>1. /\ i + 1 \in DOMAIN p.queue /\ i + 1 # 1 /\ r.queue[i] = p.queue[i + 1] /\ p.goal = "publish"
            /\ p.token = r.token
        BY <1>1, <3>4 DEF SameBut
      <4>2. Queued(p) /\ 1 \in DOMAIN p.queue /\ Awaited(p.queue[i + 1]) /\ p.queue[i + 1].kind = "graph"
        BY <1>1, <3>4, <4>1 DEF PageSound
      <4>3. p.queue[i + 1].token = p.token
        BY <4>1, <4>2 DEF Queued
      <4>4. s.kind = "graph"
        BY <1>1, <3>1, <4>1, <4>2, <4>3 DEF Queued
      <4> QED BY <1>5, <3>2, <3>4, <4>4 DEF World!Kind
    <3> QED BY <1>5, <3>2, <3>3, <3>4
  <2> QED BY <2>2, <2>3 DEF Held
<1>11. Receipt(t, r, d2, world)
  <2>1. ASSUME r.pc = "publish" PROVE RowStays(copies, d2, <<Owner[t], r.token>>, world)
    <3>1. r.token # s.token
      BY <1>1, <2>1 DEF PageSound, Shape, SameBut
    <3> QED BY <1>7, <3>1
  <2>2. Receipt(t, r, copies, world) /\ \A k \in World!Kind : world[k].content \subseteq world[k].content
    BY <1>2 DEF PageSound
  <2> QED BY <2>1, <2>2, ReceiptMoves
<1>12. LeaseMine(l2, world, edits)
  <2>1. \A n \in s.content : n \in Nat /\ Keeps(p, n)
    BY <1>1 DEF Keeps, SaveRecord, SaveFieldsOf
  <2>2. LeaseMine(lease, world, edits)
    BY DEF LeasePrivate, World!Owns
  <2>3. \A k \in World!Kind : l2.draft[k] \subseteq Mine(Owner[t], world, edits)
    BY <1>4, <1>5, <2>1, <2>2 DEF LeaseMine
  <2> QED BY <1>4, <1>5, <2>3 DEF LeaseMine
<1>13. RowsPrivate(d2, world, edits)
  BY <1>12, CheckpointPrivate
<1> QED BY <1>2, <1>6, <1>7, <1>8, <1>9, <1>10, <1>11, <1>12, <1>13 DEF PageSound

\* How the page takes the answer.
ThenGraph(s) == [s EXCEPT !.kind = "graph", !.content = s.then]

TookCases(t, r, s, answer, e) ==
  LET graphToo == s.kind = "layout" /\ t \notin Layouter /\ r.token # Nil
  IN \/ e = r
     \/ e = World!markLeaseLost(r)
     \/ /\ s.told /\ s.why = "safety" /\ answer = "ok" /\ graphToo
        /\ e = WithQueue(r, Append(r.queue, ThenGraph(s)))
     \/ /\ s.told /\ s.why = "final" /\ answer = "ok" /\ graphToo
        /\ e = WithQueue(r, Append(r.queue, World!Save(r, "graph", "final")))
     \/ s.told /\ s.why = "final" /\ answer = "ok" /\ ~ graphToo /\ e = World!Saved(r)
     \/ s.told /\ s.why = "final" /\ e = Back(r)

LEMMA TookAnswer ==
  ASSUME NEW t, NEW r, NEW s, NEW answer, NEW e, e = World!Took(t, r, s, answer)
  PROVE  TookCases(t, r, s, answer, e)
<1>1. CASE ~ s.told
  BY <1>1 DEF World!Took, TookCases
<1>2. CASE s.told /\ answer = "lease_lost"
  BY <1>2 DEF World!Took, TookCases
<1>3. CASE s.told /\ answer = "ok" /\ s.why = "safety"
  BY <1>3 DEF World!Took, TookCases, WithQueue, ThenGraph
<1>4. CASE s.told /\ answer = "ok" /\ s.why = "final"
  BY <1>4 DEF World!Took, TookCases, WithQueue, ThenGraph
<1>5. CASE s.told /\ answer \notin {"ok", "lease_lost"} /\ s.why = "final"
  BY <1>5 DEF World!Took, TookCases, Back
<1>6. CASE s.told /\ answer # "lease_lost" /\ s.why # "final" /\ ~ (s.why = "safety" /\ answer = "ok")
  BY <1>6 DEF World!Took, TookCases
<1> QED BY <1>1, <1>2, <1>3, <1>4, <1>5, <1>6

(* The page took a first save s out of its queue and is left with r. *)
Taking(t, p, s, r, l, d, w, l2, d2) ==
  /\ PageSound(t, p, l, d, w) /\ p.queue # <<>> /\ s = Head(p.queue)
  /\ r = WithQueue(p, Tail(p.queue)) /\ PageSound(t, r, l2, d2, w) /\ s.why # "drain"

\* The save of the graph that follows a safety save of the layout.
LEMMA SafetyGraph ==
  ASSUME NEW t, NEW p, NEW s, NEW r, NEW l, NEW d, NEW w, NEW l2, NEW d2, Taking(t, p, s, r, l, d, w, l2, d2),
         Landed(t, s, l, l2, d2), s.why = "safety", s.kind = "layout", t \notin Layouter,
         NEW n, n = ThenGraph(s),
         NEW e, e = WithQueue(r, Append(r.queue, n))
  PROVE  PageSound(t, e, l2, d2, w) /\ Within(e, p) /\ e.told = p.told
<1>1. /\ PageSound(t, p, l, d, w) /\ PageSound(t, r, l2, d2, w) /\ s.why # "drain"
      /\ Pending(p, s) /\ s \in SaveRecord /\ 1 \in DOMAIN p.queue /\ p.queue[1] = s /\ Uses(p, s.token)
      /\ r \in TabRecord /\ Within(r, p) /\ SameBut(r, p)
      /\ \A i \in DOMAIN r.queue : i \in Nat /\ i + 1 \in DOMAIN p.queue /\ i + 1 # 1 /\ r.queue[i] = p.queue[i + 1]
  BY HeadOf DEF Taking
<1>2. /\ n \in SaveRecord /\ n.kind = "graph" /\ n.content = s.then /\ n.token = s.token /\ n.why = "safety"
      /\ n.then = s.then
  BY <1>1 DEF SaveRecord, SaveFieldsOf, World!Marks, World!Kind, ThenGraph
<1>3. SaveCurrent(t, n, l2, w)
  <2>1. SaveCurrent(t, s, l, w) /\ World!Owns(l, t, s.token)
    BY <1>1 DEF PageSound, Held, Landed
  <2>2. l2.init /\ w["graph"].content \subseteq s.then
    BY <2>1 DEF SaveCurrent, Landed
  <2> QED BY <1>2, <2>2 DEF SaveCurrent
<1>4. /\ r.state = "view" => n.token # r.stored
      /\ r.pc = "publish" => n.token # r.token
  BY <1>1, <1>2 DEF PageSound, Shape, SameBut
<1>5. ASSUME NEW i \in DOMAIN r.queue, Awaited(r.queue[i]), r.goal = "publish", n.token = r.token
      PROVE  r.queue[i].kind # "graph"
  <2>1. /\ i + 1 \in DOMAIN p.queue /\ i + 1 # 1 /\ r.queue[i] = p.queue[i + 1] /\ p.goal = "publish"
        /\ s.token = p.token
    BY <1>1, <1>2, <1>5 DEF SameBut
  <2>2. Queued(p) /\ 1 \in DOMAIN p.queue /\ Awaited(p.queue[i + 1])
    BY <1>1, <1>5, <2>1 DEF PageSound
  <2>3. p.queue[i + 1].token = p.token
    BY <2>1, <2>2 DEF Queued
  <2> QED BY <1>1, <2>1, <2>2, <2>3 DEF Queued
<1>6. ~ Awaited(n)
  BY <1>2 DEF Awaited
<1>7. PageSound(t, e, l2, d2, w) /\ SameBut(e, r) /\ Adds(e, r, n)
  <2>1. r.goal = "publish" /\ n.token = r.token =>
          \A i \in DOMAIN r.queue : Awaited(r.queue[i]) => n.kind = "graph" /\ r.queue[i].kind # "graph"
    BY <1>2, <1>5
  <2>2. PageSound(t, r, l2, d2, w) /\ n \in SaveRecord /\ (t \in Layouter => n.kind # "graph")
        /\ e = WithQueue(r, Append(r.queue, n))
    BY <1>1, <1>2
  <2> QED BY ONLY <1>3, <1>4, <1>6, <2>1, <2>2, AppendSound
<1>8. Within(e, p)
  <2>1. \A x \in n.content \cup n.then : Keeps(p, x)
    BY <1>1, <1>2 DEF Keeps
  <2> QED BY <1>1, <1>2, <1>7, <2>1, AddsWithin
<1> QED BY <1>1, <1>7, <1>8 DEF SameBut

\* The save for which publish, finish or discard waits.
FinalFields(t, p, s, r) ==
  /\ r.pc = "final" /\ s.token = r.token /\ r.token \in Nat /\ r.goal \in {"publish", "release", "discard"}
  /\ r.state \in {"editing", "publishing"} /\ s.kind \in World!Kind
  /\ \A i \in DOMAIN r.queue : ~ Awaited(r.queue[i])
  /\ r.goal = "publish" =>
       /\ s.content = r.draft[s.kind]
       /\ s.kind = "layout" => \A i \in DOMAIN r.queue : r.queue[i].token = r.token => r.queue[i].kind = "graph"
       /\ s.kind = "graph" => \A i \in DOMAIN r.queue : r.queue[i].token # r.token

LEMMA FinalHead ==
  ASSUME NEW t, NEW p, NEW s, NEW r, NEW l, NEW d, NEW w, NEW l2, NEW d2, Taking(t, p, s, r, l, d, w, l2, d2),
         s.told, s.why = "final"
  PROVE  FinalFields(t, p, s, r)
<1>1. /\ PageSound(t, p, l, d, w)
      /\ s \in SaveRecord /\ 1 \in DOMAIN p.queue /\ p.queue[1] = s
      /\ SameBut(r, p)
      /\ \A i \in DOMAIN r.queue : i \in Nat /\ i + 1 \in DOMAIN p.queue /\ i + 1 # 1 /\ r.queue[i] = p.queue[i + 1]
  BY HeadOf DEF Taking
<1>2. Queued(p) /\ Shape(t, p) /\ Awaited(p.queue[1])
  BY <1>1 DEF PageSound, Awaited
<1>3. /\ p.pc = "final" /\ s.token = p.token /\ s.kind \in World!Kind
      /\ \A j \in DOMAIN p.queue : Awaited(p.queue[j]) => j = 1
  BY <1>1, <1>2 DEF Queued
<1>4. p.goal = "publish" =>
        /\ s.content = p.draft[s.kind]
        /\ s.kind = "layout" => \A j \in DOMAIN p.queue : j > 1 /\ p.queue[j].token = s.token => p.queue[j].kind = "graph"
        /\ s.kind = "graph" => \A j \in DOMAIN p.queue : j # 1 /\ p.queue[j].token = s.token => j < 1
  BY <1>1, <1>2 DEF Queued
<1>5. p.token \in Nat /\ p.goal \in {"publish", "release", "discard"} /\ p.state \in {"editing", "publishing"}
  BY <1>2, <1>3 DEF Shape
<1>6. \A i \in DOMAIN r.queue : i + 1 > 1 /\ ~ (i + 1 < 1)
  BY <1>1
<1> QED BY <1>1, <1>3, <1>4, <1>5, <1>6 DEF FinalFields, SameBut

\* The graph follows the layout.
LEMMA FinalGraph ==
  ASSUME NEW t, NEW p, NEW s, NEW r, NEW l, NEW d, NEW w, NEW l2, NEW d2, Taking(t, p, s, r, l, d, w, l2, d2),
         Landed(t, s, l, l2, d2), s.told, s.why = "final", s.kind = "layout", t \notin Layouter,
         NEW e, e = WithQueue(r, Append(r.queue, World!Save(r, "graph", "final")))
  PROVE  PageSound(t, e, l2, d2, w) /\ Within(e, p) /\ e.told = p.told
<1>1. FinalFields(t, p, s, r) /\ PageSound(t, r, l2, d2, w) /\ Within(r, p) /\ SameBut(r, p) /\ r \in TabRecord
  BY FinalHead, HeadOf DEF Taking
<1>2. PICK n : n = World!Save(r, "graph", "final")
  OBVIOUS
<1>3. /\ n \in SaveRecord /\ n.kind = "graph" /\ n.token = r.token /\ n.content = r.draft["graph"] /\ n.why = "final"
      /\ \A x \in n.content \cup n.then : Keeps(r, x)
  <2>1. r.token \in Nat /\ "graph" \in World!Kind /\ "final" \in {"auto", "safety", "final"} /\ r \in TabRecord
    BY <1>1 DEF FinalFields, World!Kind
  <2> QED BY ONLY <1>2, <2>1, SaveFields
<1>4. SaveCurrent(t, n, l2, w)
  <2>1. Held(t, r, l2, w) /\ r.state \in {"editing", "publishing"}
    BY <1>1 DEF PageSound, FinalFields
  <2>2. /\ n.kind \in World!Kind => n.content = r.draft[n.kind]
        /\ n.why # "safety"
    BY <1>3
  <2> QED BY <1>3, <2>1, <2>2, SaveOfPage
<1>5. r.goal = "publish" =>
        /\ \A i \in DOMAIN r.queue : r.queue[i].token = r.token => r.queue[i].kind = "graph"
        /\ r.draft["layout"] \subseteq l2.draft["layout"]
  <2>1. l2.draft["layout"] = s.content
    BY DEF Landed, World!Kind
  <2> QED BY <1>1, <2>1 DEF FinalFields
<1>6. e = WithQueue(r, Append(r.queue, n))
  BY <1>2
<1>7. PageSound(t, e, l2, d2, w) /\ Within(e, r) /\ SameBut(e, r)
  <2>1. /\ r.pc = "final" /\ \A i \in DOMAIN r.queue : ~ Awaited(r.queue[i])
        /\ n.kind \in World!Kind
    BY <1>1, <1>3 DEF FinalFields, World!Kind
  <2>2. /\ r.goal = "publish" => n.content = r.draft[n.kind]
        /\ n.why = "final" => n.kind \in World!Kind
        /\ t \in Layouter => n.kind # "graph"
    BY <1>3, <2>1
  <2> QED BY <1>1, <1>3, <1>4, <1>5, <1>6, <2>1, <2>2, AwaitSound
<1> QED BY <1>1, <1>7, WithinThrough DEF SameBut

\* The page publishes, or waits for the end of the queue.
LEMMA FinalDone ==
  ASSUME NEW t, NEW p, NEW s, NEW r, NEW l, NEW d, NEW w, NEW l2, NEW d2, Taking(t, p, s, r, l, d, w, l2, d2),
         Landed(t, s, l, l2, d2), s.told, s.why = "final", s.kind = "layout" => t \in Layouter,
         NEW e, e = World!Saved(r)
  PROVE  PageSound(t, e, l2, d2, w) /\ Within(e, p) /\ e.told = p.told
<1>1. /\ FinalFields(t, p, s, r) /\ PageSound(t, r, l2, d2, w) /\ Within(r, p) /\ SameBut(r, p) /\ r \in TabRecord
      /\ PageSound(t, p, l, d, w) /\ p.queue[1] = s /\ 1 \in DOMAIN p.queue
  BY FinalHead, HeadOf DEF Taking
<1>2. CASE r.goal = "publish"
  <2>1. e = [r EXCEPT !.pc = "publish"]
    BY <1>2 DEF World!Saved
  <2>2. /\ e.pc = "publish" /\ e.token = r.token /\ e.draft = r.draft
    BY <1>1, <2>1 DEF TabRecord
  <2>3. \A i \in DOMAIN r.queue : ~ Awaited(r.queue[i]) /\ r.queue[i].token # r.token
    <3>1. CASE s.kind = "graph"
      BY <1>1, <1>2, <3>1 DEF FinalFields
    <3>2. CASE s.kind = "layout"
      <4>1. \A i \in DOMAIN r.queue : r.queue[i].kind # "graph"
        BY <1>1, <3>2 DEF PageSound, Shape, Pending
      <4> QED BY <1>1, <1>2, <3>2, <4>1 DEF FinalFields
    <3> QED BY <1>1, <3>1, <3>2 DEF FinalFields, World!Kind
  <2>4. \A k \in World!Kinds(t) : r.draft[k] \subseteq l2.draft[k]
    <3>1. CASE s.kind = "layout"
      <4>1. World!Kinds(t) = {"layout"} /\ l2.draft["layout"] = s.content
        BY <3>1 DEF World!Kinds, Landed, World!Kind
      <4> QED BY <1>1, <1>2, <3>1, <4>1 DEF FinalFields
    <3>2. CASE s.kind = "graph"
      <4>1. l2.draft["graph"] = s.content /\ l2.draft["layout"] = l.draft["layout"] /\ World!Owns(l, t, s.token)
        BY <3>2 DEF Landed, World!Kind
      <4>2. Awaited(p.queue[1]) /\ p.queue[1].kind = "graph" /\ 1 \in DOMAIN p.queue /\ p.goal = "publish"
            /\ p.state # "view" /\ p.token = s.token /\ p.draft = r.draft
        BY <1>1, <1>2, <3>2 DEF Awaited, FinalFields, SameBut
      <4>3. p.draft["layout"] \subseteq l.draft["layout"]
        BY <1>1, <4>1, <4>2 DEF PageSound, Held
      <4>4. World!Kinds(t) \subseteq {"layout", "graph"} /\ s.content = r.draft["graph"]
        BY <1>1, <1>2, <3>2 DEF World!Kinds, World!Kind, FinalFields
      <4> QED BY <4>1, <4>2, <4>3, <4>4
    <3> QED BY <1>1, <3>1, <3>2 DEF FinalFields, World!Kind
  <2>5. Receipt(t, e, d2, w)
    <3>1. s.token = r.token /\ (t \notin Layouter => s.kind = "graph")
      BY <1>1 DEF FinalFields, World!Kind
    <3> QED BY <2>2, <2>4, <3>1 DEF Receipt, Landed
  <2>6. PageSound(t, e, l2, d2, w) /\ Within(e, r) /\ e.told = r.told
    <3>1. r.pc = "final"
      BY <1>1 DEF FinalFields
    <3> QED BY <1>1, <1>2, <2>1, <2>3, <2>4, <2>5, <3>1, PublishSound
  <2> QED BY <1>1, <2>6, WithinThrough DEF SameBut
<1>3. CASE r.goal # "publish"
  <2>1. PICK n : n = World!Marker(r, r.goal)
    OBVIOUS
  <2>2. r.goal \in {"release", "discard"} /\ r.token \in Nat
    BY <1>1, <1>3 DEF FinalFields
  <2>3. /\ n \in SaveRecord /\ n.kind = r.goal /\ n.token = r.token /\ n.why = "drain"
        /\ n.content = {} /\ n.then = {}
    BY <1>1, <2>1, <2>2, MarkerFields
  <2>4. e = WithQueue(r, Append(r.queue, n))
    BY <1>3, <2>1 DEF World!Saved, WithQueue
  <2>5. SaveCurrent(t, n, l2, w)
    BY <2>2, <2>3 DEF SaveCurrent
  <2>6. PageSound(t, e, l2, d2, w) /\ Within(e, r) /\ SameBut(e, r)
    <3>1. r.pc = "final" /\ \A i \in DOMAIN r.queue : ~ Awaited(r.queue[i])
      BY <1>1 DEF FinalFields
    <3>2. n.why # "final" /\ n.kind # "graph"
      BY <2>2, <2>3
    <3> QED BY <1>1, <1>3, <2>3, <2>4, <2>5, <3>1, <3>2, AwaitSound
  <2> QED BY <1>1, <2>6, WithinThrough DEF SameBut
<1> QED BY <1>2, <1>3

LEMMA TookSound ==
  ASSUME WorldInstance, NEW t, NEW p, NEW s, NEW r, NEW l, NEW d, NEW w, NEW l2, NEW d2,
         Taking(t, p, s, r, l, d, w, l2, d2), NEW answer, answer = "ok" => Landed(t, s, l, l2, d2),
         NEW e, e = World!Took(t, r, s, answer)
  PROVE  PageSound(t, e, l2, d2, w) /\ Within(e, p) /\ e.told = p.told
<1>1. /\ PageSound(t, r, l2, d2, w) /\ Within(r, p) /\ r.told = p.told /\ r \in TabRecord
  BY HeadOf DEF Taking, SameBut
<1>2. TookCases(t, r, s, answer, e)
  BY TookAnswer
<1>3. CASE e = r
  BY <1>1, <1>3
<1>4. CASE e = World!markLeaseLost(r)
  <2>1. Over(r, e) /\ e.told = r.told
    BY <1>1, <1>4, EndsOver DEF PageSound
  <2> QED BY <1>1, <2>1, EndOfSession, WithinThrough
<1>5. CASE /\ s.why = "safety" /\ answer = "ok" /\ s.kind = "layout" /\ t \notin Layouter
           /\ e = WithQueue(r, Append(r.queue, ThenGraph(s)))
  <2>1. PICK n : n = ThenGraph(s)
    OBVIOUS
  <2>2. e = WithQueue(r, Append(r.queue, n))
    BY <1>5, <2>1
  <2>3. Landed(t, s, l, l2, d2) /\ s.why = "safety" /\ s.kind = "layout" /\ t \notin Layouter
        /\ Taking(t, p, s, r, l, d, w, l2, d2)
    BY <1>5
  <2> QED BY ONLY <2>1, <2>2, <2>3, SafetyGraph
<1>6. CASE /\ s.told /\ s.why = "final" /\ answer = "ok" /\ s.kind = "layout" /\ t \notin Layouter
           /\ e = WithQueue(r, Append(r.queue, World!Save(r, "graph", "final")))
  BY <1>6, FinalGraph
<1>7. CASE /\ s.told /\ s.why = "final" /\ answer = "ok" /\ ~ (s.kind = "layout" /\ t \notin Layouter /\ r.token # Nil)
           /\ e = World!Saved(r)
  <2>1. r.token \in Nat
    BY <1>7, FinalHead DEF FinalFields
  <2>2. s.kind = "layout" => t \in Layouter
    BY <1>7, <2>1 DEF WorldInstance
  <2> QED BY <1>7, <2>2, FinalDone
<1>8. CASE s.told /\ s.why = "final" /\ e = Back(r)
  <2>1. r.state \in {"editing", "publishing"} /\ \A i \in DOMAIN r.queue : ~ Awaited(r.queue[i])
    BY <1>8, FinalHead DEF FinalFields
  <2>2. PageSound(t, e, l2, d2, w) /\ Within(e, r) /\ e.told = r.told
    <3>1. PageSound(t, r, l2, d2, w) /\ e = Back(r)
      BY <1>1, <1>8
    <3> QED BY ONLY <2>1, <3>1, BackSound
  <2> QED BY <1>1, <2>2, WithinThrough
<1> QED BY <1>2, <1>3, <1>4, <1>5, <1>6, <1>7, <1>8 DEF TookCases

LEMMA SaveAnswers ==
  ASSUME NEW t, NEW s, World!SaveAnswer(t, s) \in {"ok", "conflict"}
  PROVE  World!Owns(lease, t, s.token) /\ (s.kind = "graph" => lease.init)
<1>1. ASSUME ~ World!Holds(t, s.token) \/ (s.kind = "graph" /\ ~lease.init) PROVE FALSE
  <2>1. World!SaveAnswer(t, s) = "lease_lost"
    BY <1>1 DEF World!SaveAnswer
  <2> QED BY <2>1
<1> QED BY <1>1 DEF World!Holds

LEMMA WorldSaveDraft ==
  ASSUME WorldInstance, WorldSound, NEW t \in Window, World!SaveDraft(t)
  PROVE  WorldSound'
<1>1. PICK p, s, r : p = tabs[t] /\ s = Head(p.queue) /\ r = WithQueue(p, Tail(p.queue))
  OBVIOUS
<1>2. PICK answer : answer = World!SaveAnswer(t, s)
  OBVIOUS
<1>3. /\ p.queue # <<>> /\ s.why # "drain"
      /\ world' = world /\ issued' = issued /\ edits' = edits
  BY <1>1 DEF World!SaveDraft
<1>4. PICK e, how : /\ tabs' = [tabs EXCEPT ![t] = e] /\ e = World!Took(t, r, s, how)
                    /\ how = answer \/ how = "dependency_unavailable"
  <2>1. r = [tabs[t] EXCEPT !.queue = Tail(@)]
    BY <1>1 DEF WithQueue
  <2> QED BY <1>1, <1>2, <2>1 DEF World!SaveDraft, World!Tabs
<1>5. /\ world \in WorldRecord /\ LeaseCurrent(lease, world) /\ RowsSound(copies, world)
      /\ PageSound(t, p, lease, copies, world)
      /\ LeasePrivate(lease, world, edits) /\ RowsPrivate(copies, world, edits)
      /\ \A n \in Nat : Keeps(p, n) => n \in Mine(Owner[t], world, edits)
  BY <1>1 DEF WorldSound, Private
<1>6. Uses(p, s.token)
  BY <1>1, <1>3, <1>5, HeadOf
<1>7. CASE answer \in {"ok", "conflict"}
  <2>1. World!Owns(lease, t, s.token) /\ (s.kind = "graph" => lease.init)
    BY <1>2, <1>7, SaveAnswers
  <2>2. PICK l2, d2 : l2 = Kept(lease, s) /\ d2 = World!checkpoint_world_edit_draft_from_lease(l2)
    OBVIOUS
  <2>3. lease' = l2 /\ copies' = d2
    BY <1>1, <1>2, <1>7, <2>2 DEF World!SaveDraft, Kept
  <2>4. /\ LeaseSound(l2, world) /\ RowsSound(d2, world) /\ Landed(t, s, lease, l2, d2)
        /\ \A q : q[2] # s.token => RowStays(copies, d2, q, world)
        /\ PageSound(t, r, l2, d2, world)
        /\ LeaseMine(l2, world, edits) /\ RowsPrivate(d2, world, edits)
    BY <1>1, <1>3, <1>5, <2>1, <2>2, SaveLands
  <2>5. Taking(t, p, s, r, lease, copies, world, l2, d2)
    BY <1>1, <1>3, <1>5, <2>4 DEF Taking
  <2>6. PageSound(t, e, l2, d2, world) /\ Within(e, p) /\ e.told = p.told
    BY <1>4, <2>4, <2>5, TookSound
  <2> QED BY <1>1, <1>3, <1>4, <1>6, <2>3, <2>4, <2>6, LeaseStep DEF LeaseCurrent,
    LeasePrivate, Landed
<1>8. CASE answer \notin {"ok", "conflict"}
  <2>1. lease' = lease /\ copies' = copies
    BY <1>1, <1>2, <1>8 DEF World!SaveDraft
  <2>2. PageSound(t, r, lease, copies, world)
    BY <1>1, <1>3, <1>5, TailSound
  <2>3. Taking(t, p, s, r, lease, copies, world, lease, copies)
    BY <1>1, <1>3, <1>5, <2>2 DEF Taking
  <2>4. how # "ok"
    BY <1>4, <1>8
  <2>5. PageSound(t, e, lease, copies, world) /\ Within(e, p) /\ e.told = p.told
    BY <1>4, <2>3, <2>4, TookSound
  <2>6. \A q : RowStays(copies, copies, q, world)
    BY DEF RowStays
  <2> QED BY <1>1, <1>3, <1>4, <1>5, <1>6, <2>1, <2>5, <2>6, LeaseStep
<1> QED BY <1>7, <1>8

LEMMA WorldSaveFails ==
  ASSUME WorldInstance, WorldSound, NEW t \in Window, World!SaveFails(t)
  PROVE  WorldSound'
<1>1. PICK p, s, r : p = tabs[t] /\ s = Head(p.queue) /\ r = WithQueue(p, Tail(p.queue))
  OBVIOUS
<1>2. PICK e : e = World!Took(t, r, s, "dependency_unavailable")
  OBVIOUS
<1>3. /\ p.queue # <<>> /\ s.why # "drain" /\ tabs' = [tabs EXCEPT ![t] = e]
      /\ world' = world /\ lease' = lease /\ copies' = copies /\ issued' = issued /\ edits' = edits
  <2>1. r = [tabs[t] EXCEPT !.queue = Tail(@)]
    BY <1>1 DEF WithQueue
  <2> QED BY <1>1, <1>2, <2>1 DEF World!SaveFails, World!Tabs
<1>4. PageSound(t, p, lease, copies, world) /\ edits \in Seq({Owner[u] : u \in Window})
  BY <1>1 DEF WorldSound
<1>5. PageSound(t, r, lease, copies, world)
  BY <1>1, <1>3, <1>4, TailSound
<1>6. Taking(t, p, s, r, lease, copies, world, lease, copies)
  BY <1>1, <1>3, <1>4, <1>5 DEF Taking
<1>7. PageSound(t, e, lease, copies, world) /\ Within(e, p) /\ e.told = p.told
  BY <1>2, <1>6, TookSound
<1> QED BY <1>1, <1>3, <1>4, <1>7, WorldPageStep

-----------------------------------------------------------------------------
\* What was in line with a revision still is after the next.
LEMMA RowsGrow ==
  ASSUME NEW w \in WorldRecord, NEW w2 \in WorldRecord, NEW d, RowsSound(d, w),
         \A k \in World!Kind : w2[k] = w[k] \/ w2[k].rev = w[k].rev + 1
  PROVE  RowsSound(d, w2)
<1>1. ASSUME NEW rec, RowCurrent(rec, w) PROVE RowCurrent(rec, w2)
  <2>1. rec \in RowRecord /\ rec.base \in [World!Kind -> Nat]
    BY <1>1 DEF RowCurrent, RowRecord, Revisions
  <2>2. ASSUME NEW k \in World!Kind
        PROVE  /\ rec.base[k] <= w2[k].rev
               /\ rec.base[k] = w2[k].rev /\ (k = "graph" => rec.init) => w2[k].content \subseteq rec.draft[k]
    <3>1. /\ rec.base[k] \in Nat /\ w[k].rev \in Nat /\ rec.base[k] <= w[k].rev
          /\ rec.base[k] = w[k].rev /\ (k = "graph" => rec.init) => w[k].content \subseteq rec.draft[k]
      BY <1>1, <2>1 DEF RowCurrent, WorldRecord
    <3> QED BY <3>1
  <2> QED BY <2>1, <2>2 DEF RowCurrent
<1> QED BY <1>1 DEF RowsSound

\* The page that publishes has its work in the lease, and the rest of it.
Publishing(t, r) ==
  /\ PageSound(t, r, lease, copies, world) /\ r.pc = "publish"
  /\ World!PublishAnswer(t, r.token) = "ok" /\ World!Published(t, lease)

LEMMA PublishedFields ==
  ASSUME world \in WorldRecord, LeaseCurrent(lease, world), RowsSound(copies, world),
         LeasePrivate(lease, world, edits), RowsPrivate(copies, world, edits), edits' = edits, NEW t \in Window,
         NEW r, Publishing(t, r)
  PROVE  /\ world' \in WorldRecord /\ \A k \in World!Kind : world[k].content \subseteq world'[k].content
         /\ RowsSound(copies', world') /\ lease' = Nil
         /\ \A q : q[2] # r.token => RowStays(copies, copies', q, world')
         /\ PageSound(t, r, lease', copies', world')
         /\ r.draft["layout"] \cup r.draft["graph"] \subseteq world'["layout"].content \cup world'["graph"].content
         /\ \A o : Mine(o, world, edits) \subseteq Mine(o, world', edits') /\ RowsPrivate(copies', world', edits')
<1>1. /\ Shape(t, r) /\ Queued(r) /\ Held(t, r, lease, world) /\ Receipt(t, r, copies, world) /\ r.pc = "publish"
      /\ r.state = "publishing" /\ r.token \in Nat
  BY DEF Publishing, PageSound, Shape
<1>2. World!Owns(lease, t, r.token)
  BY DEF Publishing, World!PublishAnswer, World!publishWorldEditLayoutAction,
         World!publishWorldEditStateAction, World!Holds
<1>3. LeaseSound(lease, world) /\ lease \in LeaseRecord /\ lease.holder = Owner[t] /\ lease.token = r.token
  BY <1>2 DEF World!Owns, LeaseCurrent, LeaseSound
<1>4. /\ \A k \in World!Kinds(t) : r.draft[k] \subseteq lease.draft[k]
      /\ t \notin Layouter => lease.init
  BY <1>1, <1>2 DEF Held
<1>5. /\ World!Kinds(t) \subseteq World!Kind
      /\ t \in Layouter => World!Kinds(t) = {"layout"}
      /\ t \notin Layouter => World!Kinds(t) = World!Kind
      /\ World!Kind = {"layout", "graph"}
  BY DEF World!Kinds, World!Kind
<1>6. \A k \in World!Kinds(t) : world[k].content \subseteq lease.draft[k]
  BY <1>3, <1>4, <1>5 DEF LeaseSound
<1>7. \A k \in World!Kind : /\ world[k] \in [rev : Nat, content : SUBSET Nat] /\ lease.draft[k] \in SUBSET Nat
  BY <1>3 DEF WorldRecord, LeaseRecord, Contents
<1>8. world' = [k \in World!Kind |->
         IF k \in World!Kinds(t) /\ World!Changes(k, lease.draft[k])
         THEN [rev |-> world[k].rev + 1, content |-> lease.draft[k]] ELSE world[k]]
  BY DEF Publishing, World!Published
<1>9. ASSUME NEW k \in World!Kind
      PROVE  /\ world'[k] \in [rev : Nat, content : SUBSET Nat]
             /\ world'[k] = world[k] \/ world'[k].rev = world[k].rev + 1
             /\ world[k].content \subseteq world'[k].content
             /\ k \in World!Kinds(t) => world'[k].content = lease.draft[k]
  <2>1. CASE k \in World!Kinds(t) /\ World!Changes(k, lease.draft[k])
    <3>1. world'[k] = [rev |-> world[k].rev + 1, content |-> lease.draft[k]]
      BY <1>8, <2>1
    <3> QED BY <1>6, <1>7, <2>1, <3>1
  <2>2. CASE ~ (k \in World!Kinds(t) /\ World!Changes(k, lease.draft[k]))
    <3>1. world'[k] = world[k]
      BY <1>8, <2>2
    <3> QED BY <1>7, <2>2, <3>1 DEF World!Changes
  <2> QED BY <2>1, <2>2
<1>10. world' \in WorldRecord
  BY <1>8, <1>9 DEF WorldRecord
<1>11. PICK rec : rec = World!Row(lease, "published")
  OBVIOUS
<1>12. RowCurrent(rec, world) /\ rec.draft = lease.draft /\ rec.init = lease.init /\ rec.status = "published"
  BY <1>3, <1>11, RowOfLease
<1>13. copies' = World!Put(copies, <<lease.holder, lease.token>>, rec) /\ lease' = Nil
  BY <1>11 DEF Publishing, World!Published
<1>14. /\ RowsSound(copies', world) /\ <<Owner[t], r.token>> \in DOMAIN copies' /\ copies'[<<Owner[t], r.token>>] = rec
       /\ \A q \in DOMAIN copies : q # <<Owner[t], r.token>> => q \in DOMAIN copies' /\ copies'[q] = copies[q]
  <2>1. PICK f : f = World!Put(copies, <<lease.holder, lease.token>>, rec)
    OBVIOUS
  <2>2. /\ RowsSound(f, world) /\ <<lease.holder, lease.token>> \in DOMAIN f /\ f[<<lease.holder, lease.token>>] = rec
        /\ \A q \in DOMAIN copies : q # <<lease.holder, lease.token>> => q \in DOMAIN f /\ f[q] = copies[q]
    BY <1>12, <2>1, PutFields
  <2> QED BY <1>3, <1>13, <2>1, <2>2
<1>15. RowsSound(copies', world')
  <2>1. PICK w2, d2 : w2 = world' /\ d2 = copies'
    OBVIOUS
  <2>2. RowsSound(d2, w2)
    BY <1>9, <1>10, <1>14, <2>1, RowsGrow
  <2> QED BY <2>1, <2>2
<1>16. \A q : q[2] # r.token => RowStays(copies, copies', q, world')
  <2>1. \A q : q[2] # r.token => q # <<Owner[t], r.token>>
    OBVIOUS
  <2> QED BY <1>14, <2>1 DEF RowStays
<1>17. \A k \in World!Kinds(t) : r.draft[k] \subseteq world'[k].content
  BY <1>4, <1>5, <1>9
<1>18. Receipt(t, r, copies', world')
  BY <1>4, <1>12, <1>14, <1>17 DEF Receipt
<1>19. PageSound(t, r, lease', copies', world')
  BY <1>1, <1>13, <1>18, NoLease DEF PageSound
<1>20. r.draft["layout"] \cup r.draft["graph"] \subseteq world'["layout"].content \cup world'["graph"].content
  BY <1>1, <1>5, <1>17 DEF Shape
<1>21. \A o : Mine(o, world, edits) \subseteq Mine(o, world', edits')
  BY <1>5, <1>9 DEF Mine
<1>22. RowsPrivate(copies', world', edits')
  <2>1. LeaseMine(lease, world, edits)
    BY <1>2 DEF LeasePrivate, World!Owns
  <2>2. RowsPrivate(copies', world, edits)
    <3>1. RowsPrivate(World!Put(copies, <<lease.holder, lease.token>>, rec), world, edits)
      BY <1>11, <1>5, <2>1, PutPrivate
    <3> QED BY <1>13, <3>1
  <2> QED BY <1>21, <2>2 DEF RowsPrivate
<1> QED BY <1>9, <1>10, <1>13, <1>15, <1>16, <1>19, <1>20, <1>21, <1>22

\* The page ends, and tells what was published.
LEMMA CompleteOver ==
  ASSUME NEW t, NEW r, Shape(t, r), Queued(r), NEW e, e = World!completePublishedEdit(r)
  PROVE  Over(r, e) /\ e.told = r.told \cup r.draft["layout"] \cup r.draft["graph"]
<1>1. /\ r \in TabRecord /\ r.queue \in Seq(SaveRecord) /\ r.told \in SUBSET Nat
      /\ r.draft["layout"] \in SUBSET Nat /\ r.draft["graph"] \in SUBSET Nat
      /\ \A k \in World!Kind : r.armed[k] # Nil => r.armed[k].why = "auto"
      /\ \A i \in DOMAIN r.queue : r.queue[i] \in SaveRecord
  BY DEF Shape, TabRecord, Contents, World!Kind
<1>2. PICK q : q = World!Untold(r.queue, {"safety", "final", "drain"}, World!Marks)
  OBVIOUS
<1>3. PICK m : m = World!EndSession(r)
  OBVIOUS
<1>4. m = Left(r.armed, q, r.told)
  BY <1>2, <1>3 DEF World!EndSession, Left, World!Closed
<1>5. /\ q \in Seq(SaveRecord) /\ DOMAIN q = DOMAIN r.queue
      /\ \A i \in DOMAIN q : Like(q[i], r.queue[i])
  BY <1>1, <1>2, UntoldOf
<1>6. r.armed \in [World!Kind -> SaveRecord \cup {Nil}]
  BY <1>1 DEF TabRecord
<1>7. m.told = r.told
  BY <1>1, <1>4, <1>5, <1>6, LeftPage
<1>8. PICK news : news = r.told \cup r.draft["layout"] \cup r.draft["graph"]
  OBVIOUS
<1>9. news \in SUBSET Nat
  BY <1>1, <1>8
<1>10. e = Left(r.armed, q, news)
  <2>1. e = [m EXCEPT !.told = news]
    BY <1>3, <1>7, <1>8 DEF World!completePublishedEdit
  <2> QED BY <1>4, <2>1 DEF Left, World!Closed
<1>11. \A i \in DOMAIN q : ~ Awaited(q[i])
  <2>1. \A i \in DOMAIN q : r.queue[i].kind \in World!Marks
    BY <1>1, <1>5 DEF SaveRecord, SaveFieldsOf
  <2>2. \A i \in DOMAIN q : r.queue[i].why \in {"safety", "final", "drain"} => ~ q[i].told
    BY <1>1, <1>2, <1>5, <2>1, UntoldOf
  <2> QED BY <1>5, <2>2 DEF Awaited, Like
<1>12. Over(r, e)
  BY <1>1, <1>5, <1>9, <1>10, <1>11, LeftOver
<1>13. e.told = news
  BY <1>5, <1>6, <1>9, <1>10, LeftPage
<1> QED BY <1>8, <1>12, <1>13

LEMMA WorldPublish ==
  ASSUME WorldInstance, WorldSound, NEW t \in Window, World!Publish(t)
  PROVE  WorldSound'
<1>1. PICK r : r = tabs[t]
  OBVIOUS
<1>2. PICK e : tabs' = [tabs EXCEPT ![t] = e] /\ r.pc = "publish" /\ edits' = edits /\ issued' = issued
               /\ \/ /\ World!PublishAnswer(t, r.token) = "ok" /\ World!Published(t, lease)
                     /\ e = World!completePublishedEdit(r) \/ e = Back(r)
                  \/ /\ UNCHANGED <<world, lease, copies>>
                     /\ \/ World!confirmedGraphPublishReceipt(t, r.token) /\ e = World!completePublishedEdit(r)
                        \/ e = World!markLeaseLost(r) \/ e = Back(r)
  BY <1>1 DEF World!Publish, World!Tabs, Back
<1>3. /\ world \in WorldRecord /\ LeaseCurrent(lease, world) /\ RowsSound(copies, world) /\ issued \in Nat
      /\ PageSound(t, r, lease, copies, world) /\ edits \in Seq({Owner[u] : u \in Window})
      /\ LeasePrivate(lease, world, edits) /\ RowsPrivate(copies, world, edits)
  BY <1>1 DEF WorldSound, OneUser, Private
<1>4. /\ Shape(t, r) /\ Queued(r) /\ Receipt(t, r, copies, world) /\ r.state \in {"editing", "publishing"}
      /\ Uses(r, r.token) /\ \A i \in DOMAIN r.queue : ~ Awaited(r.queue[i])
  BY <1>2, <1>3 DEF PageSound, Shape, Queued, Uses
<1>5. CASE /\ World!PublishAnswer(t, r.token) = "ok" /\ World!Published(t, lease)
           /\ e = World!completePublishedEdit(r) \/ e = Back(r)
  <2>1. Publishing(t, r)
    BY <1>2, <1>3, <1>5 DEF Publishing
  <2>2. /\ world' \in WorldRecord /\ \A k \in World!Kind : world[k].content \subseteq world'[k].content
        /\ RowsSound(copies', world') /\ lease' = Nil
        /\ \A q : q[2] # r.token => RowStays(copies, copies', q, world')
        /\ PageSound(t, r, lease', copies', world')
        /\ r.draft["layout"] \cup r.draft["graph"] \subseteq world'["layout"].content \cup world'["graph"].content
        /\ \A o : Mine(o, world, edits) \subseteq Mine(o, world', edits') /\ RowsPrivate(copies', world', edits')
    BY <1>2, <1>3, <2>1, PublishedFields
  <2>3. PICK l2, d2, w2 : l2 = lease' /\ d2 = copies' /\ w2 = world'
    OBVIOUS
  <2>4. PageSound(t, r, l2, d2, w2)
    BY <2>2, <2>3
  <2>5. PageSound(t, e, l2, d2, w2) /\ Within(e, r) /\ e.told \subseteq r.told \cup r.draft["layout"] \cup r.draft["graph"]
    <3>1. CASE e = World!completePublishedEdit(r)
      BY <1>4, <2>4, <3>1, CompleteOver, EndOfSession
    <3>2. CASE e = Back(r)
      BY <1>4, <2>4, <3>2, BackSound
    <3> QED BY <1>5, <3>1, <3>2
  <2>6. Step(t, r.token, e)
    BY <1>1, <1>2, <1>3, <1>4, <2>2, <2>3, <2>5 DEF Step, Within, Knows, From, LeaseCurrent,
      LeasePrivate
  <2> QED BY <2>6, StepSound
<1>6. CASE /\ UNCHANGED <<world, lease, copies>>
           /\ \/ World!confirmedGraphPublishReceipt(t, r.token) /\ e = World!completePublishedEdit(r)
              \/ e = World!markLeaseLost(r) \/ e = Back(r)
  <2>1. PageSound(t, e, lease, copies, world) /\ Within(e, r)
        /\ e.told \subseteq r.told \cup world["layout"].content \cup world["graph"].content
    <3>1. CASE World!confirmedGraphPublishReceipt(t, r.token) /\ e = World!completePublishedEdit(r)
      <4>1. \A k \in World!Kinds(t) : r.draft[k] \subseteq world[k].content
        BY <1>2, <1>4, <3>1 DEF Receipt, World!confirmedGraphPublishReceipt
      <4>2. r.draft["layout"] \cup r.draft["graph"] \subseteq world["layout"].content \cup world["graph"].content
        BY <1>4, <4>1 DEF Shape, World!Kinds, World!Kind
      <4>3. Over(r, e) /\ e.told = r.told \cup r.draft["layout"] \cup r.draft["graph"]
        BY <1>4, <3>1, CompleteOver
      <4> QED BY <1>3, <4>2, <4>3, EndOfSession
    <3>2. CASE e = World!markLeaseLost(r)
      <4>1. Over(r, e) /\ e.told = r.told
        BY <1>4, <3>2, EndsOver
      <4> QED BY <1>3, <4>1, EndOfSession
    <3>3. CASE e = Back(r)
      BY <1>3, <1>4, <3>3, BackSound
    <3> QED BY <1>6, <3>1, <3>2, <3>3
  <2> QED BY <1>1, <1>2, <1>3, <1>6, <2>1, WorldPageStep
<1> QED BY <1>2, <1>5, <1>6

\* The page that waited for the end of its queue.
Waited(s, r) ==
  s.told => /\ r.state = "editing" /\ r.pc = "final" /\ r \in TabRecord
            /\ \A i \in DOMAIN r.queue : ~ Awaited(r.queue[i])

\* The end of the queue: what is left of the page.
LEMMA EndOfQueue ==
  ASSUME NEW t, NEW p, NEW l, NEW d, NEW w, PageSound(t, p, l, d, w), p.queue # <<>>, NEW s, s = Head(p.queue),
         NEW r, r = WithQueue(p, Tail(p.queue)), s.why = "drain"
  PROVE  /\ PageSound(t, r, l, d, w) /\ Within(r, p) /\ r.told = p.told /\ Uses(p, s.token) /\ s.token \in Nat
         /\ r.pc = "publish" => r.token # s.token
         /\ Waited(s, r)
<1>1. /\ s \in SaveRecord /\ 1 \in DOMAIN p.queue /\ p.queue[1] = s /\ Uses(p, s.token)
      /\ r \in TabRecord /\ Within(r, p) /\ SameBut(r, p)
      /\ \A i \in DOMAIN r.queue : i \in Nat /\ i + 1 \in DOMAIN p.queue /\ i + 1 # 1 /\ r.queue[i] = p.queue[i + 1]
  BY HeadOf
<1>2. PageSound(t, r, l, d, w) /\ s.token \in Nat
  BY <1>1, TailSound DEF SaveRecord, SaveFieldsOf
<1>3. r.pc = "publish" => r.token # s.token
  BY <1>1 DEF PageSound, Shape, SameBut
<1>4. ASSUME s.told PROVE r.state = "editing" /\ r.pc = "final" /\ \A i \in DOMAIN r.queue : ~ Awaited(r.queue[i])
  <2>1. Queued(p) /\ Shape(t, p) /\ Awaited(p.queue[1])
    BY <1>1, <1>4 DEF PageSound, Awaited
  <2>2. p.pc = "final" /\ p.goal # "publish" /\ \A j \in DOMAIN p.queue : Awaited(p.queue[j]) => j = 1
    BY <1>1, <2>1 DEF Queued
  <2>3. p.state = "editing"
    BY <2>1, <2>2 DEF Shape
  <2> QED BY <1>1, <2>2, <2>3 DEF SameBut
<1> QED BY <1>1, <1>2, <1>3, <1>4 DEF SameBut, Waited

\* What finish and discard leave of the page.
Rest(s, r, e) ==
  \/ e = World!EndSession(r)
  \/ e = IF s.told THEN [r EXCEPT !.pc = "idle"] ELSE r

LEMMA RestSound ==
  ASSUME WorldInstance, NEW t, NEW s, NEW r, NEW l, NEW d, NEW w, PageSound(t, r, l, d, w),
         Waited(s, r),
         NEW e, Rest(s, r, e)
  PROVE  PageSound(t, e, l, d, w) /\ Within(e, r) /\ e.told = r.told
<1>1. CASE e = World!EndSession(r)
  <2>1. Over(r, e) /\ e.told = r.told
    BY <1>1, EndsOver DEF PageSound
  <2> QED BY <2>1, EndOfSession
<1>2. CASE s.told /\ e = [r EXCEPT !.pc = "idle"]
  <2>1. e = Back(r)
    BY <1>2 DEF Back, TabRecord, Waited
  <2> QED BY <1>2, <2>1, BackSound DEF Waited
<1>3. CASE e = r
  BY <1>3 DEF Within, Knows, From
<1> QED BY <1>1, <1>2, <1>3 DEF Rest

LEMMA WorldRelease ==
  ASSUME WorldInstance, WorldSound, NEW t \in Window, World!Release(t)
  PROVE  WorldSound'
<1>1. PICK p, s, r : p = tabs[t] /\ s = Head(p.queue) /\ r = WithQueue(p, Tail(p.queue))
  OBVIOUS
<1>2. r = [tabs[t] EXCEPT !.queue = Tail(@)]
  BY <1>1 DEF WithQueue
<1>3. PICK e : tabs' = [tabs EXCEPT ![t] = e] /\ Rest(s, r, e)
  BY <1>1, <1>2 DEF World!Release, World!Tabs, Rest
<1>4. /\ p.queue # <<>> /\ s.why = "drain"
      /\ world' = world /\ issued' = issued /\ edits' = edits /\ copies' = copies
      /\ lease' = World!Gone(t, s.token) \/ lease' = lease
  BY <1>1 DEF World!Release, World!Ends, World!release_world_edit_lease_atomic
<1>5. /\ world \in WorldRecord /\ LeaseCurrent(lease, world) /\ RowsSound(copies, world)
      /\ PageSound(t, p, lease, copies, world)
      /\ LeasePrivate(lease, world, edits) /\ RowsPrivate(copies, world, edits)
  BY <1>1 DEF WorldSound, Private
<1>6. /\ PageSound(t, r, lease, copies, world) /\ Within(r, p) /\ r.told = p.told /\ Uses(p, s.token)
      /\ Waited(s, r)
  BY <1>1, <1>4, <1>5, EndOfQueue
<1>7. PICK l2 : l2 = lease'
  OBVIOUS
<1>8. /\ PageSound(t, r, l2, copies, world) /\ (l2 = Nil \/ l2 = lease) /\ LeaseCurrent(l2, world)
      /\ LeasePrivate(l2, world, edits)
  BY <1>4, <1>5, <1>6, <1>7, PageGone, GoneFields
<1>9. PageSound(t, e, l2, copies, world) /\ Within(e, r) /\ e.told = r.told
  BY <1>3, <1>6, <1>8, RestSound
<1>10. \A q : RowStays(copies, copies, q, world)
  BY DEF RowStays
<1>11. Within(e, p)
  BY <1>6, <1>9, WithinThrough
<1> QED BY <1>1, <1>3, <1>4, <1>5, <1>6, <1>7, <1>8, <1>9, <1>10, <1>11, LeaseStep

\* What the discarding leaves of the checkpoints.
LEMMA DiscardFields ==
  ASSUME world \in WorldRecord, LeaseCurrent(lease, world), RowsSound(copies, world),
         LeasePrivate(lease, world, edits), RowsPrivate(copies, world, edits), NEW t \in Window, NEW x,
         World!discard_world_edit_lease_atomic(t, x)
  PROVE  /\ lease' = World!Gone(t, x) /\ RowsSound(copies', world)
         /\ \A q : q[2] # x => RowStays(copies, copies', q, world)
         /\ RowsPrivate(copies', world, edits)
<1>1. lease' = World!Gone(t, x)
  BY DEF World!discard_world_edit_lease_atomic
<1>2. CASE ~ World!Owns(lease, t, x)
  <2>1. copies' = copies
    BY <1>2 DEF World!discard_world_edit_lease_atomic
  <2> QED BY <1>1, <2>1 DEF RowStays
<1>3. CASE World!Owns(lease, t, x)
  <2>1. LeaseSound(lease, world) /\ lease.holder = Owner[t] /\ lease.token = x
    BY <1>3 DEF World!Owns, LeaseCurrent
  <2>2. PICK f, rec : f = World!Turn(copies, Owner[t], "discarded") /\ rec = World!Row(lease, "discarded")
    OBVIOUS
  <2>3. /\ RowsSound(f, world) /\ DOMAIN f = DOMAIN copies
        /\ \A q \in DOMAIN copies : /\ f[q].draft = copies[q].draft /\ f[q].init = copies[q].init
                                    /\ f[q].status # copies[q].status => f[q].status = "discarded"
    BY <2>2, TurnFields
  <2>4. RowCurrent(rec, world) /\ rec.status = "discarded"
    BY <2>1, <2>2, RowOfLease
  <2>5. PICK d2 : d2 = World!Put(f, <<Owner[t], x>>, rec)
    OBVIOUS
  <2>6. /\ RowsSound(d2, world)
        /\ \A q \in DOMAIN f : q # <<Owner[t], x>> => q \in DOMAIN d2 /\ d2[q] = f[q]
    BY <2>3, <2>4, <2>5, PutFields
  <2>7. copies' = d2
    BY <1>3, <2>2, <2>5 DEF World!discard_world_edit_lease_atomic
  <2>8. \A q : q[2] # x => q # <<Owner[t], x>>
    OBVIOUS
  <2>9. \A q : q[2] # x => RowStays(copies, d2, q, world)
    BY <2>3, <2>6, <2>8 DEF RowStays
  <2>10. RowsPrivate(d2, world, edits)
    <3>1. RowsPrivate(f, world, edits)
      BY <2>2, TurnPrivate
    <3>2. LeaseMine(lease, world, edits)
      BY <1>3 DEF LeasePrivate, World!Owns
    <3> QED BY <2>1, <2>2, <2>5, <3>1, <3>2, PutPrivate
  <2> QED BY <1>1, <2>6, <2>7, <2>9, <2>10
<1> QED BY <1>2, <1>3

LEMMA WorldDiscard ==
  ASSUME WorldInstance, WorldSound, NEW t \in Window, World!Discard(t)
  PROVE  WorldSound'
<1>1. PICK p, s, r : p = tabs[t] /\ s = Head(p.queue) /\ r = WithQueue(p, Tail(p.queue))
  OBVIOUS
<1>2. r = [tabs[t] EXCEPT !.queue = Tail(@)]
  BY <1>1 DEF WithQueue
<1>3. PICK e : tabs' = [tabs EXCEPT ![t] = e] /\ Rest(s, r, e)
  BY <1>1, <1>2 DEF World!Discard, World!Tabs, Rest
<1>4. /\ p.queue # <<>> /\ s.why = "drain"
      /\ world' = world /\ issued' = issued /\ edits' = edits
      /\ World!discard_world_edit_lease_atomic(t, s.token)
  BY <1>1 DEF World!Discard, World!Ends
<1>5. /\ world \in WorldRecord /\ LeaseCurrent(lease, world) /\ RowsSound(copies, world)
      /\ PageSound(t, p, lease, copies, world)
      /\ LeasePrivate(lease, world, edits) /\ RowsPrivate(copies, world, edits)
  BY <1>1 DEF WorldSound, Private
<1>6. /\ PageSound(t, r, lease, copies, world) /\ Within(r, p) /\ r.told = p.told /\ Uses(p, s.token)
      /\ r.pc = "publish" => r.token # s.token
      /\ Waited(s, r)
  BY <1>1, <1>4, <1>5, EndOfQueue
<1>7. /\ lease' = World!Gone(t, s.token) /\ RowsSound(copies', world)
      /\ \A q : q[2] # s.token => RowStays(copies, copies', q, world)
      /\ RowsPrivate(copies', world, edits)
  BY <1>4, <1>5, DiscardFields
<1>8. PICK l2, d2 : l2 = lease' /\ d2 = copies'
  OBVIOUS
<1>9. /\ PageSound(t, r, l2, copies, world) /\ (l2 = Nil \/ l2 = lease) /\ LeaseCurrent(l2, world)
      /\ LeasePrivate(l2, world, edits)
  BY <1>5, <1>6, <1>7, <1>8, PageGone, GoneFields
<1>10. PageSound(t, r, l2, d2, world)
  <2>1. ASSUME r.pc = "publish" PROVE RowStays(copies, d2, <<Owner[t], r.token>>, world)
    <3>1. r.token # s.token
      BY <1>6, <2>1
    <3>2. PICK q : q = <<Owner[t], r.token>>
      OBVIOUS
    <3>3. q[2] # s.token
      BY <3>1, <3>2
    <3> QED BY <1>7, <1>8, <3>2, <3>3
  <2>2. Receipt(t, r, copies, world) /\ \A k \in World!Kind : world[k].content \subseteq world[k].content
    BY <1>9 DEF PageSound
  <2>3. Receipt(t, r, d2, world)
    BY <2>1, <2>2, ReceiptMoves
  <2> QED BY <1>9, <2>3 DEF PageSound
<1>11. PageSound(t, e, l2, d2, world) /\ Within(e, r) /\ e.told = r.told
  BY <1>3, <1>6, <1>10, RestSound
<1>12. Within(e, p)
  BY <1>6, <1>11, WithinThrough
<1> QED BY <1>1, <1>3, <1>4, <1>6, <1>7, <1>8, <1>9, <1>11, <1>12, LeaseStep

-----------------------------------------------------------------------------
LEMMA WorldInit ==
  ASSUME WorldInstance, World!Init
  PROVE  WorldSound
<1>1. /\ world = [k \in World!Kind |-> [rev |-> 0, content |-> {}]] /\ lease = Nil /\ copies = <<>>
      /\ tabs = [t \in Window |-> World!Closed] /\ edits = <<>> /\ issued = 0
  BY DEF World!Init
<1>2. /\ world \in WorldRecord /\ LeaseCurrent(lease, world) /\ RowsSound(copies, world)
      /\ edits \in Seq({Owner[t] : t \in Window})
  BY <1>1 DEF WorldRecord, LeaseCurrent, RowsSound
<1>3. PICK c : c = World!Closed
  OBVIOUS
<1>4. /\ c.state = "view" /\ c.pc = "idle" /\ c.goal = Nil /\ c.stored = Nil /\ c.token = Nil
      /\ c.draft = World!Blank /\ c.queue = <<>> /\ c.told = {}
      /\ c.armed = [k \in World!Kind |-> Nil] /\ c \in TabRecord
  BY <1>3, ClosedPage DEF ClosedFields
<1>5. DOMAIN c.queue = {} /\ \A k \in World!Kind : c.armed[k] = Nil
  BY <1>4
<1>6. \A s : ~ Pending(c, s)
  BY <1>5 DEF Pending
<1>7. Over(c, c)
  BY <1>4, <1>5, <1>6 DEF Over
<1>8. ASSUME NEW t \in Window PROVE PageSound(t, c, lease, copies, world)
  <2>1. Shape(t, c)
    BY <1>4, <1>5, <1>6 DEF Shape, World!Blank, World!Kind
  <2>2. Queued(c) /\ Receipt(t, c, copies, world)
    BY <1>4, <1>5 DEF Queued, Receipt
  <2>3. Held(t, c, lease, world)
    BY <1>1, NoLease
  <2> QED BY <2>1, <2>2, <2>3 DEF PageSound
<1>9. \A x \in Nat : ~ Uses(c, x)
  BY <1>4, <1>6 DEF Uses, WorldInstance
<1>10. OneUser
  BY <1>1, <1>3, <1>9 DEF OneUser
<1>11. World!ToldIsPublished
  BY <1>1, <1>3, <1>4 DEF World!ToldIsPublished
<1>12. Private
  <2>1. \A n : ~ Keeps(c, n)
    BY <1>4, <1>6 DEF Keeps, World!Blank
  <2>2. LeasePrivate(lease, world, edits) /\ RowsPrivate(copies, world, edits)
    BY <1>1 DEF LeasePrivate, RowsPrivate
  <2> QED BY <1>1, <1>3, <2>1, <2>2 DEF Private
<1> QED BY <1>1, <1>2, <1>3, <1>8, <1>10, <1>11, <1>12 DEF WorldSound

LEMMA WorldNext ==
  ASSUME WorldInstance, WorldSound, [World!Next]_World!vars
  PROVE  WorldSound'
<1>1. CASE World!Expire
  BY <1>1, WorldExpire
<1>2. ASSUME NEW t \in Window,
             \/ World!Start(t) \/ World!AcquireGraph(t)
             \/ \E k \in World!Kind : World!Edit(t, k) \/ World!DebounceEnds(t, k)
             \/ World!SafetyFlush(t) \/ World!SaveDraft(t) \/ World!SaveFails(t)
             \/ \E goal \in {"publish", "release", "discard"} : World!Ask(t, goal)
             \/ World!Publish(t) \/ World!Release(t) \/ World!Discard(t) \/ World!Heartbeat(t) \/ World!Reload(t)
      PROVE  WorldSound'
  BY <1>2, WorldStart, WorldAcquireGraph, WorldEdit, WorldDebounceEnds, WorldSafetyFlush,
    WorldSaveDraft,
     WorldSaveFails, WorldAsk, WorldPublish, WorldRelease, WorldDiscard, WorldHeartbeat, WorldReload
<1>3. CASE UNCHANGED World!vars
  <2>1. /\ world' = world /\ lease' = lease /\ copies' = copies /\ tabs' = tabs /\ edits' = edits
        /\ issued' = issued
    BY <1>3 DEF World!vars
  <2>2. OneUser'
    BY <2>1 DEF WorldSound, OneUser, Uses, Pending
  <2>3. World!ToldIsPublished'
    BY <2>1 DEF WorldSound, World!ToldIsPublished
  <2>4. \A t \in Window : PageSound(t, tabs'[t], lease', copies', world')
    BY <2>1 DEF WorldSound
  <2>5. LeaseCurrent(lease', world') /\ RowsSound(copies', world')
    BY <2>1 DEF WorldSound
  <2>6. Private'
    <3>1. \A t \in Window : \A n \in Nat : Keeps(tabs'[t], n) => n \in Mine(Owner[t], world', edits')
      BY <2>1 DEF WorldSound, Private
    <3> QED BY <2>1, <3>1 DEF WorldSound, Private, Keeps, Pending, Mine, LeasePrivate,
      LeaseMine, RowsPrivate
  <2> QED BY <2>1, <2>2, <2>3, <2>4, <2>5, <2>6 DEF WorldSound, LeaseCurrent, RowsSound,
    PageSound,
         LeaseSound, RowCurrent, Shape, Queued, Held, Receipt, SaveCurrent
<1> QED BY <1>1, <1>2, <1>3 DEF World!Next

(* No editor is told that work is published that is not, and no later      *)
(* publication of anybody takes it away: what a page shows when it         *)
(* publishes is in its lease, and what every lease and every checkpoint    *)
(* of the current revision holds contains what is published.               *)
THEOREM WorldInvariant ==
  ASSUME WorldInstance
  PROVE  World!Spec => []WorldSound
<1>1. World!Init => WorldSound
  BY WorldInit
<1>2. WorldSound /\ [World!Next]_World!vars => WorldSound'
  BY WorldNext
<1> QED BY <1>1, <1>2, PTL DEF World!Spec

THEOREM ToldIsPublished ==
  ASSUME WorldInstance
  PROVE  World!Spec => []World!ToldIsPublished
<1>1. WorldSound => World!ToldIsPublished
  BY DEF WorldSound
<1> QED BY <1>1, WorldInvariant, PTL

(* Nobody sees or publishes the unpublished work of another: a draft, a    *)
(* checkpoint and the lease hold what is published and what their own      *)
(* editor did.                                                             *)
THEOREM DraftsArePrivate ==
  ASSUME WorldInstance
  PROVE  World!Spec => []World!DraftsArePrivate
<1>1. ASSUME WorldSound PROVE World!DraftsArePrivate
  <2>1. ASSUME NEW t \in Window, NEW k \in World!Kind
        PROVE  tabs[t].draft[k] \subseteq Mine(Owner[t], world, edits)
    <3>1. tabs[t].draft[k] \in SUBSET Nat
      BY <1>1 DEF WorldSound, PageSound, Shape, TabRecord, Contents
    <3>2. \A n \in tabs[t].draft[k] : Keeps(tabs[t], n)
      BY DEF Keeps
    <3> QED BY <1>1, <3>1, <3>2 DEF WorldSound, Private
  <2>2. RowsPrivate(copies, world, edits) /\ LeasePrivate(lease, world, edits)
    BY <1>1 DEF WorldSound, Private
  <2> QED BY <2>1, <2>2 DEF World!DraftsArePrivate, RowsPrivate, LeasePrivate, LeaseMine, Mine
<1> QED BY <1>1, WorldInvariant, PTL

(* An editor has one checkpoint to recover at the most. *)
THEOREM OneActive ==
  ASSUME WorldInstance
  PROVE  World!Spec => []World!OneActive
<1>1. ASSUME WorldSound PROVE World!OneActive
  <2>1. ASSUME NEW t \in Window PROVE Cardinality(World!Active(Owner[t])) <= 1
    <3>1. \A p, q \in World!Active(Owner[t]) : p = q
      BY <1>1 DEF WorldSound, RowsSound, World!Active
    <3>2. CASE World!Active(Owner[t]) = {}
      BY <3>2, FS_EmptySet
    <3>3. CASE World!Active(Owner[t]) # {}
      <4>1. PICK q : World!Active(Owner[t]) = {q}
        BY <3>1, <3>3
      <4>2. Cardinality({q}) = 1
        BY FS_Singleton
      <4> QED BY <4>1, <4>2
    <3> QED BY <3>2, <3>3
  <2>2. \A S : World!Cardinality(S) = Cardinality(S)
    BY DEF World!Cardinality, Cardinality
  <2> QED BY <2>1, <2>2, Zenon DEF World!OneActive
<1> QED BY <1>1, WorldInvariant, PTL

-----------------------------------------------------------------------------
(* EntityMedia *)
CONSTANTS Entity, File, Image, Part, Upload, Publisher, MaxLease, MaxMove
VARIABLES enabled, token, draft, upload, parts, staged, public, asset, binding, visible, pub,
  moves, wanted

Media == INSTANCE EntityMedia WITH MaxToken <- MaxLease, MaxOp <- MaxMove, ops <- moves

(* No portrait is "no value" or "nothing asked", a status is a value, and  *)
(* a lease is given.                                                       *)
MediaInstance ==
  /\ Nil \notin File /\ Media!Unset \notin File
  /\ Nil \notin {"staged", "verified_public"}
  /\ MaxLease \in Nat \ {0}

Status == {"staged", "verified_public", Nil}
Finalizing == [entity : Entity, file : File, token : 1..MaxLease,
               phase : {"sending", "asked", "read", "put", "stored", "kept"}]
PublicationRecord == [token : 1..MaxLease, seen : Media!Draft, media : BOOLEAN,
               known : [Entity -> BOOLEAN], todo : SUBSET Entity,
               at : Entity \cup {Nil}, phase : {"next", "put", "delivered"}]

MediaTyped ==
  /\ enabled \in BOOLEAN /\ token \in 1..MaxLease
  /\ draft # Nil => draft \in Media!Draft
  /\ DOMAIN upload = Upload /\ \A u \in Upload : upload[u] # Nil => upload[u] \in Finalizing
  /\ asset \in [Media!Key -> Status]
  /\ binding \in [Entity -> File \cup {Nil}] /\ wanted \in [Entity -> File \cup {Nil}]
  /\ DOMAIN pub = Publisher /\ \A p \in Publisher : pub[p] # Nil => pub[p] \in PublicationRecord

(* What an upload has reached, and what is kept of every portrait: a row   *)
(* has its object, and a row that says so has it in the public bucket.     *)
Registered(k) == asset[k] # Nil
UploadKept(r) ==
  /\ r.phase \in {"stored", "kept"} => <<r.entity, r.file>> \in staged
  /\ r.phase = "kept" => Registered(<<r.entity, r.file>>)
RowsKept ==
  \A k \in Media!Key : Registered(k) =>
    /\ k \in staged
    /\ asset[k] = "verified_public" => k \in public
DraftKept(d) == \A e \in Entity : Media!Wants(d, e) => Registered(<<e, d[e].asset>>)
BindingsKept == \A e \in Entity : binding[e] \in File => Registered(<<e, binding[e]>>)

(* A publication wants what is registered, copies what it wants, and has   *)
(* put what it fetched; without the feature it wants nothing.              *)
PublicationKept(r) ==
  /\ r.media => DraftKept(r.seen)
  /\ ~r.media => r.todo = {} /\ \A e \in Entity : r.seen[e].asset = Media!Unset
  /\ \A e \in r.todo : Media!Wants(r.seen, e)
  /\ r.phase # "next" => r.at \in r.todo
  /\ r.phase = "delivered" => <<r.at, r.seen[r.at].asset>> \in public

MediaKept ==
  /\ \A u \in Upload : upload[u] # Nil => UploadKept(upload[u])
  /\ RowsKept /\ BindingsKept
  /\ draft # Nil => DraftKept(draft)
  /\ \A p \in Publisher : pub[p] # Nil => PublicationKept(pub[p])
MediaInv == MediaTyped /\ MediaKept /\ Media!PublicIsVerified /\ Media!BoundAsDrafted

(* What was kept stays kept while objects and rows are only added. *)
Grows ==
  /\ staged \subseteq staged' /\ public \subseteq public'
  /\ \A k \in Media!Key : Registered(k) => Registered(k)'
StoresKept == asset \in [Media!Key -> Status] /\ RowsKept /\ Media!PublicIsVerified

\* An object that is there is not deleted, and neither is a row.
LEMMA MediaGrows ==
  ASSUME Grows
  PROVE  /\ \A r \in Finalizing : UploadKept(r) => UploadKept(r)'
         /\ \A d \in Media!Draft : DraftKept(d) => DraftKept(d)'
         /\ \A r \in PublicationRecord : PublicationKept(r) => PublicationKept(r)'
<1>1. ASSUME NEW r \in Finalizing, UploadKept(r) PROVE UploadKept(r)'
  <2>1. r.entity \in Entity /\ r.file \in File
    BY DEF Finalizing
  <2>2. <<r.entity, r.file>> \in Media!Key
    BY <2>1 DEF Media!Key
  <2> QED BY <1>1, <2>2 DEF UploadKept, Grows
<1>2. ASSUME NEW d \in Media!Draft, DraftKept(d) PROVE DraftKept(d)'
  <2>1. ASSUME NEW e \in Entity, Media!Wants(d, e) PROVE Registered(<<e, d[e].asset>>)'
    <3>1. <<e, d[e].asset>> \in Media!Key
      BY <2>1 DEF Media!Key, Media!Wants
    <3> QED BY <1>2, <2>1, <3>1 DEF DraftKept, Grows
  <2> QED BY <2>1 DEF DraftKept, Media!Wants
<1>3. ASSUME NEW r \in PublicationRecord, PublicationKept(r) PROVE PublicationKept(r)'
  <2>1. r.seen \in Media!Draft
    BY DEF PublicationRecord
  <2>2. r.media => DraftKept(r.seen)'
    BY <1>2, <1>3, <2>1 DEF PublicationKept
  <2>3. r.phase = "delivered" => <<r.at, r.seen[r.at].asset>> \in public'
    BY <1>3 DEF PublicationKept, Grows
  <2> QED BY <1>3, <2>2, <2>3 DEF PublicationKept, Media!Wants, Media!Unset
<1> QED BY <1>1, <1>2, <1>3

\* Bindings and the draft stay kept with them.
LEMMA GraphStays ==
  ASSUME MediaInv, Grows, UNCHANGED <<draft, binding, wanted>>
  PROVE  /\ (draft # Nil => draft \in Media!Draft /\ DraftKept(draft))'
         /\ BindingsKept' /\ Media!BoundAsDrafted'
         /\ (binding \in [Entity -> File \cup {Nil}] /\ wanted \in [Entity -> File \cup {Nil}])'
<1>1. (draft # Nil => draft \in Media!Draft /\ DraftKept(draft))'
  <2>1. Media!Draft' = Media!Draft
    BY DEF Media!Draft, Media!Node, Media!Unset
  <2>2. draft' = draft
    OBVIOUS
  <2>3. CASE draft # Nil
    <3>1. draft \in Media!Draft /\ DraftKept(draft)
      BY <2>3 DEF MediaInv, MediaTyped, MediaKept
    <3>2. \A d \in Media!Draft : DraftKept(d) => DraftKept(d)'
      BY MediaGrows
    <3>3. \A e \in Entity : Media!Wants(draft, e) => Registered(<<e, draft[e].asset>>)'
      BY <3>1, <3>2 DEF DraftKept
    <3>4. DraftKept(draft)'
      BY <2>2, <3>3 DEF DraftKept, Registered, Media!Wants
    <3> QED BY <2>1, <2>2, <3>1, <3>4
  <2> QED BY <2>2, <2>3
<1>2. BindingsKept'
  <2>1. ASSUME NEW e \in Entity, binding[e] \in File PROVE Registered(<<e, binding[e]>>)'
    <3>1. <<e, binding[e]>> \in Media!Key
      BY <2>1 DEF Media!Key
    <3>2. Registered(<<e, binding[e]>>)
      BY <2>1 DEF MediaInv, MediaKept, BindingsKept
    <3> QED BY <3>1, <3>2 DEF Grows, Registered
  <2> QED BY <2>1 DEF BindingsKept, Registered
<1> QED BY <1>1, <1>2 DEF MediaInv, MediaTyped, Media!BoundAsDrafted

\* A step of one upload.
LEMMA UploadStep ==
  ASSUME MediaInv, Grows, StoresKept', UNCHANGED <<enabled, token, draft, binding, wanted, pub>>,
         NEW u \in Upload, NEW r, r # Nil => r \in Finalizing /\ UploadKept(r)',
         upload' = [upload EXCEPT ![u] = r]
  PROVE  MediaInv'
<1>1. DOMAIN upload' = Upload
  BY DEF MediaInv, MediaTyped
<1>2. ASSUME NEW v \in Upload, upload'[v] # Nil
      PROVE  upload'[v] \in Finalizing /\ UploadKept(upload[v])'
  <2>1. CASE v = u
    <3>1. upload'[v] = r
      BY <2>1 DEF MediaInv, MediaTyped
    <3> QED BY <1>2, <3>1 DEF UploadKept, Registered
  <2>2. CASE v # u
    <3>1. upload'[v] = upload[v]
      BY <2>2 DEF MediaInv, MediaTyped
    <3>2. upload[v] \in Finalizing /\ UploadKept(upload[v])
      BY <1>2, <3>1 DEF MediaInv, MediaTyped, MediaKept
    <3>3. \A x \in Finalizing : UploadKept(x) => UploadKept(x)'
      BY MediaGrows
    <3> QED BY <3>1, <3>2, <3>3 DEF UploadKept, Registered
  <2> QED BY <2>1, <2>2
<1>3. ASSUME NEW p \in Publisher, pub'[p] # Nil
      PROVE  pub'[p] \in PublicationRecord /\ PublicationKept(pub[p])'
  <2>1. pub[p] \in PublicationRecord /\ PublicationKept(pub[p]) /\ pub'[p] = pub[p]
    BY <1>3 DEF MediaInv, MediaTyped, MediaKept
  <2>2. \A x \in PublicationRecord : PublicationKept(x) => PublicationKept(x)'
    BY MediaGrows
  <2> QED BY <2>1, <2>2 DEF PublicationKept, DraftKept, Registered, Media!Wants, Media!Unset
<1>4. MediaTyped'
  <2>1. Finalizing' = Finalizing /\ PublicationRecord' = PublicationRecord
    BY DEF Finalizing, PublicationRecord, Media!Draft, Media!Node, Media!Unset
  <2>2. DOMAIN pub' = Publisher /\ enabled' \in BOOLEAN /\ token' \in 1..MaxLease
    BY DEF MediaInv, MediaTyped
  <2> QED BY <1>1, <1>2, <1>3, <2>1, <2>2, GraphStays DEF MediaTyped, StoresKept, Media!Key,
    Status
<1>5. MediaKept'
  BY <1>2, <1>3, GraphStays DEF MediaKept, StoresKept
<1> QED BY <1>4, <1>5, GraphStays DEF MediaInv, StoresKept

\* A step of one publication.
LEMMA PublicationStep ==
  ASSUME MediaInv, Grows, StoresKept', UNCHANGED <<enabled, token, draft, binding, wanted, upload>>,
         NEW p \in Publisher, NEW r, r # Nil => r \in PublicationRecord /\ PublicationKept(r)',
         pub' = [pub EXCEPT ![p] = r]
  PROVE  MediaInv'
<1>1. DOMAIN pub' = Publisher
  BY DEF MediaInv, MediaTyped
<1>2. ASSUME NEW q \in Publisher, pub'[q] # Nil
      PROVE  pub'[q] \in PublicationRecord /\ PublicationKept(pub[q])'
  <2>1. CASE q = p
    <3>1. pub'[q] = r
      BY <2>1 DEF MediaInv, MediaTyped
    <3> QED BY <1>2, <3>1 DEF PublicationKept, DraftKept, Registered, Media!Wants, Media!Unset
  <2>2. CASE q # p
    <3>1. pub'[q] = pub[q]
      BY <2>2 DEF MediaInv, MediaTyped
    <3>2. pub[q] \in PublicationRecord /\ PublicationKept(pub[q])
      BY <1>2, <3>1 DEF MediaInv, MediaTyped, MediaKept
    <3>3. \A x \in PublicationRecord : PublicationKept(x) => PublicationKept(x)'
      BY MediaGrows
    <3> QED BY <3>1, <3>2, <3>3
        DEF PublicationKept, DraftKept, Registered, Media!Wants, Media!Unset
  <2> QED BY <2>1, <2>2
<1>3. ASSUME NEW u \in Upload, upload'[u] # Nil
      PROVE  upload'[u] \in Finalizing /\ UploadKept(upload[u])'
  <2>1. upload[u] \in Finalizing /\ UploadKept(upload[u]) /\ upload'[u] = upload[u]
    BY <1>3 DEF MediaInv, MediaTyped, MediaKept
  <2>2. \A x \in Finalizing : UploadKept(x) => UploadKept(x)'
    BY MediaGrows
  <2> QED BY <2>1, <2>2 DEF UploadKept, Registered
<1>4. MediaTyped'
  <2>1. Finalizing' = Finalizing /\ PublicationRecord' = PublicationRecord
    BY DEF Finalizing, PublicationRecord, Media!Draft, Media!Node, Media!Unset
  <2>2. DOMAIN upload' = Upload /\ enabled' \in BOOLEAN /\ token' \in 1..MaxLease
    BY DEF MediaInv, MediaTyped
  <2> QED BY <1>1, <1>2, <1>3, <2>1, <2>2, GraphStays DEF MediaTyped, StoresKept, Media!Key,
    Status
<1>5. MediaKept'
  BY <1>2, <1>3, GraphStays DEF MediaKept, StoresKept
<1> QED BY <1>4, <1>5, GraphStays DEF MediaInv, StoresKept

\* Nothing is added to the stores.
LEMMA StoresStay ==
  ASSUME MediaInv, UNCHANGED <<staged, public, asset>>
  PROVE  Grows /\ StoresKept'
<1>1. Grows
  BY DEF Grows, Registered
<1>2. StoresKept
  BY DEF MediaInv, MediaTyped, MediaKept, StoresKept
<1> QED BY <1>1, <1>2
    DEF StoresKept, RowsKept, Registered, Media!PublicIsVerified, Media!Key, Status

\* The fields of an upload whose step is taken.
LEMMA UploadFields ==
  ASSUME MediaInv, NEW u \in Upload, upload[u] # Nil
  PROVE  /\ upload[u] \in Finalizing /\ UploadKept(upload[u])
         /\ upload[u].entity \in Entity /\ upload[u].file \in File
         /\ Media!KeyOf(u) = <<upload[u].entity, upload[u].file>>
         /\ Media!KeyOf(u) \in Media!Key
<1>1. upload[u] \in Finalizing /\ UploadKept(upload[u])
  BY DEF MediaInv, MediaTyped, MediaKept
<1> QED BY <1>1 DEF Finalizing, Media!KeyOf, Media!Key

\* An upload that goes on to a phase whose work is done.
LEMMA UploadGoesOn ==
  ASSUME MediaInv, Grows, StoresKept', UNCHANGED <<enabled, token, draft, binding, wanted, pub>>,
         NEW u \in Upload, upload[u] # Nil,
         NEW s \in {"sending", "asked", "read", "put", "stored", "kept"}, Media!To(u, s),
         s \in {"stored", "kept"} => Media!KeyOf(u) \in staged',
         s = "kept" => asset'[Media!KeyOf(u)] # Nil
  PROVE  MediaInv'
<1>1. PICK r : r = [upload[u] EXCEPT !.phase = s]
  OBVIOUS
<1>2. upload' = [upload EXCEPT ![u] = r]
  BY <1>1 DEF Media!To
<1>3. /\ r \in Finalizing
      /\ r.entity = upload[u].entity /\ r.file = upload[u].file /\ r.phase = s
  BY <1>1, UploadFields DEF Finalizing
<1>4. UploadKept(r)'
  BY <1>3, UploadFields DEF UploadKept, Registered
<1> QED BY <1>2, <1>3, <1>4, UploadStep

\* Steps of which the portraits say nothing.
LEMMA MediaStays ==
  ASSUME MediaInv,
         UNCHANGED <<enabled, token, draft, upload, staged, public, asset, binding, wanted, pub>>
  PROVE  MediaInv'
<1>1. /\ Finalizing' = Finalizing /\ PublicationRecord' = PublicationRecord
      /\ Media!Draft' = Media!Draft
      /\ Media!Key' = Media!Key
  BY DEF Finalizing, PublicationRecord, Media!Draft, Media!Node, Media!Unset, Media!Key
<1>2. MediaTyped'
  BY <1>1 DEF MediaInv, MediaTyped, Status
<1>3. /\ \A u \in Upload : upload'[u] # Nil => UploadKept(upload[u])'
      /\ \A p \in Publisher : pub'[p] # Nil => PublicationKept(pub[p])'
      /\ (draft # Nil => DraftKept(draft))'
  BY DEF MediaInv, MediaKept, UploadKept, PublicationKept, DraftKept, Registered,
    Media!Wants, Media!Unset
<1>4. RowsKept' /\ BindingsKept' /\ Media!PublicIsVerified' /\ Media!BoundAsDrafted'
  BY <1>1 DEF MediaInv, MediaKept, RowsKept, BindingsKept, Registered, Media!PublicIsVerified,
    Media!BoundAsDrafted
<1> QED BY <1>2, <1>3, <1>4 DEF MediaInv, MediaKept

-----------------------------------------------------------------------------
(* EntityMedia: the steps of an upload. *)
LEMMA MediaRequest ==
  ASSUME MediaInv, NEW u \in Upload, NEW e \in Entity, NEW f \in File,
         Media!requestWorldEntityPortraitUploadAction(u, e, f)
  PROVE  MediaInv'
<1>1. PICK r : r = [entity |-> e, file |-> f, token |-> token, phase |-> "sending"]
  OBVIOUS
<1>2. /\ upload' = [upload EXCEPT ![u] = r]
      /\ UNCHANGED <<enabled, token, draft, staged, public, asset, binding, wanted, pub>>
  BY <1>1 DEF Media!requestWorldEntityPortraitUploadAction, Media!stores, Media!graph
<1>3. r \in Finalizing /\ UploadKept(r)'
  BY <1>1 DEF MediaInv, MediaTyped, Finalizing, UploadKept
<1> QED BY <1>2, <1>3, StoresStay, UploadStep

LEMMA MediaSendPart ==
  ASSUME MediaInv, NEW u \in Upload, Media!SendPart(u)
  PROVE  MediaInv'
BY MediaStays DEF Media!SendPart, Media!stores, Media!graph

LEMMA MediaFinalize ==
  ASSUME MediaInv, NEW u \in Upload, Media!finalizeWorldEntityPortraitUploadAction(u)
  PROVE  MediaInv'
<1>1. /\ upload[u] # Nil /\ Media!To(u, "asked")
      /\ UNCHANGED <<enabled, token, draft, staged, public, asset, binding, wanted, pub>>
  BY DEF Media!finalizeWorldEntityPortraitUploadAction, Media!Phase, Media!stores, Media!graph
<1> QED BY <1>1, StoresStay, UploadGoesOn

LEMMA MediaReadParts ==
  ASSUME MediaInv, NEW u \in Upload, Media!ReadParts(u)
  PROVE  MediaInv'
<1>1. /\ upload[u] # Nil /\ Media!To(u, "read")
      /\ UNCHANGED <<enabled, token, draft, staged, public, asset, binding, wanted, pub>>
  BY DEF Media!ReadParts, Media!Phase, Media!stores, Media!graph
<1> QED BY <1>1, StoresStay, UploadGoesOn

\* What is put may be there already; the row comes later.
LEMMA MediaPut ==
  ASSUME MediaInv, NEW u \in Upload, Media!Put(u)
  PROVE  MediaInv'
<1>1. upload[u] # Nil /\ UNCHANGED <<enabled, token, draft, public, asset, binding, wanted, pub>>
  BY DEF Media!Put, Media!putImmutableObject, Media!Phase, Media!graph
<1>2. staged \subseteq staged' => Grows /\ StoresKept'
  <2>1. StoresKept
    BY DEF MediaInv, MediaTyped, MediaKept, StoresKept
  <2> QED BY <1>1, <2>1
      DEF Grows, StoresKept, RowsKept, Registered, Media!PublicIsVerified, Media!Key, Status
<1>3. CASE Media!To(u, "put") /\ UNCHANGED staged
  BY <1>1, <1>2, <1>3, UploadGoesOn
<1>4. CASE staged' = staged \cup {Media!KeyOf(u)} /\ Media!To(u, "stored")
  BY <1>1, <1>2, <1>4, UploadGoesOn
<1>5. CASE Media!KeyOf(u) \in staged /\ Media!To(u, "stored") /\ UNCHANGED staged
  BY <1>1, <1>2, <1>5, UploadGoesOn
<1> QED BY <1>3, <1>4, <1>5 DEF Media!Put, Media!putImmutableObject

\* The row of an object that is there.
LEMMA MediaPersist ==
  ASSUME MediaInstance, MediaInv, NEW u \in Upload, Media!Persist(u)
  PROVE  MediaInv'
<1> DEFINE k == Media!KeyOf(u)
           s == Media!persistVerifiedAsset(k)
<1>1. /\ upload[u] # Nil /\ k \in staged /\ asset' = [asset EXCEPT ![k] = s]
      /\ Media!To(u, "kept")
      /\ UNCHANGED <<enabled, token, draft, staged, public, binding, wanted, pub>>
  BY DEF Media!Persist, Media!Phase, Media!graph
<1>2. k \in Media!Key
  BY <1>1, UploadFields
<1>3. asset \in [Media!Key -> Status] /\ RowsKept /\ Media!PublicIsVerified
  BY DEF MediaInv, MediaTyped, MediaKept
<1>4. s \in Status /\ s # Nil /\ (s = "verified_public" => asset[k] = "verified_public")
  BY <1>2, <1>3 DEF Media!persistVerifiedAsset, MediaInstance, Status
<1> HIDE DEF k, s
<1>5. asset' \in [Media!Key -> Status] /\ asset'[k] # Nil
  BY <1>1, <1>2, <1>3, <1>4
<1>6. Grows
  BY <1>1, <1>2, <1>3, <1>4 DEF Grows, Registered
<1>7. RowsKept'
  BY <1>1, <1>2, <1>3, <1>4 DEF RowsKept, Registered, Media!Key
<1>8. Media!PublicIsVerified'
  BY <1>1, <1>2, <1>3, <1>4, <1>6 DEF Media!PublicIsVerified
<1>9. StoresKept'
  BY <1>5, <1>7, <1>8 DEF StoresKept, Media!Key, Status
<1> QED BY <1>1, <1>5, <1>6, <1>9, UploadGoesOn DEF k

\* The draft takes a portrait that is registered.
LEMMA MediaUploaded ==
  ASSUME MediaInv, NEW u \in Upload, Media!Uploaded(u)
  PROVE  MediaInv'
<1>1. upload[u] # Nil /\ upload[u].phase = "kept"
  BY DEF Media!Uploaded, Media!Phase
<1> DEFINE e == upload[u].entity
           f == upload[u].file
<1>2. e \in Entity /\ f \in File /\ Registered(<<e, f>>)
  BY <1>1, UploadFields DEF UploadKept
<1>3. UNCHANGED <<enabled, token, staged, public, asset, binding, visible, wanted, pub>>
  BY DEF Media!Uploaded, Media!stores, Media!graph
<1>4. CASE UNCHANGED draft
  <2>1. upload' = [upload EXCEPT ![u] = Nil]
    BY DEF Media!Uploaded
  <2> QED BY <1>3, <1>4, <2>1, StoresStay, UploadStep
<1>5. CASE draft # Nil /\ draft' = [draft EXCEPT ![e].asset = f]
  <2>1. draft \in Media!Draft /\ DraftKept(draft)
    BY <1>5 DEF MediaInv, MediaTyped, MediaKept
  <2>2. draft' \in Media!Draft
    BY <1>2, <1>5, <2>1 DEF Media!Draft, Media!Node
  <2>3. DraftKept(draft)'
    <3>1. SUFFICES ASSUME NEW x \in Entity, draft'[x].asset \in File
                   PROVE  asset'[<<x, draft'[x].asset>>] # Nil
      BY DEF DraftKept, Registered, Media!Wants
    <3>2. CASE x = e
      BY <1>2, <1>3, <1>5, <2>1, <3>2 DEF Media!Draft, Media!Node, Registered
    <3>3. CASE x # e
      BY <1>3, <1>5, <2>1, <3>1, <3>3 DEF Media!Draft, DraftKept, Registered, Media!Wants
    <3> QED BY <3>2, <3>3
  <2>4. \A v \in Upload : upload'[v] # Nil => upload[v] # Nil /\ upload'[v] = upload[v]
    BY DEF Media!Uploaded, MediaInv, MediaTyped
  <2>5. DOMAIN upload' = Upload
    BY DEF Media!Uploaded, MediaInv, MediaTyped
  <2>6. StoresKept' /\ Grows
    BY <1>3, StoresStay
  <2>7. MediaTyped'
    <3>1. /\ Finalizing' = Finalizing /\ PublicationRecord' = PublicationRecord
          /\ Media!Draft' = Media!Draft
          /\ Media!Key' = Media!Key
      BY DEF Finalizing, PublicationRecord, Media!Draft, Media!Node, Media!Unset, Media!Key
    <3> QED BY <1>3, <2>2, <2>4, <2>5, <3>1 DEF MediaInv, MediaTyped, Status
  <2>8. MediaKept'
    <3>1. \A v \in Upload : upload'[v] # Nil => UploadKept(upload[v])'
      BY <1>3, <2>4 DEF MediaInv, MediaKept, UploadKept, Registered
    <3>2. \A p \in Publisher : pub'[p] # Nil => PublicationKept(pub[p])'
      BY <1>3
      DEF MediaInv, MediaKept, PublicationKept, DraftKept, Registered, Media!Wants, Media!Unset
    <3>3. BindingsKept'
      BY <1>3 DEF MediaInv, MediaKept, BindingsKept, Registered
    <3> QED BY <2>3, <2>6, <3>1, <3>2, <3>3 DEF MediaKept, StoresKept
  <2> QED BY <1>3, <2>6, <2>7, <2>8 DEF MediaInv, StoresKept, Media!BoundAsDrafted
<1> QED BY <1>4, <1>5 DEF Media!Uploaded, Media!authorizeWorldEntityMediaTarget

LEMMA MediaUploadFails ==
  ASSUME MediaInv, NEW u \in Upload, Media!UploadFails(u)
  PROVE  MediaInv'
<1>1. /\ upload' = [upload EXCEPT ![u] = Nil]
      /\ UNCHANGED <<enabled, token, draft, staged, public, asset, binding, wanted, pub>>
  BY DEF Media!UploadFails, Media!stores, Media!graph
<1> QED BY <1>1, StoresStay, UploadStep

-----------------------------------------------------------------------------
(* EntityMedia: the draft, and the publication of it. *)
LEMMA DraftStep ==
  ASSUME MediaInv,
         UNCHANGED <<upload, staged, public, asset, binding, wanted, pub>>,
         enabled' \in BOOLEAN, token' \in 1..MaxLease,
         draft' # Nil => draft' \in Media!Draft /\ DraftKept(draft')
  PROVE  MediaInv'
<1>1. /\ Finalizing' = Finalizing /\ PublicationRecord' = PublicationRecord
      /\ Media!Draft' = Media!Draft
      /\ Media!Key' = Media!Key
  BY DEF Finalizing, PublicationRecord, Media!Draft, Media!Node, Media!Unset, Media!Key
<1>2. MediaTyped'
  BY <1>1 DEF MediaInv, MediaTyped, Status
<1>3. /\ \A u \in Upload : upload'[u] # Nil => UploadKept(upload[u])'
      /\ \A p \in Publisher : pub'[p] # Nil => PublicationKept(pub[p])'
  BY DEF MediaInv, MediaKept, UploadKept, PublicationKept, DraftKept, Registered,
    Media!Wants, Media!Unset
<1>4. (draft # Nil => DraftKept(draft))'
  BY DEF DraftKept, Registered, Media!Wants
<1>5. RowsKept' /\ BindingsKept' /\ Media!PublicIsVerified' /\ Media!BoundAsDrafted'
  BY <1>1 DEF MediaInv, MediaKept, RowsKept, BindingsKept, Registered, Media!PublicIsVerified,
    Media!BoundAsDrafted
<1> QED BY <1>2, <1>3, <1>4, <1>5 DEF MediaInv, MediaKept

\* A draft that begins names what is bound.
LEMMA HydratedKept ==
  ASSUME MediaInstance, BindingsKept, binding \in [Entity -> File \cup {Nil}]
  PROVE  /\ Media!hydrateWorldGraphDraftMedia \in Media!Draft
         /\ DraftKept(Media!hydrateWorldGraphDraftMedia)
<1> DEFINE d == Media!hydrateWorldGraphDraftMedia
<1>1. \A e \in Entity : d[e].asset = binding[e] \/ d[e].asset = Media!Unset
  BY DEF Media!hydrateWorldGraphDraftMedia
<1>2. d \in Media!Draft
  BY DEF Media!hydrateWorldGraphDraftMedia, Media!Draft, Media!Node
<1>3. DraftKept(d)
  <2>1. SUFFICES ASSUME NEW e \in Entity, Media!Wants(d, e) PROVE Registered(<<e, d[e].asset>>)
    BY DEF DraftKept
  <2>2. d[e].asset \in File
    BY <2>1 DEF Media!Wants
  <2>3. d[e].asset = binding[e] /\ binding[e] \in File
    <3> HIDE DEF d
    <3> QED BY <1>1, <2>1, <2>2 DEF MediaInstance
  <2> QED BY <2>3 DEF BindingsKept
<1> QED BY <1>2, <1>3

LEMMA MediaEdit ==
  ASSUME MediaInstance, MediaInv, NEW e \in Entity, Media!Edit(e)
  PROVE  MediaInv'
<1>1. draft \in Media!Draft /\ DraftKept(draft)
  BY DEF Media!Edit, MediaInv, MediaTyped, MediaKept
<1>2. /\ UNCHANGED <<enabled, token, upload, staged, public, asset, binding, wanted, pub>>
      /\ enabled' \in BOOLEAN /\ token' \in 1..MaxLease
  BY DEF Media!Edit, Media!stores, Media!graph, MediaInv, MediaTyped
<1>3. CASE draft' = [draft EXCEPT ![e].asset = Nil]
  <2>1. draft' \in Media!Draft
    BY <1>1, <1>3 DEF Media!Draft, Media!Node
  <2>2. \A x \in Entity : draft'[x].asset \in File => draft'[x].asset = draft[x].asset
    BY <1>1, <1>3 DEF Media!Draft, Media!Node, MediaInstance
  <2>3. DraftKept(draft')
    BY <1>1, <2>2 DEF DraftKept, Media!Wants
  <2> QED BY <1>2, <2>1, <2>3, DraftStep
<1>4. CASE draft' = [draft EXCEPT ![e].open = ~@]
  <2>1. draft' \in Media!Draft
    BY <1>1, <1>4 DEF Media!Draft, Media!Node
  <2>2. \A x \in Entity : draft'[x].asset = draft[x].asset
    BY <1>1, <1>4 DEF Media!Draft, Media!Node
  <2>3. DraftKept(draft')
    BY <1>1, <2>2 DEF DraftKept, Media!Wants
  <2> QED BY <1>2, <2>1, <2>3, DraftStep
<1> QED BY <1>3, <1>4 DEF Media!Edit

LEMMA MediaLease ==
  ASSUME MediaInstance, MediaInv, Media!Lease
  PROVE  MediaInv'
<1>1. /\ UNCHANGED <<enabled, upload, staged, public, asset, binding, wanted, pub>>
      /\ enabled' \in BOOLEAN /\ token' \in 1..MaxLease
  BY DEF Media!Lease, Media!stores, Media!graph, MediaInv, MediaTyped, MediaInstance
<1>2. draft' \in Media!Draft /\ DraftKept(draft')
  BY HydratedKept DEF Media!Lease, MediaInv, MediaTyped, MediaKept
<1> QED BY <1>1, <1>2, DraftStep

LEMMA MediaSwitch ==
  ASSUME MediaInv, Media!Switch
  PROVE  MediaInv'
<1>1. /\ UNCHANGED <<token, draft, upload, staged, public, asset, binding, wanted, pub>>
      /\ enabled' \in BOOLEAN /\ token' \in 1..MaxLease
  BY DEF Media!Switch, Media!stores, Media!graph, MediaInv, MediaTyped
<1>2. draft' # Nil => draft' \in Media!Draft /\ DraftKept(draft')
  <2>1. draft # Nil => draft \in Media!Draft /\ DraftKept(draft)
    BY DEF MediaInv, MediaTyped, MediaKept
  <2>2. draft' = draft
    BY <1>1
  <2> QED BY <2>1, <2>2
<1> QED BY <1>1, <1>2, DraftStep

LEMMA MediaInit ==
  ASSUME MediaInstance, Media!Init
  PROVE  MediaInv
<1>1. binding \in [Entity -> File \cup {Nil}] /\ BindingsKept
  BY DEF Media!Init, BindingsKept, MediaInstance
<1>2. draft \in Media!Draft /\ DraftKept(draft)
  BY <1>1, HydratedKept DEF Media!Init
<1>3. MediaTyped
  BY <1>1, <1>2 DEF Media!Init, MediaTyped, Status, MediaInstance
<1>4. RowsKept /\ Media!PublicIsVerified /\ Media!BoundAsDrafted
  BY DEF Media!Init, RowsKept, Registered, Media!PublicIsVerified, Media!BoundAsDrafted
<1>5. MediaKept
  BY <1>1, <1>2, <1>4 DEF Media!Init, MediaKept
<1> QED BY <1>3, <1>4, <1>5 DEF MediaInv

\* The fields of a publication whose step is taken.
LEMMA PublicationFields ==
  ASSUME MediaInv, NEW p \in Publisher, pub[p] # Nil
  PROVE  /\ pub[p] \in PublicationRecord /\ PublicationKept(pub[p])
         /\ pub[p].seen \in Media!Draft /\ pub[p].todo \subseteq Entity
         /\ pub[p].media \in BOOLEAN
<1>1. pub[p] \in PublicationRecord /\ PublicationKept(pub[p])
  BY DEF MediaInv, MediaTyped, MediaKept
<1> QED BY <1>1 DEF PublicationRecord

LEMMA MediaPrepare ==
  ASSUME MediaInv, NEW p \in Publisher, Media!prepareWorldEntityMediaForPublish(p)
  PROVE  MediaInv'
<1>1. draft \in Media!Draft /\ DraftKept(draft)
  BY DEF Media!prepareWorldEntityMediaForPublish, MediaInv, MediaTyped, MediaKept
<1>2. UNCHANGED <<enabled, token, draft, upload, staged, public, asset, binding, wanted>>
  BY DEF Media!prepareWorldEntityMediaForPublish, Media!stores, Media!graph
<1>3. PICK r : r = [token |-> token, seen |-> draft, media |-> enabled, phase |-> "next",
        at |-> Nil,
        known |-> [e \in Entity |-> /\ Media!Wants(draft, e)
                                    /\ asset[<<e, draft[e].asset>>] = "verified_public"],
        todo |-> {e \in Entity : /\ enabled /\ Media!Wants(draft, e)
                                 /\ Media!worldEntityMediaCanBecomePublic(draft[e])}]
  OBVIOUS
<1>4. pub' = [pub EXCEPT ![p] = r]
  BY <1>3 DEF Media!prepareWorldEntityMediaForPublish
<1>5. r \in PublicationRecord
  <2>1. [e \in Entity |-> /\ Media!Wants(draft, e)
                          /\ asset[<<e, draft[e].asset>>] = "verified_public"]
          \in [Entity -> BOOLEAN]
    BY DEF Media!Wants
  <2> QED BY <1>1, <1>3, <2>1 DEF PublicationRecord, MediaInv, MediaTyped
<1>6. ~enabled => \A e \in Entity : draft[e].asset = Media!Unset
  BY DEF Media!prepareWorldEntityMediaForPublish, Media!worldEntityMediaDraftHasIntent
<1>7. PublicationKept(r)
  BY <1>1, <1>3, <1>6 DEF PublicationKept
<1>8. PublicationKept(r)'
  BY <1>2, <1>7 DEF PublicationKept, DraftKept, Registered, Media!Wants, Media!Unset
<1> QED BY <1>2, <1>4, <1>5, <1>8, StoresStay, PublicationStep

\* What is wanted of a publication is a portrait that is registered.
LEMMA TodoRegistered ==
  ASSUME MediaInv, NEW p \in Publisher, pub[p] # Nil, NEW e \in pub[p].todo
  PROVE  /\ pub[p].media /\ e \in Entity /\ pub[p].seen[e].asset \in File
         /\ Media!Seen(p, e) = <<e, pub[p].seen[e].asset>> /\ Media!Seen(p, e) \in Media!Key
         /\ Registered(Media!Seen(p, e))
<1>1. e \in Entity /\ Media!Wants(pub[p].seen, e) /\ pub[p].media /\ DraftKept(pub[p].seen)
  BY PublicationFields DEF PublicationKept
<1>2. pub[p].seen[e].asset \in File
  BY <1>1 DEF Media!Wants
<1> QED BY <1>1, <1>2 DEF DraftKept, Media!Seen, Media!Key

\* A portrait that is public for everybody already is left.
LEMMA MediaKnown ==
  ASSUME MediaInv, NEW p \in Publisher, NEW e \in Entity, Media!Known(p, e),
         UNCHANGED <<enabled, token, draft, upload, staged, binding, wanted>>
  PROVE  MediaInv'
<1>1. pub[p] # Nil /\ pub[p].phase = "next" /\ UNCHANGED <<public, asset>>
  BY DEF Media!Known, Media!At
<1>2. PICK r : r = [pub[p] EXCEPT !.todo = @ \ {e}]
  OBVIOUS
<1>3. pub' = [pub EXCEPT ![p] = r]
  BY <1>2 DEF Media!Known
<1>4. r \in PublicationRecord
  BY <1>1, <1>2, PublicationFields DEF PublicationRecord
<1>5. /\ r.media = pub[p].media /\ r.seen = pub[p].seen /\ r.todo = pub[p].todo \ {e}
      /\ r.phase = "next"
  BY <1>1, <1>2, PublicationFields DEF PublicationRecord
<1>6. PublicationKept(r)
  BY <1>1, <1>5, PublicationFields DEF PublicationKept
<1>7. PublicationKept(r)'
  BY <1>1, <1>6 DEF PublicationKept, DraftKept, Registered, Media!Wants, Media!Unset
<1> QED BY <1>1, <1>3, <1>4, <1>7, StoresStay, PublicationStep

\* The bytes that are put are registered and staged.
LEMMA MediaPromote ==
  ASSUME MediaInv, NEW p \in Publisher, NEW e \in Entity, Media!Promote(p, e),
         UNCHANGED <<enabled, token, draft, upload, staged, binding, wanted>>
  PROVE  MediaInv'
<1>1. /\ pub[p] # Nil /\ e \in pub[p].todo /\ Media!Seen(p, e) \in staged
      /\ public' = public \cup {Media!Seen(p, e)} /\ UNCHANGED asset
  BY DEF Media!Promote, Media!At
<1>2. PICK r : r = [pub[p] EXCEPT !.phase = "put", !.at = e]
  OBVIOUS
<1>3. pub' = [pub EXCEPT ![p] = r]
  BY <1>2 DEF Media!Promote
<1>4. /\ r \in PublicationRecord
      /\ r.media = pub[p].media /\ r.seen = pub[p].seen /\ r.todo = pub[p].todo
      /\ r.phase = "put" /\ r.at = e
  BY <1>1, <1>2, PublicationFields DEF PublicationRecord
<1>5. PublicationKept(r)
  BY <1>1, <1>4, PublicationFields DEF PublicationKept
<1>6. Grows /\ StoresKept'
  <2>1. StoresKept
    BY DEF MediaInv, MediaTyped, MediaKept, StoresKept
  <2>2. asset[Media!Seen(p, e)] # Nil
    BY <1>1, TodoRegistered DEF Registered
  <2>3. Media!PublicIsVerified'
    BY <1>1, <2>1, <2>2 DEF StoresKept, Media!PublicIsVerified
  <2> QED BY <1>1, <2>1, <2>3
      DEF Grows, StoresKept, RowsKept, Registered, Media!Key, Status
<1>7. PublicationKept(r)'
  BY <1>4, <1>5, <1>6, MediaGrows
<1> QED BY <1>3, <1>4, <1>6, <1>7, PublicationStep

\* What is fetched is what was put.
LEMMA MediaDelivered ==
  ASSUME MediaInv, NEW p \in Publisher, Media!Delivered(p),
         UNCHANGED <<enabled, token, draft, upload, staged, binding, wanted>>
  PROVE  MediaInv'
<1>1. /\ pub[p] # Nil /\ pub[p].phase = "put" /\ Media!Seen(p, pub[p].at) \in public
      /\ UNCHANGED <<public, asset>>
  BY DEF Media!Delivered, Media!At
<1>2. PICK r : r = [pub[p] EXCEPT !.phase = "delivered"]
  OBVIOUS
<1>3. pub' = [pub EXCEPT ![p] = r]
  BY <1>2 DEF Media!Delivered
<1>4. /\ r \in PublicationRecord
      /\ r.media = pub[p].media /\ r.seen = pub[p].seen /\ r.todo = pub[p].todo
      /\ r.at = pub[p].at
  BY <1>1, <1>2, PublicationFields DEF PublicationRecord
<1>5. PublicationKept(r)
  BY <1>1, <1>4, PublicationFields DEF PublicationKept, Media!Seen
<1>6. PublicationKept(r)'
  BY <1>1, <1>5 DEF PublicationKept, DraftKept, Registered, Media!Wants, Media!Unset
<1> QED BY <1>1, <1>3, <1>4, <1>6, StoresStay, PublicationStep

\* The row says so of what was put and fetched.
LEMMA MediaVerify ==
  ASSUME MediaInstance, MediaInv, NEW p \in Publisher, Media!Verify(p),
         UNCHANGED <<enabled, token, draft, upload, staged, binding, wanted>>
  PROVE  MediaInv'
<1> DEFINE k == Media!Seen(p, pub[p].at)
<1>1. /\ pub[p] # Nil /\ pub[p].phase = "delivered"
      /\ asset' = [asset EXCEPT ![k] = "verified_public"] /\ UNCHANGED public
  BY DEF Media!Verify, Media!At
<1>2. pub[p].at \in pub[p].todo /\ k \in public
  BY <1>1, PublicationFields DEF PublicationKept, Media!Seen
<1>3. k \in Media!Key /\ Registered(k)
  BY <1>1, <1>2, TodoRegistered
<1>4. PICK r : r = [pub[p] EXCEPT !.phase = "next", !.at = Nil, !.todo = @ \ {pub[p].at}]
  OBVIOUS
<1>5. pub' = [pub EXCEPT ![p] = r]
  BY <1>4 DEF Media!Verify
<1>6. /\ r \in PublicationRecord
      /\ r.media = pub[p].media /\ r.seen = pub[p].seen /\ r.todo = pub[p].todo \ {pub[p].at}
      /\ r.phase = "next"
  BY <1>1, <1>4, PublicationFields DEF PublicationRecord
<1>7. PublicationKept(r)
  BY <1>1, <1>6, PublicationFields DEF PublicationKept
<1> HIDE DEF k
<1>8. Grows /\ StoresKept'
  <2>1. StoresKept
    BY DEF MediaInv, MediaTyped, MediaKept, StoresKept
  <2>2. asset' \in [Media!Key -> Status] /\ asset'[k] # Nil
    BY <1>1, <1>3, <2>1 DEF StoresKept, Status, MediaInstance
  <2>3. \A x \in Media!Key : x # k => asset'[x] = asset[x]
    BY <1>1, <2>1 DEF StoresKept
  <2>4. Grows
    BY <1>1, <2>2, <2>3 DEF Grows, Registered
  <2>5. RowsKept'
    <3>1. ASSUME NEW x \in Media!Key, asset'[x] # Nil
          PROVE  x \in staged /\ (asset'[x] = "verified_public" => x \in public)
      BY <1>2, <1>3, <2>1, <2>3, <3>1 DEF StoresKept, RowsKept, Registered
    <3> QED BY <1>1, <3>1 DEF RowsKept, Registered, Media!Key
  <2>6. Media!PublicIsVerified'
    BY <1>1, <2>1, <2>2 DEF StoresKept, Media!PublicIsVerified
  <2> QED BY <2>2, <2>4, <2>5, <2>6 DEF StoresKept, Media!Key, Status
<1>9. PublicationKept(r)'
  BY <1>6, <1>7, <1>8, MediaGrows
<1> QED BY <1>5, <1>6, <1>8, <1>9, PublicationStep

\* A publication ends and what it did stays.
LEMMA MediaEnds ==
  ASSUME MediaInv, NEW p \in Publisher, Media!failPublish(p) \/ Media!Refused(p)
  PROVE  MediaInv'
<1>1. /\ pub' = [pub EXCEPT ![p] = Nil]
      /\ UNCHANGED <<enabled, token, draft, upload, staged, public, asset, binding, wanted>>
  BY DEF Media!failPublish, Media!Refused, Media!stores, Media!graph
<1> QED BY <1>1, StoresStay, PublicationStep

\* The transaction binds what the draft wants now, and all of it is registered.
LEMMA MediaBinds ==
  ASSUME MediaInstance, MediaInv, NEW p \in Publisher,
         Media!publish_world_edit_state_with_media_atomic(p)
  PROVE  MediaInv'
<1> DEFINE s == pub[p].seen
<1>1. /\ pub[p] # Nil /\ draft # Nil
      /\ pub[p].media => Media!MediaValid(s)
      /\ binding' = IF pub[p].media THEN Media!Bound(s, binding) ELSE binding
      /\ wanted' = Media!Bound(IF pub[p].media THEN draft ELSE s, wanted)
      /\ draft' = Nil /\ pub' = [pub EXCEPT ![p] = Nil]
      /\ UNCHANGED <<enabled, token, upload, staged, public, asset>>
  BY DEF Media!publish_world_edit_state_with_media_atomic, Media!At, Media!stores
<1>2. /\ s \in Media!Draft /\ draft \in Media!Draft
      /\ \A e \in Entity : s[e].asset \in File \cup {Nil, Media!Unset}
  BY <1>1, PublicationFields DEF MediaInv, MediaTyped, Media!Draft, Media!Node
<1>3. PublicationKept(pub[p]) /\ pub[p].media \in BOOLEAN
  BY <1>1, PublicationFields
<1>4. /\ binding \in [Entity -> File \cup {Nil}] /\ wanted \in [Entity -> File \cup {Nil}]
      /\ \A e \in Entity : binding[e] = wanted[e]
  BY DEF MediaInv, MediaTyped, Media!BoundAsDrafted
<1>5. \A e \in Entity :
        /\ binding'[e] = IF s[e].asset = Media!Unset THEN binding[e] ELSE s[e].asset
        /\ wanted'[e] = binding'[e]
  <2>1. CASE pub[p].media
    <3>1. \A e \in Entity : s[e].asset = draft[e].asset
      BY <1>1, <2>1 DEF Media!MediaValid, Media!BindingsChecked
    <3> QED BY <1>1, <1>4, <2>1, <3>1 DEF Media!Bound
  <2>2. CASE ~pub[p].media
    <3>1. \A e \in Entity : s[e].asset = Media!Unset
      BY <1>3, <2>2 DEF PublicationKept
    <3> QED BY <1>1, <1>4, <2>2, <3>1 DEF Media!Bound
  <2> QED BY <1>3, <2>1, <2>2
<1>6. DOMAIN binding' = Entity /\ DOMAIN wanted' = Entity
  BY <1>1, <1>4 DEF Media!Bound
<1>7. binding' \in [Entity -> File \cup {Nil}] /\ wanted' \in [Entity -> File \cup {Nil}]
  <2>1. \A e \in Entity : binding'[e] \in File \cup {Nil} /\ wanted'[e] \in File \cup {Nil}
    BY <1>2, <1>4, <1>5
  <2>2. binding' = [e \in Entity |-> binding'[e]] /\ wanted' = [e \in Entity |-> wanted'[e]]
    BY <1>1, <1>4 DEF Media!Bound
  <2> QED BY <2>1, <2>2
<1>8. BindingsKept'
  <2>1. SUFFICES ASSUME NEW e \in Entity, binding'[e] \in File
                 PROVE  asset'[<<e, binding'[e]>>] # Nil
    BY DEF BindingsKept, Registered
  <2>2. CASE binding'[e] = binding[e]
    BY <1>1, <2>1, <2>2 DEF MediaInv, MediaKept, BindingsKept, Registered
  <2>3. CASE binding'[e] = s[e].asset /\ s[e].asset # Media!Unset
    <3>1. pub[p].media /\ Media!Wants(s, e)
      BY <1>3, <2>1, <2>3 DEF PublicationKept, Media!Wants
    <3> QED BY <1>1, <1>3, <2>3, <3>1 DEF PublicationKept, DraftKept, Registered
  <2> QED BY <1>5, <2>2, <2>3
<1>9. Media!BoundAsDrafted'
  BY <1>5 DEF Media!BoundAsDrafted
<1>10. MediaTyped'
  <2>1. Finalizing' = Finalizing /\ PublicationRecord' = PublicationRecord /\ Media!Key' = Media!Key
    BY DEF Finalizing, PublicationRecord, Media!Draft, Media!Node, Media!Unset, Media!Key
  <2>2. DOMAIN pub' = Publisher /\ \A q \in Publisher : pub'[q] # Nil => pub'[q] = pub[q]
    BY <1>1 DEF MediaInv, MediaTyped
  <2> QED BY <1>1, <1>7, <2>1, <2>2 DEF MediaInv, MediaTyped, Status
<1>11. MediaKept'
  <2>1. \A u \in Upload : upload'[u] # Nil => UploadKept(upload[u])'
    BY <1>1 DEF MediaInv, MediaKept, UploadKept, Registered
  <2>2. \A q \in Publisher : pub'[q] # Nil => pub[q] # Nil /\ pub'[q] = pub[q]
    BY <1>1 DEF MediaInv, MediaTyped
  <2>3. \A q \in Publisher : pub'[q] # Nil => PublicationKept(pub[q])'
    BY <1>1, <2>2
      DEF MediaInv, MediaKept, PublicationKept, DraftKept, Registered, Media!Wants, Media!Unset
  <2>4. RowsKept'
    BY <1>1 DEF MediaInv, MediaKept, RowsKept, Registered, Media!Key
  <2> QED BY <1>1, <1>8, <2>1, <2>3, <2>4 DEF MediaKept
<1> QED BY <1>1, <1>9, <1>10, <1>11 DEF MediaInv, Media!PublicIsVerified

-----------------------------------------------------------------------------
(* EntityMedia: the theorems. *)
LEMMA MediaNext ==
  ASSUME MediaInstance, MediaInv, [Media!Next]_(Media!vars)
  PROVE  MediaInv'
<1>1. CASE UNCHANGED Media!vars
  BY <1>1, MediaStays DEF Media!vars
<1>2. CASE Media!Start
  <2>1. ASSUME NEW u \in Upload, NEW e \in Entity, NEW f \in File,
               Media!requestWorldEntityPortraitUploadAction(u, e, f)
        PROVE  MediaInv'
    BY <2>1, MediaRequest
  <2>2. ASSUME NEW u \in Upload, Media!UploadFails(u) PROVE MediaInv'
    BY <2>2, MediaUploadFails
  <2>3. ASSUME NEW e \in Entity, Media!Edit(e) PROVE MediaInv'
    BY <2>3, MediaEdit
  <2>4. ASSUME NEW p \in Publisher, Media!prepareWorldEntityMediaForPublish(p) PROVE MediaInv'
    BY <2>4, MediaPrepare
  <2>5. ASSUME NEW p \in Publisher, Media!failPublish(p) PROVE MediaInv'
    BY <2>5, MediaEnds
  <2> QED BY <1>2, <2>1, <2>2, <2>3, <2>4, <2>5, MediaLease, MediaSwitch DEF Media!Start
<1>3. CASE Media!Step
  <2>1. ASSUME NEW u \in Upload,
               \/ Media!SendPart(u) \/ Media!finalizeWorldEntityPortraitUploadAction(u)
               \/ Media!ReadParts(u) \/ Media!Put(u) \/ Media!Persist(u) \/ Media!Uploaded(u)
        PROVE  MediaInv'
    BY <2>1, MediaSendPart, MediaFinalize, MediaReadParts, MediaPut, MediaPersist, MediaUploaded
  <2>2. ASSUME NEW p \in Publisher, Media!promoteWorldEntityPortrait(p) PROVE MediaInv'
    <3>1. UNCHANGED <<enabled, token, draft, upload, staged, binding, wanted>>
      BY <2>2 DEF Media!promoteWorldEntityPortrait, Media!graph
    <3> QED BY <2>2, <3>1, MediaKnown, MediaPromote, MediaDelivered, MediaVerify
        DEF Media!promoteWorldEntityPortrait
  <2>3. ASSUME NEW p \in Publisher, Media!publish_world_edit_state_with_media_atomic(p)
        PROVE  MediaInv'
    BY <2>3, MediaBinds
  <2>4. ASSUME NEW p \in Publisher, Media!Refused(p) PROVE MediaInv'
    BY <2>4, MediaEnds
  <2> QED BY <1>3, <2>1, <2>2, <2>3, <2>4 DEF Media!Step
<1> QED BY <1>1, <1>2, <1>3 DEF Media!Next

(* The strengthening that the properties of the portraits need: every row  *)
(* has its object, and what an upload, a draft, a publication or a binding *)
(* names has its row, at every step of each.                               *)
THEOREM MediaInvariant ==
  ASSUME MediaInstance
  PROVE  Media!Spec => []MediaInv
<1>1. Media!Init => MediaInv
  BY MediaInit
<1>2. MediaInv /\ [Media!Next]_(Media!vars) => MediaInv'
  BY MediaNext
<1> QED BY <1>1, <1>2, PTL DEF Media!Spec

(* A draft never names a portrait its editors cannot see, and a portrait   *)
(* readers are sent to is there, whatever was left half done.              *)
THEOREM PortraitsAreThere ==
  ASSUME MediaInstance
  PROVE  Media!Spec => []Media!PortraitsAreThere
<1>1. ASSUME MediaInv PROVE Media!PortraitsAreThere
  <2>1. ASSUME draft # Nil, NEW e \in Entity, Media!Wants(draft, e)
        PROVE  Media!Preview(e, draft[e].asset)
    <3>1. <<e, draft[e].asset>> \in Media!Key
      BY <2>1 DEF Media!Key, Media!Wants
    <3> QED BY <1>1, <2>1, <3>1
        DEF MediaInv, MediaKept, DraftKept, RowsKept, Registered, Media!Preview
  <2>2. ASSUME NEW e \in Entity, Media!Presented(e) PROVE <<e, binding[e]>> \in public
    <3>1. <<e, binding[e]>> \in Media!Key
      BY <2>2 DEF Media!Key, Media!Presented
    <3> QED BY <1>1, <2>2, <3>1
        DEF MediaInv, MediaKept, BindingsKept, RowsKept, Registered, Media!Presented,
          Media!worldEntityPublicMediaUrl
  <2> QED BY <2>1, <2>2 DEF Media!PortraitsAreThere
<1> QED BY <1>1, MediaInvariant, PTL

(* What is bound is what the draft that was published wanted, and no byte  *)
(* is put where everybody can fetch it before it was registered.           *)
THEOREM PortraitsAreWanted ==
  ASSUME MediaInstance
  PROVE  Media!Spec => [](Media!BoundAsDrafted /\ Media!PublicIsVerified)
<1>1. MediaInv => Media!BoundAsDrafted /\ Media!PublicIsVerified
  BY DEF MediaInv
<1> QED BY <1>1, MediaInvariant, PTL

-----------------------------------------------------------------------------
(* WorldAuthoring *)
CONSTANTS Node, New, Edge, Pair, Narrow, MaxAct
VARIABLES session, saved, published, ui, compose, candidate, look, overrides, shell, acts

Authoring == INSTANCE WorldAuthoring WITH MaxOp <- MaxAct, ops <- acts

(* What is related at first may be drawn, and no place is the visitor.     *)
AuthoringInstance == Edge \subseteq Pair /\ Nil # "visitor"

SessionRecord == [state : {"view", "acquiring", "editing", "publishing"}, dirty : BOOLEAN,
                  nodes : SUBSET Authoring!All, edges : SUBSET Pair]
UiRecord == [tool : {"select", "create", "connect"}, minimal : BOOLEAN,
             inspector : {"closed", "overlay", "docked"}, palette : BOOLEAN]
ComposeRecord == [type : BOOLEAN, point : BOOLEAN, name : BOOLEAN, picker : BOOLEAN]
LookRecord == [narrow : SUBSET DOMAIN Narrow, selected : Authoring!All \cup {Nil},
               list : BOOLEAN]

CanvasTyped ==
  /\ session \in SessionRecord /\ ui \in UiRecord /\ compose \in ComposeRecord
  /\ candidate \in Pair \cup {Nil} /\ look \in LookRecord
LayoutsTyped ==
  /\ saved \in Authoring!Content /\ published \in Authoring!Content
  /\ overrides \in Authoring!Layout

(* What a visitor moved is drawn over the published places outside of a    *)
(* session only: a session starts from what its lease saved.               *)
Unvisited(l) == \A n \in Authoring!All : l[n] # "visitor"
LayoutsLocal ==
  /\ Unvisited(saved.layout) /\ Unvisited(published.layout)
  /\ Authoring!editing => Unvisited(overrides)

AuthoringInv ==
  /\ CanvasTyped /\ LayoutsTyped /\ LayoutsLocal /\ Authoring!ToolOwnsItsDraft

(* What a step may make of the canvas; the composer drops by itself a name *)
(* that is no longer on the canvas.                                        *)
Fits(s, u, c, p, l) ==
  /\ s \in SessionRecord /\ u \in UiRecord /\ c \in ComposeRecord
  /\ p \in Pair \cup {Nil} /\ l \in LookRecord
  /\ u.tool = "create" <=> c.type
  /\ c.point => c.type
  /\ p # Nil => u.tool = "connect"
  /\ u.tool # "select" => s.state \in {"editing", "publishing"}

\* A selection out of sight is dropped, and nothing else of the view.
LEMMA ViewKept ==
  ASSUME NEW s, NEW l \in LookRecord
  PROVE  /\ Authoring!useWorldExplorerView(s, l) \in LookRecord
         /\ Authoring!useWorldExplorerView(s, l).list = l.list
BY DEF Authoring!useWorldExplorerView, Authoring!Selects, LookRecord

\* The effects that run with a step leave nothing half composed.
LEMMA BecomesFits ==
  ASSUME NEW s, NEW u, NEW c, NEW p, NEW l, Fits(s, u, c, p, l),
         Authoring!Becomes(s, u, c, p, l)
  PROVE  CanvasTyped' /\ Authoring!ToolOwnsItsDraft' /\ session' = s
<1>1. session' = s /\ ui' = u /\ candidate' = p
  BY DEF Authoring!Becomes
<1>2. look' \in LookRecord /\ look'.list = l.list
  BY ViewKept DEF Authoring!Becomes, Fits
<1>3. compose' = IF Authoring!ControlsShown(s, u, look') THEN [c EXCEPT !.name = @ /\ c.point]
                 ELSE [c EXCEPT !.name = FALSE, !.picker = FALSE]
  BY DEF Authoring!Becomes, Authoring!WorldDirectCreateControls
<1>4. /\ compose' \in ComposeRecord
      /\ compose'.type = c.type /\ compose'.point = c.point
      /\ compose'.name => c.point /\ Authoring!ControlsShown(s, u, look')
  <2>1. c \in ComposeRecord
    BY DEF Fits
  <2>2. CASE Authoring!ControlsShown(s, u, look')
    BY <1>3, <2>1, <2>2 DEF ComposeRecord
  <2>3. CASE ~Authoring!ControlsShown(s, u, look')
    BY <1>3, <2>1, <2>3 DEF ComposeRecord
  <2> QED BY <2>2, <2>3
<1>5. CanvasTyped'
  <2>1. /\ SessionRecord' = SessionRecord /\ UiRecord' = UiRecord
        /\ ComposeRecord' = ComposeRecord /\ LookRecord' = LookRecord
    BY DEF SessionRecord, UiRecord, ComposeRecord, LookRecord, Authoring!All
  <2> QED BY <1>1, <1>2, <1>4, <2>1 DEF CanvasTyped, Fits
<1>6. Authoring!ToolOwnsItsDraft'
  BY <1>1, <1>2, <1>4 DEF Fits, Authoring!ToolOwnsItsDraft, Authoring!ControlsShown,
    Authoring!directCreateEnabled, Authoring!AuthoringPanelVisible, Authoring!editing
<1> QED BY <1>1, <1>5, <1>6

\* The canvas as it is fits.
LEMMA CanvasFits ==
  ASSUME AuthoringInv
  PROVE  Fits(session, ui, compose, candidate, look)
BY DEF AuthoringInv, CanvasTyped, Authoring!ToolOwnsItsDraft, Authoring!editing, Fits

\* A step that changes nothing of what is saved or placed.
LEMMA ShowsFits ==
  ASSUME AuthoringInv, NEW u, NEW c, NEW p, NEW l, Fits(session, u, c, p, l),
         Authoring!Shows(u, c, p, l)
  PROVE  AuthoringInv'
<1>1. /\ Authoring!Becomes(session, u, c, p, l)
      /\ UNCHANGED <<saved, published, overrides>>
  BY DEF Authoring!Shows
<1>2. CanvasTyped' /\ Authoring!ToolOwnsItsDraft' /\ session' = session
  BY <1>1, BecomesFits
<1>3. LayoutsTyped' /\ LayoutsLocal'
  BY <1>1, <1>2 DEF AuthoringInv, LayoutsTyped, LayoutsLocal, Unvisited, Authoring!editing,
    Authoring!Content, Authoring!Layout, Authoring!All, Authoring!Placed
<1> QED BY <1>2, <1>3 DEF AuthoringInv

\* What a session saves is what it placed, over what is published.
LEMMA SavesKept ==
  ASSUME AuthoringInstance, AuthoringInv, NEW s \in SessionRecord,
         NEW o \in Authoring!Layout,
         session.state = "editing" => Unvisited(o), Authoring!Saves(s, o)
  PROVE  saved' \in Authoring!Content /\ Unvisited(saved'.layout)
<1>1. saved \in Authoring!Content /\ Unvisited(saved.layout)
  BY DEF AuthoringInv, LayoutsTyped, LayoutsLocal
<1>2. published.layout \in Authoring!Layout /\ Unvisited(published.layout)
  BY DEF AuthoringInv, LayoutsTyped, LayoutsLocal, Authoring!Content
<1>3. CASE session.state # "editing"
  BY <1>1, <1>3 DEF Authoring!Saves
<1>4. CASE session.state = "editing"
  <2>1. Authoring!layoutCandidateFor(o) \in Authoring!Layout
    BY <1>2 DEF Authoring!layoutCandidateFor, Authoring!Layout
  <2>2. Unvisited(Authoring!layoutCandidateFor(o))
    BY <1>2, <1>4 DEF Authoring!layoutCandidateFor, Unvisited
  <2>3. saved' = [layout |-> Authoring!layoutCandidateFor(o), nodes |-> s.nodes,
                  edges |-> s.edges]
    BY <1>4 DEF Authoring!Saves
  <2> QED BY <2>1, <2>2, <2>3 DEF SessionRecord, Authoring!Content
<1> QED BY <1>3, <1>4

\* A step of a session that is saved with it.
LEMMA SavedStep ==
  ASSUME AuthoringInstance, AuthoringInv,
         NEW s, NEW u, NEW c, NEW p, NEW l, Fits(s, u, c, p, l),
         Authoring!Becomes(s, u, c, p, l), s.state = session.state,
         NEW o \in Authoring!Layout, overrides' = o,
         Authoring!editing => Unvisited(o),
         Authoring!Saves(s, o), UNCHANGED published
  PROVE  AuthoringInv'
<1>1. CanvasTyped' /\ Authoring!ToolOwnsItsDraft' /\ session' = s
  BY BecomesFits
<1>2. saved' \in Authoring!Content /\ Unvisited(saved'.layout)
  BY SavesKept DEF Fits, Authoring!editing
<1>3. LayoutsTyped'
  BY <1>2 DEF AuthoringInv, LayoutsTyped, Authoring!Content, Authoring!Layout, Authoring!All,
    Authoring!Placed
<1>4. LayoutsLocal'
  BY <1>1, <1>2 DEF AuthoringInv, LayoutsLocal, Unvisited, Authoring!editing, Authoring!All
<1> QED BY <1>1, <1>3, <1>4 DEF AuthoringInv

\* No node placed.
LEMMA NothingPlaced ==
  ASSUME AuthoringInstance
  PROVE  Authoring!NoLayout \in Authoring!Layout /\ Unvisited(Authoring!NoLayout)
BY DEF AuthoringInstance, Authoring!NoLayout, Authoring!Layout, Unvisited

\* A session that is over leaves the first tool and nothing composed.
LEMMA StoppedFits ==
  ASSUME AuthoringInstance, AuthoringInv, NEW content \in Authoring!Content,
         Unvisited(content.layout), Authoring!Stopped(content),
         saved' \in Authoring!Content, Unvisited(saved'.layout),
         overrides' \in Authoring!Layout
  PROVE  AuthoringInv'
<1> DEFINE s == [state |-> "view", dirty |-> FALSE, nodes |-> content.nodes,
                 edges |-> content.edges]
           u == Authoring!authoringStopped(ui)
<1>1. Fits(s, u, Authoring!NoCompose, Nil, look)
  BY DEF Fits, AuthoringInv, CanvasTyped, SessionRecord, UiRecord, ComposeRecord,
    Authoring!Content, Authoring!NoCompose, Authoring!authoringStopped,
    Authoring!createWorldAuthoringUiState
<1>2. /\ Authoring!Becomes(s, u, Authoring!NoCompose, Nil, look)
      /\ published' = content
  BY DEF Authoring!Stopped
<1>3. PICK s1, u1, c1 : s1 = s /\ u1 = u /\ c1 = Authoring!NoCompose
  OBVIOUS
<1> HIDE DEF s, u
<1>4. CanvasTyped' /\ Authoring!ToolOwnsItsDraft' /\ session' = s
  BY <1>1, <1>2, <1>3, BecomesFits
<1>5. ~Authoring!editing'
  BY <1>4 DEF s, Authoring!editing
<1>6. LayoutsTyped'
  BY <1>2 DEF LayoutsTyped, Authoring!Content, Authoring!Layout, Authoring!All,
    Authoring!Placed
<1>7. LayoutsLocal'
  BY <1>2, <1>5 DEF LayoutsLocal, Unvisited, Authoring!All
<1> QED BY <1>4, <1>6, <1>7 DEF AuthoringInv

-----------------------------------------------------------------------------
(* WorldAuthoring: the session. *)
LEMMA StaysFits ==
  ASSUME AuthoringInv, NEW st \in {"view", "acquiring", "editing", "publishing"},
         NEW u \in UiRecord, u.tool = ui.tool,
         ui.tool # "select" => st \in {"editing", "publishing"},
         Authoring!Stays(st, u)
  PROVE  CanvasTyped' /\ Authoring!ToolOwnsItsDraft' /\ session'.state = st
<1>1. PICK s : s = [session EXCEPT !.state = st]
  OBVIOUS
<1>2. s \in SessionRecord /\ s.state = st
  BY <1>1 DEF AuthoringInv, CanvasTyped, SessionRecord
<1>3. Fits(s, u, compose, candidate, look)
  BY <1>2, CanvasFits DEF Fits
<1>4. Authoring!Becomes(s, u, compose, candidate, look)
  BY <1>1 DEF Authoring!Stays
<1> QED BY <1>2, <1>3, <1>4, BecomesFits

LEMMA AuthoringTyped ==
  ASSUME AuthoringInv
  PROVE  /\ session \in SessionRecord /\ ui \in UiRecord /\ compose \in ComposeRecord
         /\ candidate \in Pair \cup {Nil} /\ look \in LookRecord
         /\ saved \in Authoring!Content /\ published \in Authoring!Content
         /\ overrides \in Authoring!Layout
         /\ Unvisited(saved.layout) /\ Unvisited(published.layout)
BY DEF AuthoringInv, CanvasTyped, LayoutsTyped, LayoutsLocal

\* A layout stays what it is.
LEMMA LayoutsStay ==
  ASSUME AuthoringInv, UNCHANGED <<saved, published, overrides>>,
         Authoring!editing' => Authoring!editing
  PROVE  LayoutsTyped' /\ LayoutsLocal'
BY DEF AuthoringInv, LayoutsTyped, LayoutsLocal, Unvisited,
  Authoring!Content, Authoring!Layout, Authoring!All, Authoring!Placed

LEMMA AuthoringStart ==
  ASSUME AuthoringInv, Authoring!start
  PROVE  AuthoringInv'
<1>1. session.state = "view" /\ Authoring!Stays("acquiring", ui)
  BY DEF Authoring!start, Authoring!worldCommandIsAvailable
<1>2. ui.tool = "select"
  BY <1>1 DEF AuthoringInv, Authoring!ToolOwnsItsDraft, Authoring!editing
<1>3. CanvasTyped' /\ Authoring!ToolOwnsItsDraft' /\ session'.state = "acquiring"
  BY <1>1, <1>2, StaysFits, AuthoringTyped
<1>4. LayoutsTyped' /\ LayoutsLocal'
  BY <1>3, LayoutsStay DEF Authoring!start, Authoring!editing
<1> QED BY <1>3, <1>4 DEF AuthoringInv

LEMMA AuthoringAcquired ==
  ASSUME AuthoringInv, Authoring!Acquired
  PROVE  AuthoringInv'
<1>1. session.state = "acquiring" /\ UNCHANGED <<saved, published>>
  BY DEF Authoring!Acquired
<1>2. ui.tool = "select" /\ ~compose.type /\ ~compose.point /\ candidate = Nil
  BY <1>1, AuthoringTyped DEF AuthoringInv, Authoring!ToolOwnsItsDraft, Authoring!editing,
    ComposeRecord
<1>3. CASE Authoring!Stays("view", ui) /\ UNCHANGED overrides
  <2>1. CanvasTyped' /\ Authoring!ToolOwnsItsDraft' /\ session'.state = "view"
    BY <1>2, <1>3, StaysFits, AuthoringTyped
  <2>2. LayoutsTyped' /\ LayoutsLocal'
    BY <1>1, <1>3, <2>1, LayoutsStay DEF Authoring!editing
  <2> QED BY <2>1, <2>2 DEF AuthoringInv
<1>4. CASE /\ overrides' = Authoring!onApplyLayoutDraft
           /\ Authoring!Becomes([state |-> "editing", dirty |-> saved # published,
                                 nodes |-> saved.nodes, edges |-> saved.edges],
                                Authoring!authoringStarted(ui), compose, candidate, look)
  <2>1. PICK s, u : /\ s = [state |-> "editing", dirty |-> saved # published,
                            nodes |-> saved.nodes, edges |-> saved.edges]
                    /\ u = Authoring!authoringStarted(ui)
    OBVIOUS
  <2>2. s \in SessionRecord
    <3>1. (saved # published) \in BOOLEAN
      OBVIOUS
    <3> QED BY <2>1, <3>1, AuthoringTyped DEF SessionRecord, Authoring!Content
  <2>3. u \in UiRecord /\ u.tool = "select"
    BY <2>1 DEF UiRecord, Authoring!authoringStarted
  <2>4. Fits(s, u, compose, candidate, look)
    BY <1>2, <2>2, <2>3, CanvasFits DEF Fits
  <2>5. CanvasTyped' /\ Authoring!ToolOwnsItsDraft'
    BY <1>4, <2>1, <2>4, BecomesFits
  <2>6. overrides' \in Authoring!Layout /\ Unvisited(overrides')
    BY <1>4, AuthoringTyped DEF Authoring!onApplyLayoutDraft, Authoring!Content
  <2>7. LayoutsTyped' /\ LayoutsLocal'
    BY <1>1, <2>6, AuthoringTyped DEF LayoutsTyped, LayoutsLocal, Unvisited, Authoring!Content,
      Authoring!Layout, Authoring!All, Authoring!Placed
  <2> QED BY <2>5, <2>7 DEF AuthoringInv
<1> QED BY <1>3, <1>4 DEF Authoring!Acquired

LEMMA AuthoringLost ==
  ASSUME AuthoringInstance, AuthoringInv, Authoring!markLeaseLost
  PROVE  AuthoringInv'
<1>1. Authoring!Stopped(published) /\ UNCHANGED <<saved, overrides>>
  BY DEF Authoring!markLeaseLost
<1>2. PICK content : content = published
  OBVIOUS
<1>3. saved' \in Authoring!Content /\ Unvisited(saved'.layout) /\ overrides' \in Authoring!Layout
  BY <1>1, AuthoringTyped
<1> QED BY <1>1, <1>2, <1>3, AuthoringTyped, StoppedFits

LEMMA AuthoringPublish ==
  ASSUME AuthoringInstance, AuthoringInv, NEW u \in UiRecord, u.tool = ui.tool,
         Authoring!publish(u)
  PROVE  AuthoringInv'
<1>1. /\ session.state = "editing" /\ Authoring!Saves(session, overrides)
      /\ Authoring!Stays("publishing", u) /\ UNCHANGED <<published, overrides>>
  BY DEF Authoring!publish, Authoring!worldCommandIsAvailable
<1>2. CanvasTyped' /\ Authoring!ToolOwnsItsDraft'
  BY <1>1, StaysFits
<1>3. saved' \in Authoring!Content /\ Unvisited(saved'.layout) /\ Unvisited(overrides)
  <2>1. Unvisited(overrides)
    BY <1>1 DEF AuthoringInv, LayoutsLocal, Authoring!editing
  <2> QED BY <1>1, <2>1, SavesKept, AuthoringTyped
<1>4. LayoutsTyped' /\ LayoutsLocal'
  BY <1>1, <1>3, AuthoringTyped DEF LayoutsTyped, LayoutsLocal, Unvisited, Authoring!Content,
    Authoring!Layout, Authoring!All, Authoring!Placed
<1> QED BY <1>2, <1>4 DEF AuthoringInv

LEMMA AuthoringPublished ==
  ASSUME AuthoringInstance, AuthoringInv, Authoring!completePublishedEdit
  PROVE  AuthoringInv'
<1>1. session.state = "publishing" /\ UNCHANGED <<saved, overrides>>
  BY DEF Authoring!completePublishedEdit
<1>2. CASE Authoring!Stopped(saved)
  <2>1. saved' \in Authoring!Content /\ Unvisited(saved'.layout) /\ overrides' \in Authoring!Layout
    BY <1>1, AuthoringTyped
  <2> QED BY <1>2, <2>1, AuthoringTyped, StoppedFits
<1>3. CASE Authoring!Stays("editing", ui) /\ UNCHANGED published
  <2>1. CanvasTyped' /\ Authoring!ToolOwnsItsDraft'
    BY <1>3, StaysFits, AuthoringTyped
  <2>2. LayoutsTyped' /\ LayoutsLocal'
    BY <1>1, <1>3, LayoutsStay DEF Authoring!editing
  <2> QED BY <2>1, <2>2 DEF AuthoringInv
<1> QED BY <1>2, <1>3 DEF Authoring!completePublishedEdit

LEMMA AuthoringRelease ==
  ASSUME AuthoringInstance, AuthoringInv, Authoring!release
  PROVE  AuthoringInv'
<1>1. /\ saved' \in {saved, published} /\ overrides' = Authoring!NoLayout
      /\ Authoring!Stopped(published)
  BY DEF Authoring!release
<1>2. saved' \in Authoring!Content /\ Unvisited(saved'.layout) /\ overrides' \in Authoring!Layout
  BY <1>1, AuthoringTyped, NothingPlaced
<1> QED BY <1>1, <1>2, AuthoringTyped, StoppedFits

-----------------------------------------------------------------------------
(* WorldAuthoring: the tools.  What they need is that the panel is there.  *)
LEMMA ToolsAreThere ==
  ASSUME Authoring!directCreateEnabled
  PROVE  session.state = "editing" /\ Authoring!editing
BY DEF Authoring!directCreateEnabled, Authoring!AuthoringPanelVisible, Authoring!editing

\* The controls place an element only when no relation is being drawn.
LEMMA ControlsAlone ==
  ASSUME AuthoringInv, Authoring!Controls
  PROVE  session.state = "editing" /\ ui.tool # "connect" /\ candidate = Nil
BY DEF Authoring!Controls, Authoring!connectionActive, Authoring!relationAuthoringAvailable,
  Authoring!directCreateEnabled, Authoring!AuthoringPanelVisible, AuthoringInv,
  Authoring!ToolOwnsItsDraft

\* What the composers become.
LEMMA ComposeParts ==
  ASSUME AuthoringInv
  PROVE  /\ [compose EXCEPT !.picker = ~@] \in ComposeRecord
         /\ [compose EXCEPT !.picker = ~@].type = compose.type
         /\ [compose EXCEPT !.picker = ~@].point = compose.point
         /\ Authoring!Dropped \in ComposeRecord /\ Authoring!NoCompose \in ComposeRecord
         /\ ~Authoring!Dropped.type /\ ~Authoring!Dropped.point
         /\ ~Authoring!NoCompose.type /\ ~Authoring!NoCompose.point
         /\ [Authoring!NoCompose EXCEPT !.type = TRUE] \in ComposeRecord
         /\ [Authoring!NoCompose EXCEPT !.type = TRUE].type
         /\ ~[Authoring!NoCompose EXCEPT !.type = TRUE].point
BY AuthoringTyped DEF ComposeRecord, Authoring!NoCompose, Authoring!Dropped

\* What the tool becomes.
LEMMA ToolSet ==
  ASSUME NEW u \in UiRecord, NEW t \in {"select", "create", "connect"}
  PROVE  Authoring!setTool(u, t) \in UiRecord /\ Authoring!setTool(u, t).tool = t
BY DEF UiRecord, Authoring!setTool

\* What the selection becomes.
LEMMA SelectionSet ==
  ASSUME NEW l \in LookRecord, NEW n \in Authoring!All \cup {Nil}
  PROVE  Authoring!Selects(l, n) \in LookRecord
BY DEF LookRecord, Authoring!Selects

\* A step in which the tool stays in hand.
LEMMA ToolStays ==
  ASSUME AuthoringInv, NEW u \in UiRecord, u.tool = ui.tool,
         NEW c \in ComposeRecord, c.type = compose.type, c.point => c.type,
         NEW l \in LookRecord, Authoring!Shows(u, c, candidate, l)
  PROVE  AuthoringInv'
<1>1. Fits(session, u, c, candidate, l)
  BY CanvasFits DEF Fits
<1> QED BY <1>1, ShowsFits

LEMMA AuthoringPicker ==
  ASSUME AuthoringInv, Authoring!OpenPicker
  PROVE  AuthoringInv'
<1>1. PICK c : c = [compose EXCEPT !.picker = ~@]
  OBVIOUS
<1>2. Authoring!Shows(ui, c, candidate, look)
  BY <1>1 DEF Authoring!OpenPicker
<1>3. c \in ComposeRecord /\ c.type = compose.type /\ (c.point => c.type)
  BY <1>1, ComposeParts DEF AuthoringInv, Authoring!ToolOwnsItsDraft
<1> QED BY <1>2, <1>3, AuthoringTyped, ToolStays

LEMMA AuthoringCreate ==
  ASSUME AuthoringInv, Authoring!beginDirectCreate
  PROVE  AuthoringInv'
<1>1. PICK u, c, l : /\ u = Authoring!setTool(ui, "create")
                     /\ c = [Authoring!NoCompose EXCEPT !.type = TRUE]
                     /\ l = Authoring!Selects(look, Nil)
  OBVIOUS
<1>2. Authoring!Shows(u, c, Nil, l) /\ session.state = "editing"
  BY <1>1, ControlsAlone DEF Authoring!beginDirectCreate
<1>3. Fits(session, u, c, Nil, l)
  BY <1>1, <1>2, ToolSet, ComposeParts, SelectionSet, AuthoringTyped DEF Fits
<1> QED BY <1>2, <1>3, ShowsFits

LEMMA AuthoringCancel ==
  ASSUME AuthoringInv, Authoring!CancelPlacing
  PROVE  AuthoringInv'
<1>1. PICK u : u = Authoring!setTool(ui, "select")
  OBVIOUS
<1>2. PICK c \in {Authoring!NoCompose, Authoring!Dropped} :
        Authoring!Shows(u, c, candidate, look)
  BY <1>1 DEF Authoring!CancelPlacing
<1>3. candidate = Nil
  BY ControlsAlone DEF Authoring!CancelPlacing
<1>4. Fits(session, u, c, candidate, look)
  BY <1>1, <1>2, <1>3, ToolSet, ComposeParts, AuthoringTyped DEF Fits
<1> QED BY <1>2, <1>4, ShowsFits

LEMMA AuthoringName ==
  ASSUME AuthoringInv, Authoring!TypeName
  PROVE  AuthoringInv'
<1>1. PICK c : c = [compose EXCEPT !.name = TRUE]
  OBVIOUS
<1>2. Authoring!Shows(ui, c, candidate, look)
  BY <1>1 DEF Authoring!TypeName
<1>3. c \in ComposeRecord /\ c.type = compose.type /\ c.point = compose.point
  BY <1>1, AuthoringTyped DEF ComposeRecord
<1> QED BY <1>2, <1>3, AuthoringTyped, ToolStays DEF AuthoringInv, Authoring!ToolOwnsItsDraft

LEMMA AuthoringPane ==
  ASSUME AuthoringInv, Authoring!handleCanvasPaneClick
  PROVE  AuthoringInv'
<1>1. CASE compose.type /\ Authoring!Shows(ui, [compose EXCEPT !.point = TRUE], candidate, look)
  <2>1. PICK c : c = [compose EXCEPT !.point = TRUE]
    OBVIOUS
  <2>2. c \in ComposeRecord /\ c.type = compose.type
    BY <2>1, AuthoringTyped DEF ComposeRecord
  <2> QED BY <1>1, <2>1, <2>2, AuthoringTyped, ToolStays
<1>2. CASE Authoring!Shows(ui, compose, candidate, Authoring!Selects(look, Nil))
  <2>1. PICK l : l = Authoring!Selects(look, Nil)
    OBVIOUS
  <2>2. l \in LookRecord
    BY <2>1, SelectionSet, AuthoringTyped
  <2> QED BY <1>2, <2>1, <2>2, AuthoringTyped, ToolStays
      DEF AuthoringInv, Authoring!ToolOwnsItsDraft
<1> QED BY <1>1, <1>2 DEF Authoring!handleCanvasPaneClick

LEMMA AuthoringNode ==
  ASSUME AuthoringInstance, AuthoringInv, NEW n \in Authoring!All,
         Authoring!createDirectNode(n)
  PROVE  AuthoringInv'
<1>1. PICK s, u, l, o :
        /\ s = [session EXCEPT !.nodes = Authoring!appendWorldDraftNode(n), !.dirty = TRUE]
        /\ u = [Authoring!setTool(ui, "select") EXCEPT !.inspector = "overlay"]
        /\ l = [look EXCEPT !.narrow = @ \cap {"relation"}, !.selected = n]
        /\ o = [overrides EXCEPT ![n] = "editor"]
  OBVIOUS
<1>2. /\ Authoring!Becomes(s, u, Authoring!NoCompose, candidate, l)
      /\ overrides' = o /\ UNCHANGED published
      /\ session.state = "editing" /\ candidate = Nil
  BY <1>1, ControlsAlone DEF Authoring!createDirectNode
<1>3. s \in SessionRecord /\ s.state = session.state
  BY <1>1, AuthoringTyped DEF SessionRecord, Authoring!appendWorldDraftNode
<1>4. u \in UiRecord /\ u.tool = "select" /\ l \in LookRecord
  <2>1. u \in UiRecord /\ u.tool = "select"
    BY <1>1, ToolSet, AuthoringTyped DEF UiRecord
  <2>2. l \in LookRecord
    BY <1>1, AuthoringTyped DEF LookRecord
  <2> QED BY <2>1, <2>2
<1>5. Fits(s, u, Authoring!NoCompose, candidate, l)
  BY <1>2, <1>3, <1>4, ComposeParts, AuthoringTyped DEF Fits
<1>6. o \in Authoring!Layout /\ Unvisited(o)
  <2>1. overrides \in Authoring!Layout /\ Unvisited(overrides)
    BY <1>2, AuthoringTyped DEF AuthoringInv, LayoutsLocal, Authoring!editing
  <2> QED BY <1>1, <2>1 DEF Authoring!Layout, Authoring!Placed, Unvisited
<1>7. Authoring!Saves(s, o)
  <2>1. Authoring!Saves(session', overrides') /\ session' = s
    BY <1>2 DEF Authoring!createDirectNode, Authoring!Becomes
  <2> QED BY <1>2, <2>1 DEF Authoring!Saves, Authoring!layoutCandidateFor
<1> QED BY <1>2, <1>3, <1>5, <1>6, <1>7, SavedStep

-----------------------------------------------------------------------------
(* WorldAuthoring: relations. *)
LEMMA AuthoringConnect ==
  ASSUME AuthoringInv, Authoring!relationAuthoringAvailable,
         NEW u \in UiRecord, NEW n \in Authoring!All \cup {Nil},
         Authoring!beginConnectionFromNode(u, n)
  PROVE  AuthoringInv'
<1>1. PICK v, c, l : /\ v = Authoring!setTool(u, "connect") /\ c = Authoring!Dropped
                     /\ l = Authoring!Selects(look, n)
  OBVIOUS
<1>2. Authoring!Shows(v, c, Nil, l) /\ session.state = "editing"
  BY <1>1, ToolsAreThere DEF Authoring!beginConnectionFromNode,
    Authoring!relationAuthoringAvailable
<1>3. Fits(session, v, c, Nil, l)
  BY <1>1, <1>2, ToolSet, ComposeParts, SelectionSet, AuthoringTyped DEF Fits
<1> QED BY <1>2, <1>3, ShowsFits

\* While a relation is drawn no element is being placed.
LEMMA DrawnAlone ==
  ASSUME AuthoringInv, Authoring!connectionActive
  PROVE  session.state = "editing" /\ ui.tool = "connect" /\ compose.type = FALSE /\ ~compose.point
BY AuthoringTyped DEF Authoring!connectionActive, Authoring!relationAuthoringAvailable,
  Authoring!directCreateEnabled, Authoring!AuthoringPanelVisible, AuthoringInv,
  Authoring!ToolOwnsItsDraft, ComposeRecord

LEMMA AuthoringCapture ==
  ASSUME AuthoringInv, NEW p \in Pair, Authoring!captureRelationCandidate(p)
  PROVE  AuthoringInv'
<1>1. Authoring!connectionActive /\ Authoring!Shows(ui, compose, p, look)
  BY DEF Authoring!captureRelationCandidate, Authoring!relationConnectionIsValid
<1>2. Fits(session, ui, compose, p, look)
  BY <1>1, DrawnAlone, CanvasFits DEF Fits
<1> QED BY <1>1, <1>2, ShowsFits

\* A relation that is drawn, or drawn anew, ends the tool and is saved.
LEMMA RelationDrawn ==
  ASSUME AuthoringInstance, AuthoringInv, Authoring!connectionActive,
         NEW edges \in SUBSET Pair, NEW l \in LookRecord,
         Authoring!Becomes([session EXCEPT !.edges = edges, !.dirty = TRUE],
                           Authoring!setTool(ui, "select"), compose, Nil, l),
         Authoring!Saves(session', overrides), UNCHANGED <<published, overrides>>
  PROVE  AuthoringInv'
<1>1. PICK s, u : /\ s = [session EXCEPT !.edges = edges, !.dirty = TRUE]
                  /\ u = Authoring!setTool(ui, "select")
  OBVIOUS
<1>2. s \in SessionRecord /\ s.state = session.state
  BY <1>1, AuthoringTyped DEF SessionRecord
<1>3. Authoring!Becomes(s, u, compose, Nil, l)
  BY <1>1
<1>4. Fits(s, u, compose, Nil, l)
  BY <1>1, <1>2, ToolSet, DrawnAlone, AuthoringTyped DEF Fits
<1>5. Authoring!Saves(s, overrides)
  <2>1. session' = s
    BY <1>3 DEF Authoring!Becomes
  <2> QED BY <2>1 DEF Authoring!Saves, Authoring!layoutCandidateFor
<1>6. overrides \in Authoring!Layout /\ (Authoring!editing => Unvisited(overrides))
  BY AuthoringTyped DEF AuthoringInv, LayoutsLocal
<1> QED BY <1>2, <1>3, <1>4, <1>5, <1>6, SavedStep

LEMMA AuthoringConfirm ==
  ASSUME AuthoringInstance, AuthoringInv, Authoring!confirmRelation
  PROVE  AuthoringInv'
<1>1. Authoring!connectionActive /\ candidate \in Pair
  BY AuthoringTyped DEF Authoring!confirmRelation
<1>2. CASE Authoring!Shows(ui, compose, candidate, look)
  BY <1>2, CanvasFits, ShowsFits
<1>3. CASE /\ {candidate[1], candidate[2]} \subseteq session.nodes
           /\ Authoring!Becomes([session EXCEPT !.edges = @ \cup {candidate}, !.dirty = TRUE],
                                Authoring!setTool(ui, "select"), compose, Nil,
                                [look EXCEPT !.narrow = {}, !.selected = candidate[1]])
           /\ Authoring!Saves(session', overrides) /\ UNCHANGED <<published, overrides>>
  <2>1. PICK edges, l : /\ edges = session.edges \cup {candidate}
                        /\ l = [look EXCEPT !.narrow = {}, !.selected = candidate[1]]
    OBVIOUS
  <2>2. edges \in SUBSET Pair
    BY <1>1, <2>1, AuthoringTyped DEF SessionRecord
  <2>3. candidate[1] \in Authoring!All
    BY <1>3, AuthoringTyped DEF SessionRecord
  <2>4. l \in LookRecord
    BY <2>1, <2>3, AuthoringTyped DEF LookRecord
  <2> QED BY <1>1, <1>3, <2>1, <2>2, <2>4, RelationDrawn
<1> QED BY <1>2, <1>3 DEF Authoring!confirmRelation

LEMMA AuthoringReconnect ==
  ASSUME AuthoringInstance, AuthoringInv, NEW e \in Pair, NEW p \in Pair,
         Authoring!reconnectRelation(e, p)
  PROVE  AuthoringInv'
<1>1. /\ Authoring!connectionActive /\ {p[1], p[2]} \subseteq session.nodes
      /\ Authoring!Becomes([session EXCEPT !.edges = (@ \ {e}) \cup {p}, !.dirty = TRUE],
                           Authoring!setTool(ui, "select"), compose, Nil,
                           Authoring!Selects(look, p[1]))
      /\ Authoring!Saves(session', overrides) /\ UNCHANGED <<published, overrides>>
  BY DEF Authoring!reconnectRelation, Authoring!relationConnectionIsValid
<1>2. PICK edges, l : /\ edges = (session.edges \ {e}) \cup {p}
                      /\ l = Authoring!Selects(look, p[1])
  OBVIOUS
<1>3. edges \in SUBSET Pair
  BY <1>2, AuthoringTyped DEF SessionRecord
<1>4. p[1] \in Authoring!All
  BY <1>1, AuthoringTyped DEF SessionRecord
<1>5. l \in LookRecord
  BY <1>2, <1>4, SelectionSet, AuthoringTyped
<1> QED BY <1>1, <1>2, <1>3, <1>5, RelationDrawn

LEMMA AuthoringUndraw ==
  ASSUME AuthoringInv, Authoring!cancelRelationAuthoring
  PROVE  AuthoringInv'
<1>1. PICK u : u = Authoring!setTool(ui, "select")
  OBVIOUS
<1>2. Authoring!connectionActive /\ Authoring!Shows(u, compose, Nil, look)
  BY <1>1 DEF Authoring!cancelRelationAuthoring
<1>3. Fits(session, u, compose, Nil, look)
  BY <1>1, <1>2, ToolSet, DrawnAlone, AuthoringTyped DEF Fits
<1> QED BY <1>2, <1>3, ShowsFits

-----------------------------------------------------------------------------
(* WorldAuthoring: the canvas, the lists and the commands. *)
\* A selection alone.
LEMMA AuthoringSelects ==
  ASSUME AuthoringInv, NEW n \in Authoring!All \cup {Nil},
         Authoring!Shows(ui, compose, candidate, Authoring!Selects(look, n))
  PROVE  AuthoringInv'
<1>1. PICK l : l = Authoring!Selects(look, n)
  OBVIOUS
<1>2. l \in LookRecord
  BY <1>1, SelectionSet, AuthoringTyped
<1> QED BY <1>1, <1>2, AuthoringTyped, ToolStays DEF AuthoringInv, Authoring!ToolOwnsItsDraft

LEMMA AuthoringSelect ==
  ASSUME AuthoringInv, NEW n \in Authoring!All, Authoring!onNodeSelect(n)
  PROVE  AuthoringInv'
<1>1. CASE /\ ui.tool = "create"
           /\ Authoring!Shows(Authoring!setTool(ui, "select"), Authoring!Dropped, candidate,
                              Authoring!Selects(look, n))
  <2>1. PICK u, c, l : /\ u = Authoring!setTool(ui, "select") /\ c = Authoring!Dropped
                       /\ l = Authoring!Selects(look, n)
    OBVIOUS
  <2>2. candidate = Nil
    BY <1>1 DEF AuthoringInv, Authoring!ToolOwnsItsDraft
  <2>3. Fits(session, u, c, candidate, l)
    BY <2>1, <2>2, ToolSet, ComposeParts, SelectionSet, AuthoringTyped DEF Fits
  <2> QED BY <1>1, <2>1, <2>3, ShowsFits
<1>2. CASE Authoring!Shows(ui, compose, candidate, Authoring!Selects(look, n))
  BY <1>2, AuthoringSelects
<1> QED BY <1>1, <1>2 DEF Authoring!onNodeSelect

\* A node that is moved: by the editor, who saves it, or by a visitor.
LEMMA AuthoringMoves ==
  ASSUME AuthoringInstance, AuthoringInv, NEW n \in Authoring!All,
         Authoring!rememberNodePosition(n)
  PROVE  AuthoringInv'
<1>1. PICK s, o :
        /\ s = [session EXCEPT !.dirty = @ \/ session.state = "editing"]
        /\ o = [overrides EXCEPT ![n] = IF Authoring!editing THEN "editor" ELSE "visitor"]
  OBVIOUS
<1>2. /\ Authoring!Becomes(s, ui, compose, candidate, look)
      /\ overrides' = o /\ Authoring!Saves(session, o) /\ UNCHANGED published
  BY <1>1 DEF Authoring!rememberNodePosition, Authoring!Saves, Authoring!layoutCandidateFor
<1>3. s \in SessionRecord /\ s.state = session.state /\ s.nodes = session.nodes
      /\ s.edges = session.edges
  BY <1>1, AuthoringTyped DEF SessionRecord
<1>4. Fits(s, ui, compose, candidate, look)
  BY <1>3, CanvasFits DEF Fits
<1>5. o \in Authoring!Layout
  BY <1>1, AuthoringTyped DEF Authoring!Layout, Authoring!Placed
<1>6. Authoring!editing => Unvisited(o)
  <2>1. SUFFICES ASSUME Authoring!editing PROVE Unvisited(o)
    OBVIOUS
  <2>2. Unvisited(overrides) /\ overrides \in Authoring!Layout
    BY <2>1, AuthoringTyped DEF AuthoringInv, LayoutsLocal
  <2>3. o = [overrides EXCEPT ![n] = "editor"]
    BY <1>1, <2>1
  <2> QED BY <2>2, <2>3 DEF Unvisited, Authoring!Layout
<1>7. Authoring!Saves(s, o)
  BY <1>2, <1>3 DEF Authoring!Saves
<1> QED BY <1>2, <1>3, <1>4, <1>5, <1>6, <1>7, SavedStep

LEMMA AuthoringReset ==
  ASSUME AuthoringInstance, AuthoringInv, NEW u \in UiRecord, u.tool = ui.tool,
         Authoring!resetLayout(u)
  PROVE  AuthoringInv'
<1>1. PICK s, l :
        /\ s = [session EXCEPT !.dirty = @ /\ (\/ session.nodes # published.nodes
                                               \/ session.edges # published.edges)]
        /\ l = Authoring!Selects(look, Nil)
  OBVIOUS
<1>2. /\ Authoring!Becomes(s, u, compose, candidate, l)
      /\ overrides' = Authoring!NoLayout /\ Authoring!Saves(session, Authoring!NoLayout)
      /\ UNCHANGED published
  BY <1>1 DEF Authoring!resetLayout
<1>3. s \in SessionRecord /\ s.state = session.state /\ s.nodes = session.nodes
      /\ s.edges = session.edges
  BY <1>1, AuthoringTyped DEF SessionRecord
<1>4. l \in LookRecord
  BY <1>1, SelectionSet, AuthoringTyped
<1>5. Fits(s, u, compose, candidate, l)
  BY <1>3, <1>4, CanvasFits DEF Fits
<1>6. PICK o : o = Authoring!NoLayout
  OBVIOUS
<1>7. o \in Authoring!Layout /\ Unvisited(o)
  BY <1>6, NothingPlaced
<1>8. Authoring!Saves(s, o)
  BY <1>2, <1>3, <1>6 DEF Authoring!Saves
<1> QED BY <1>2, <1>3, <1>5, <1>6, <1>7, <1>8, SavedStep

LEMMA InspectorTurned ==
  ASSUME NEW u \in UiRecord, NEW open
  PROVE  /\ Authoring!toggleInspector(u, open) \in UiRecord
         /\ Authoring!toggleInspector(u, open).tool = u.tool
BY DEF UiRecord, Authoring!toggleInspector, Authoring!nextWorldInspectorMode

LEMMA FocusTurned ==
  ASSUME NEW u \in UiRecord
  PROVE  /\ Authoring!toggleFocusMode(u) \in UiRecord
         /\ Authoring!toggleFocusMode(u).tool = u.tool
BY DEF UiRecord, Authoring!toggleFocusMode

LEMMA PaletteTurned ==
  ASSUME NEW u \in UiRecord
  PROVE  /\ [u EXCEPT !.palette = FALSE] \in UiRecord /\ [u EXCEPT !.palette = ~@] \in UiRecord
         /\ [u EXCEPT !.palette = FALSE].tool = u.tool /\ [u EXCEPT !.palette = ~@].tool = u.tool
BY DEF UiRecord

\* Another interface with the same tool.
LEMMA AuthoringTurns ==
  ASSUME AuthoringInv, NEW u \in UiRecord, u.tool = ui.tool,
         NEW l \in LookRecord, Authoring!Shows(u, compose, candidate, l)
  PROVE  AuthoringInv'
BY AuthoringTyped, ToolStays DEF AuthoringInv, Authoring!ToolOwnsItsDraft

LEMMA AuthoringEntityNode ==
  ASSUME AuthoringInv, Authoring!WorldEntityNode
  PROVE  AuthoringInv'
<1>1. CASE Authoring!Shows(Authoring!toggleInspector(ui, "overlay"), compose, candidate, look)
  <2>1. PICK u : u = Authoring!toggleInspector(ui, "overlay")
    OBVIOUS
  <2>2. u \in UiRecord /\ u.tool = ui.tool
    BY <2>1, InspectorTurned, AuthoringTyped
  <2> QED BY <1>1, <2>1, <2>2, AuthoringTurns, AuthoringTyped
<1>2. CASE /\ Authoring!relationAuthoringAvailable
           /\ Authoring!beginConnectionFromNode(ui, look.selected)
  <2>1. look.selected \in Authoring!All \cup {Nil}
    BY AuthoringTyped DEF LookRecord
  <2> QED BY <1>2, <2>1, AuthoringConnect, AuthoringTyped
<1> QED BY <1>1, <1>2 DEF Authoring!WorldEntityNode

LEMMA AuthoringPalette ==
  ASSUME AuthoringInv, NEW n \in Authoring!All, Authoring!selectEntityFromPalette(n)
  PROVE  AuthoringInv'
<1>1. PICK u, l : /\ u = [ui EXCEPT !.palette = FALSE]
                  /\ l = [narrow |-> {}, selected |-> n, list |-> FALSE]
  OBVIOUS
<1>2. u \in UiRecord /\ u.tool = ui.tool
  BY <1>1, PaletteTurned, AuthoringTyped
<1>3. l \in LookRecord
  BY <1>1 DEF LookRecord
<1> QED BY <1>1, <1>2, <1>3, AuthoringTurns DEF Authoring!selectEntityFromPalette

LEMMA AuthoringChrome ==
  ASSUME AuthoringInstance, AuthoringInv, Authoring!WorldFloatingChrome
  PROVE  AuthoringInv'
<1>1. ASSUME NEW f \in DOMAIN Narrow,
             Authoring!Shows(ui, compose, candidate,
               [look EXCEPT !.narrow = IF f \in @ THEN @ \ {f} ELSE @ \cup {f}])
      PROVE  AuthoringInv'
  <2>1. PICK l : l = [look EXCEPT !.narrow = IF f \in @ THEN @ \ {f} ELSE @ \cup {f}]
    OBVIOUS
  <2>2. l \in LookRecord
    BY <2>1, AuthoringTyped DEF LookRecord
  <2> QED BY <1>1, <2>1, <2>2, AuthoringTurns, AuthoringTyped
<1>2. CASE Authoring!Shows(ui, compose, candidate, [look EXCEPT !.list = ~@])
  <2>1. PICK l : l = [look EXCEPT !.list = ~@]
    OBVIOUS
  <2>2. l \in LookRecord
    BY <2>1, AuthoringTyped DEF LookRecord
  <2> QED BY <1>2, <2>1, <2>2, AuthoringTurns, AuthoringTyped
<1>3. CASE Authoring!resetLayout(ui)
  BY <1>3, AuthoringReset, AuthoringTyped
<1> QED BY <1>1, <1>2, <1>3 DEF Authoring!WorldFloatingChrome

\* A command, u being the interface that it finds.
LEMMA AuthoringCommand ==
  ASSUME AuthoringInstance, AuthoringInv, NEW u \in UiRecord, u.tool = ui.tool, NEW id,
         Authoring!executeWorldCommand(u, id)
  PROVE  AuthoringInv'
<1>1. CASE Authoring!Shows(Authoring!toggleInspector(
             u, IF Authoring!editing THEN "overlay" ELSE "docked"), compose, candidate, look)
  <2>1. PICK open : open = IF Authoring!editing THEN "overlay" ELSE "docked"
    OBVIOUS
  <2>2. PICK v : v = Authoring!toggleInspector(u, open)
    OBVIOUS
  <2>3. v \in UiRecord /\ v.tool = ui.tool
    BY <2>2, InspectorTurned
  <2> QED BY <1>1, <2>1, <2>2, <2>3, AuthoringTurns, AuthoringTyped
<1>2. CASE Authoring!Shows(Authoring!toggleFocusMode(u), compose, candidate, look)
  <2>1. PICK v : v = Authoring!toggleFocusMode(u)
    OBVIOUS
  <2>2. v \in UiRecord /\ v.tool = ui.tool
    BY <2>1, FocusTurned
  <2> QED BY <1>2, <2>1, <2>2, AuthoringTurns, AuthoringTyped
<1>3. CASE Authoring!Shows(u, compose, candidate, [look EXCEPT !.list = TRUE])
  <2>1. PICK l : l = [look EXCEPT !.list = TRUE]
    OBVIOUS
  <2>2. l \in LookRecord
    BY <2>1, AuthoringTyped DEF LookRecord
  <2> QED BY <1>3, <2>1, <2>2, AuthoringTurns
<1>4. CASE Authoring!openDirectCreateFromCommand(u)
  <2>1. PICK c, l : /\ c = IF ui.tool = "connect" THEN compose
                           ELSE [compose EXCEPT !.picker = ~@]
                    /\ l = [look EXCEPT !.list = FALSE]
    OBVIOUS
  <2>2. c \in ComposeRecord /\ c.type = compose.type /\ (c.point => c.type)
    BY <2>1, ComposeParts, AuthoringTyped DEF AuthoringInv, Authoring!ToolOwnsItsDraft
  <2>3. l \in LookRecord
    BY <2>1, AuthoringTyped DEF LookRecord
  <2>4. Authoring!Shows(u, c, candidate, l)
    BY <1>4, <2>1 DEF Authoring!openDirectCreateFromCommand
  <2> QED BY <2>2, <2>3, <2>4, ToolStays
<1>5. CASE /\ Authoring!relationAuthoringAvailable
           /\ Authoring!beginConnectionFromNode(u, look.selected)
  <2>1. look.selected \in Authoring!All \cup {Nil}
    BY AuthoringTyped DEF LookRecord
  <2> QED BY <1>5, <2>1, AuthoringConnect
<1>6. CASE Authoring!Shows([u EXCEPT !.palette = ~@], compose, candidate, look)
  <2>1. PICK v : v = [u EXCEPT !.palette = ~@]
    OBVIOUS
  <2>2. v \in UiRecord /\ v.tool = ui.tool
    BY <2>1, PaletteTurned
  <2> QED BY <1>6, <2>1, <2>2, AuthoringTurns, AuthoringTyped
<1>7. CASE Authoring!resetLayout(u)
  BY <1>7, AuthoringReset
<1>8. CASE Authoring!publish(u)
  BY <1>8, AuthoringPublish
<1> QED BY <1>1, <1>2, <1>3, <1>4, <1>5, <1>6, <1>7, <1>8 DEF Authoring!executeWorldCommand

-----------------------------------------------------------------------------
(* WorldAuthoring: the theorems. *)
LEMMA AuthoringStep ==
  ASSUME AuthoringInstance, AuthoringInv, Authoring!Step
  PROVE  AuthoringInv'
<1>1. CASE Authoring!WorldConductorBar
  BY <1>1, AuthoringStart, AuthoringRelease, AuthoringCommand, AuthoringTyped
    DEF Authoring!WorldConductorBar
<1>2. CASE Authoring!worldCommandForShortcut
  BY <1>2, AuthoringCommand, AuthoringTyped DEF Authoring!worldCommandForShortcut
<1>3. CASE Authoring!WorldCommandPalette
  <2>1. PICK closed : closed = [ui EXCEPT !.palette = FALSE]
    OBVIOUS
  <2>2. closed \in UiRecord /\ closed.tool = ui.tool
    BY <2>1, PaletteTurned, AuthoringTyped
  <2>3. \/ Authoring!Shows(closed, compose, candidate, look)
        \/ \E id : Authoring!executeWorldCommand(closed, id)
    BY <1>3, <2>1 DEF Authoring!WorldCommandPalette
  <2> QED BY <2>2, <2>3, AuthoringTurns, AuthoringCommand, AuthoringTyped
<1>4. CASE Authoring!WorldWorkspaceShell
  <2>1. UNCHANGED <<session, saved, published, overrides, ui, compose, candidate, look>>
    BY <1>4 DEF Authoring!WorldWorkspaceShell
  <2>2. CanvasTyped' /\ Authoring!ToolOwnsItsDraft'
    BY <2>1 DEF AuthoringInv, CanvasTyped, Authoring!ToolOwnsItsDraft, SessionRecord, UiRecord,
      ComposeRecord, LookRecord, Authoring!All, Authoring!editing,
      Authoring!directCreateEnabled, Authoring!AuthoringPanelVisible
  <2>3. LayoutsTyped' /\ LayoutsLocal'
    BY <2>1, LayoutsStay DEF Authoring!editing
  <2> QED BY <2>2, <2>3 DEF AuthoringInv
<1>5. ASSUME NEW n \in Authoring!All,
             \/ Authoring!WorldAccessibleRelations(n) \/ Authoring!WorldInspectorContent(n)
      PROVE  AuthoringInv'
  <2>1. Authoring!Shows(ui, compose, candidate, Authoring!Selects(look, n))
    BY <1>5 DEF Authoring!WorldAccessibleRelations, Authoring!WorldInspectorContent
  <2> QED BY <2>1, AuthoringSelects
<1>6. ASSUME NEW n \in Authoring!All,
             \/ Authoring!createDirectNode(n) \/ Authoring!onNodeSelect(n)
             \/ Authoring!rememberNodePosition(n) \/ Authoring!selectEntityFromPalette(n)
      PROVE  AuthoringInv'
  BY <1>6, AuthoringNode, AuthoringSelect, AuthoringMoves, AuthoringPalette
<1>7. ASSUME NEW p \in Pair,
             \/ Authoring!captureRelationCandidate(p)
             \/ \E e \in Pair : Authoring!reconnectRelation(e, p)
      PROVE  AuthoringInv'
  BY <1>7, AuthoringCapture, AuthoringReconnect
<1>8. CASE \/ Authoring!markLeaseLost \/ Authoring!WorldFloatingChrome
           \/ Authoring!OpenPicker \/ Authoring!beginDirectCreate \/ Authoring!CancelPlacing
           \/ Authoring!TypeName \/ Authoring!handleCanvasPaneClick
           \/ Authoring!confirmRelation \/ Authoring!cancelRelationAuthoring
           \/ Authoring!WorldEntityNode
  BY <1>8, AuthoringLost, AuthoringChrome, AuthoringPicker, AuthoringCreate, AuthoringCancel,
    AuthoringName, AuthoringPane, AuthoringConfirm, AuthoringUndraw, AuthoringEntityNode
<1> QED BY <1>1, <1>2, <1>3, <1>4, <1>5, <1>6, <1>7, <1>8 DEF Authoring!Step

LEMMA AuthoringInit ==
  ASSUME AuthoringInstance, Authoring!Init
  PROVE  AuthoringInv
<1>1. /\ session = [state |-> "view", dirty |-> FALSE, nodes |-> Node, edges |-> Edge]
      /\ saved = [layout |-> Authoring!NoLayout, nodes |-> Node, edges |-> Edge]
      /\ published = saved /\ overrides = Authoring!NoLayout
      /\ ui = Authoring!createWorldAuthoringUiState /\ compose = Authoring!NoCompose
      /\ candidate = Nil /\ look = [narrow |-> {}, selected |-> Nil, list |-> FALSE]
  BY DEF Authoring!Init
<1>2. ui \in UiRecord /\ ui.tool = "select"
  BY <1>1 DEF UiRecord, Authoring!createWorldAuthoringUiState
<1>3. compose \in ComposeRecord /\ ~compose.type /\ ~compose.point /\ ~compose.name
  BY <1>1 DEF ComposeRecord, Authoring!NoCompose
<1>4. session \in SessionRecord /\ look \in LookRecord /\ session.state = "view"
  BY <1>1 DEF SessionRecord, LookRecord, AuthoringInstance, Authoring!All
<1>5. CanvasTyped /\ Authoring!ToolOwnsItsDraft
  BY <1>1, <1>2, <1>3, <1>4 DEF CanvasTyped, Authoring!ToolOwnsItsDraft
<1>6. LayoutsTyped /\ LayoutsLocal
  BY <1>1, NothingPlaced
    DEF LayoutsTyped, LayoutsLocal, Authoring!Content, AuthoringInstance, Authoring!All
<1> QED BY <1>5, <1>6 DEF AuthoringInv

(* The strengthening: outside of a session the first tool is in hand, and  *)
(* in one nothing that a visitor moved is drawn.                           *)
THEOREM AuthoringInvariant ==
  ASSUME AuthoringInstance
  PROVE  Authoring!Spec => []AuthoringInv
<1>1. AuthoringInv /\ [Authoring!Next]_(Authoring!vars) => AuthoringInv'
  <2>1. ASSUME AuthoringInv, UNCHANGED Authoring!vars PROVE AuthoringInv'
    <3>1. UNCHANGED <<session, saved, published, overrides, ui, compose, candidate, look>>
      BY <2>1 DEF Authoring!vars
    <3>2. CanvasTyped' /\ Authoring!ToolOwnsItsDraft'
      BY <2>1, <3>1 DEF AuthoringInv, CanvasTyped, Authoring!ToolOwnsItsDraft, SessionRecord,
        UiRecord, ComposeRecord, LookRecord, Authoring!All, Authoring!editing,
        Authoring!directCreateEnabled, Authoring!AuthoringPanelVisible
    <3>3. LayoutsTyped' /\ LayoutsLocal'
      BY <2>1, <3>1, LayoutsStay DEF Authoring!editing
    <3> QED BY <3>2, <3>3 DEF AuthoringInv
  <2> QED BY <2>1, AuthoringStep, AuthoringAcquired, AuthoringPublished DEF Authoring!Next
<1>2. Authoring!Init => AuthoringInv
  BY AuthoringInit
<1> QED BY <1>1, <1>2, PTL DEF Authoring!Spec

(* What is being composed belongs to the tool in hand and to this session, *)
(* and what a visitor moved about is never saved or published.             *)
THEOREM AuthoringIsOwned ==
  ASSUME AuthoringInstance
  PROVE  Authoring!Spec => [](Authoring!ToolOwnsItsDraft /\ Authoring!VisitorMovesStayLocal)
<1>1. AuthoringInv => Authoring!ToolOwnsItsDraft /\ Authoring!VisitorMovesStayLocal
  BY DEF AuthoringInv, LayoutsLocal, Unvisited, Authoring!VisitorMovesStayLocal
<1> QED BY <1>1, AuthoringInvariant, PTL

-----------------------------------------------------------------------------
(* WorldContentEditor *)
CONSTANTS Figure, Drawn, Portrayed, Relation, Old, Type, Directed, First, Decided, Line, Rank,
  MaxStroke
VARIABLES sketch, shown, sources, active, gate, panel, sending, strokes, wish, meant, turned

Content == INSTANCE WorldContentEditor WITH Node <- Figure, Canon <- Decided, Pair <- Line,
  MaxEdit <- MaxStroke, draft <- sketch, published <- shown, upload <- sending, edits <- strokes

(* "No value" is no relation, the relation of the beginning joins two of   *)
(* the elements there are, and nobody draws from an element to itself.     *)
ContentInstance ==
  /\ Nil \notin Content!Edge
  /\ Drawn \subseteq Figure /\ Portrayed \subseteq Figure
  /\ First \in [source : Drawn, target : Drawn, type : Type] /\ First.source # First.target
  /\ \A p \in Line : {p[1], p[2]} \subseteq Figure /\ p[1] # p[2]

GateRecord == [rel : Relation, eligible : {"asked", "yes", "no"}]
PanelRecord == [rel : Relation, options : SUBSET Decided]
UploadRecord == [node : Figure, base : Content!Graph]

ContentTyped ==
  /\ sketch \in Content!Graph /\ shown \in Content!Graph
  /\ sources \in [Relation -> SUBSET Decided] /\ active \in SUBSET Decided
  /\ panel # Nil => panel \in PanelRecord
  /\ sending # Nil => sending \in UploadRecord
  /\ wish \in [Relation -> Content!Audience]
  /\ meant \in [Relation -> Content!Meaning \cup {Nil}]

(* GraphIsWhole, of the graph g, when the types in t were made symmetric:  *)
(* the draft an upload began in is handed over when it ends.               *)
Whole(g, t) ==
  \A r \in Relation : Content!Active(g, r) =>
    /\ g.rel[r].source # g.rel[r].target
    /\ {g.rel[r].source, g.rel[r].target} \subseteq Content!Live(g)
    /\ Content!Duplicates(g, Content!MeaningOf(g.rel[r]), r) # {} => g.rel[r].type \in t

(* No relation of p is missing in g: relations are archived, not deleted. *)
Includes(p, g) == \A r \in Relation : Content!Exists(p, r) => Content!Exists(g, r)

(* Decisions are attached to a published relation as it says now, and to   *)
(* all that are public.                                                    *)
SourcesMean ==
  \A r \in Relation : sources[r] # {} =>
    Content!Exists(shown, r) /\ meant[r] = Content!MeaningOf(shown.rel[r])
PublicSourced ==
  \A r \in Relation : Content!Active(shown, r) /\ Content!Public(shown, r) => sources[r] # {}

(* The check k asks for what was last wished of a published relation, and  *)
(* only of one that is published can the answer be yes.                    *)
Asked(k, w, p) ==
  /\ k \in GateRecord
  /\ Content!Exists(p, k.rel) => w[k.rel] = "public"
  /\ k.eligible = "yes" => Content!Exists(p, k.rel)
GateWanted == gate # Nil => Asked(gate, wish, shown)

ContentInv ==
  /\ ContentTyped
  /\ Whole(sketch, turned) /\ Includes(shown, sketch)
  /\ sending # Nil => Whole(sending.base, turned) /\ Includes(shown, sending.base)
  /\ SourcesMean /\ PublicSourced /\ GateWanted
  /\ panel # Nil => Content!Exists(shown, panel.rel)

\* A relation that exists has its fields.
LEMMA EdgeOf ==
  ASSUME ContentInstance, NEW g \in Content!Graph, NEW r \in Relation
  PROVE  /\ Content!Exists(g, r) <=> g.rel[r] \in Content!Edge
         /\ ~ Content!Exists(g, r) <=> g.rel[r] = Nil
         /\ Content!Active(g, r) <=> g.rel[r] \in Content!Edge /\ g.rel[r].status = "active"
         /\ Content!Public(g, r) <=> g.rel[r] \in Content!Edge /\ g.rel[r].vis = "public"
<1>1. g.rel[r] \in Content!Edge \cup {Nil}
  BY DEF Content!Graph
<1> QED BY <1>1 DEF ContentInstance, Content!Exists, Content!Active, Content!Public

\* Two relations say the same if they join the same elements by the same
\* type, the other way round too if it has no direction.
LEMMA SameMeans ==
  ASSUME NEW g, NEW a \in Content!Edge, NEW b \in Content!Edge
  PROVE  Content!Same(g, Content!MeaningOf(a), b) <=>
           /\ a.type = b.type
           /\ \/ a.source = b.source /\ a.target = b.target
              \/ ~ g.type[a.type].directed /\ a.source = b.target /\ a.target = b.source
<1>1. PICK m : m = Content!MeaningOf(a)
  OBVIOUS
<1>2. m = [source |-> a.source, target |-> a.target, type |-> a.type]
  BY <1>1 DEF Content!MeaningOf
<1>3. Content!Turn(m) = [source |-> a.target, target |-> a.source, type |-> a.type]
  <2>1. Content!Turn(m) = [m EXCEPT !.source = m.target, !.target = m.source]
    BY DEF Content!Turn
  <2>2. m.source = a.source /\ m.target = a.target
    BY <1>2
  <2>3. Content!Turn(m) = [[source |-> a.source, target |-> a.target, type |-> a.type]
                            EXCEPT !.source = a.target, !.target = a.source]
    BY <1>2, <2>1, <2>2
  <2> QED BY <2>3
<1>4. Content!MeaningOf(b) = [source |-> b.source, target |-> b.target, type |-> b.type]
  BY DEF Content!MeaningOf
<1>5. Content!MeaningOf(b) = m <=>
        a.source = b.source /\ a.target = b.target /\ a.type = b.type
  BY <1>2, <1>4
<1>6. Content!MeaningOf(b) = Content!Turn(m) <=>
        a.target = b.source /\ a.source = b.target /\ a.type = b.type
  BY <1>3, <1>4
<1>7. m.type = a.type
  BY <1>2
<1> QED BY <1>1, <1>5, <1>6, <1>7 DEF Content!Same

(* What the graph h has of the graph g: but for the relations in R, its    *)
(* active ones are those of g and say the same; they join two elements     *)
(* there are; those in R have no duplicate; and only types in t have lost  *)
(* their direction.                                                        *)
KeptBut(g, h, R) ==
  \A q \in Relation \ R : Content!Active(h, q) =>
    /\ Content!Active(g, q)
    /\ h.rel[q].source = g.rel[q].source /\ h.rel[q].target = g.rel[q].target
    /\ h.rel[q].type = g.rel[q].type
Joins(h) ==
  \A q \in Relation : Content!Active(h, q) =>
    /\ h.rel[q].source # h.rel[q].target
    /\ {h.rel[q].source, h.rel[q].target} \subseteq Content!Live(h)
SaidOnce(h, R) ==
  \A q \in R : Content!Active(h, q) =>
    Content!Duplicates(h, Content!MeaningOf(h.rel[q]), q) = {}
TurnedIn(g, h, t) ==
  \A y \in Type : ~ h.type[y].directed => ~ g.type[y].directed \/ y \in t

\* A change that touches the relations in R only, and leaves those without
\* a duplicate, keeps a graph whole.
LEMMA StaysWhole ==
  ASSUME ContentInstance, NEW g \in Content!Graph, NEW h \in Content!Graph, NEW s, NEW t,
         s \subseteq t, Whole(g, s), NEW R \in SUBSET Relation,
         KeptBut(g, h, R), Joins(h), SaidOnce(h, R), TurnedIn(g, h, t)
  PROVE  Whole(h, t)
<1> SUFFICES ASSUME NEW q \in Relation \ R, Content!Active(h, q),
                    NEW p \in Content!Duplicates(h, Content!MeaningOf(h.rel[q]), q)
             PROVE  h.rel[q].type \in t
  BY DEF Whole, Joins, SaidOnce
<1>1. /\ p \in Relation /\ p # q /\ Content!Active(h, p)
      /\ Content!Same(h, Content!MeaningOf(h.rel[q]), h.rel[p])
  BY DEF Content!Duplicates
<1>2. h.rel[q] \in Content!Edge /\ h.rel[p] \in Content!Edge
  BY <1>1, EdgeOf
<1>3. CASE p \in R
  <2>1. Content!Same(h, Content!MeaningOf(h.rel[p]), h.rel[q])
    BY <1>1, <1>2, SameMeans
  <2>2. q \in Content!Duplicates(h, Content!MeaningOf(h.rel[p]), p)
    BY <1>1, <2>1 DEF Content!Duplicates
  <2> QED BY <1>1, <1>3, <2>2 DEF SaidOnce
<1>4. CASE p \notin R
  <2>1. /\ Content!Active(g, p) /\ Content!Active(g, q)
        /\ h.rel[p].source = g.rel[p].source /\ h.rel[p].target = g.rel[p].target
        /\ h.rel[p].type = g.rel[p].type
        /\ h.rel[q].source = g.rel[q].source /\ h.rel[q].target = g.rel[q].target
        /\ h.rel[q].type = g.rel[q].type
    BY <1>1, <1>4 DEF KeptBut
  <2>2. g.rel[q] \in Content!Edge /\ g.rel[p] \in Content!Edge
    BY <1>1, <2>1, EdgeOf
  <2>3. h.rel[q].type \in Type
    BY <1>2 DEF Content!Edge
  <2>4. CASE h.rel[q].type \in t
    BY <2>4
  <2>5. CASE ~ h.type[h.rel[q].type].directed => ~ g.type[h.rel[q].type].directed
    <3>1. Content!Same(g, Content!MeaningOf(g.rel[q]), g.rel[p])
      BY <1>1, <1>2, <2>1, <2>2, <2>5, SameMeans
    <3>2. p \in Content!Duplicates(g, Content!MeaningOf(g.rel[q]), q)
      BY <1>1, <2>1, <3>1 DEF Content!Duplicates
    <3>3. g.rel[q].type \in s
      BY <2>1, <3>2 DEF Whole
    <3> QED BY <2>1, <3>3
  <2> QED BY <2>3, <2>4, <2>5 DEF TurnedIn
<1> QED BY <1>3, <1>4

\* What a change of one field makes of a graph.
LEMMA NodeWith ==
  ASSUME NEW g \in Content!Graph, NEW f \in [Figure -> {"absent", "active", "archived"}]
  PROVE  LET h == [g EXCEPT !.node = f]
         IN h \in Content!Graph /\ h.node = f /\ h.rel = g.rel /\ h.type = g.type /\ h.portrait = g.portrait
BY DEF Content!Graph

LEMMA PortraitWith ==
  ASSUME NEW g \in Content!Graph, NEW f \in [Figure -> BOOLEAN]
  PROVE  LET h == [g EXCEPT !.portrait = f]
         IN h \in Content!Graph /\ h.node = g.node /\ h.rel = g.rel /\ h.type = g.type /\ h.portrait = f
BY DEF Content!Graph

LEMMA RelationsWith ==
  ASSUME NEW g \in Content!Graph, NEW f \in [Relation -> Content!Edge \cup {Nil}]
  PROVE  LET h == [g EXCEPT !.rel = f]
         IN h \in Content!Graph /\ h.node = g.node /\ h.rel = f /\ h.type = g.type /\ h.portrait = g.portrait
BY DEF Content!Graph

LEMMA TypeWith ==
  ASSUME NEW g \in Content!Graph, NEW f \in [Type -> [directed : BOOLEAN, active : BOOLEAN]]
  PROVE  LET h == [g EXCEPT !.type = f]
         IN h \in Content!Graph /\ h.node = g.node /\ h.rel = g.rel /\ h.type = f /\ h.portrait = g.portrait
BY DEF Content!Graph

(* The graph g with other relations. *)
WithRel(g, f) == [g EXCEPT !.rel = f]

LEMMA RelWith ==
  ASSUME NEW g \in Content!Graph, NEW f \in [Relation -> Content!Edge \cup {Nil}]
  PROVE  /\ WithRel(g, f) \in Content!Graph /\ WithRel(g, f).rel = f
         /\ WithRel(g, f).node = g.node /\ WithRel(g, f).type = g.type
BY RelationsWith DEF WithRel

\* The fields of a graph.
LEMMA DraftFields ==
  ASSUME NEW g \in Content!Graph
  PROVE  /\ g.node \in [Figure -> {"absent", "active", "archived"}]
         /\ g.portrait \in [Figure -> BOOLEAN]
         /\ g.rel \in [Relation -> Content!Edge \cup {Nil}]
         /\ g.type \in [Type -> [directed : BOOLEAN, active : BOOLEAN]]
BY DEF Content!Graph

(* The same relations, for the same audiences. *)
SameAudience(g, h) ==
  \A r \in Relation : /\ Content!Exists(h, r) <=> Content!Exists(g, r)
                      /\ Content!Exists(g, r) => h.rel[r].vis = g.rel[r].vis

\* A step of the page alone: it leaves the database as it is.
LEMMA PageStep ==
  ASSUME ContentInv, sketch' \in Content!Graph, Whole(sketch', turned'), Includes(shown, sketch'),
         turned \subseteq turned', wish' \in [Relation -> Content!Audience],
         gate' # Nil => Asked(gate', wish', shown),
         panel' # Nil => panel' \in PanelRecord /\ Content!Exists(shown, panel'.rel),
         sending' # Nil => /\ sending' \in UploadRecord /\ Whole(sending'.base, turned)
                           /\ Includes(shown, sending'.base),
         UNCHANGED <<shown, sources, active, meant>>
  PROVE  ContentInv'
<1>1. ContentTyped'
  BY DEF ContentInv, ContentTyped, Content!Graph, Content!Edge, Content!Audience, Content!Meaning,
    UploadRecord, PanelRecord
<1>2. (sending # Nil => Whole(sending.base, turned) /\ Includes(shown, sending.base))'
  <2>1. ASSUME sending' # Nil
        PROVE  Whole(sending'.base, turned') /\ Includes(shown', sending'.base)
    <3>1. Whole(sending'.base, turned) /\ Includes(shown, sending'.base)
      BY <2>1
    <3> QED BY <3>1 DEF Whole
  <2> QED BY <2>1
<1>3. SourcesMean' /\ PublicSourced'
  BY DEF ContentInv, SourcesMean, PublicSourced, Content!Exists, Content!Active, Content!Public,
    Content!MeaningOf
<1>4. (panel # Nil => Content!Exists(shown, panel.rel))'
  BY DEF Content!Exists
<1>5. GateWanted'
  BY DEF GateWanted
<1>6. Whole(sketch, turned)' /\ Includes(shown, sketch)'
  OBVIOUS
<1> QED BY <1>1, <1>2, <1>3, <1>4, <1>5, <1>6 DEF ContentInv

\* A step that changes the draft, the check and what was asked for only.
LEMMA ContentStep ==
  ASSUME ContentInv, sketch' \in Content!Graph, Whole(sketch', turned'), Includes(shown, sketch'),
         turned \subseteq turned', wish' \in [Relation -> Content!Audience],
         gate' # Nil => Asked(gate', wish', shown),
         UNCHANGED <<shown, sources, active, meant, panel, sending>>
  PROVE  ContentInv'
<1>1. /\ panel' # Nil => panel' \in PanelRecord /\ Content!Exists(shown, panel'.rel)
      /\ sending' # Nil => /\ sending' \in UploadRecord /\ Whole(sending'.base, turned)
                           /\ Includes(shown, sending'.base)
  BY DEF ContentInv, ContentTyped
<1> QED BY <1>1, PageStep

\* The check after a change that the panel hands over.
LEMMA GateAfter ==
  ASSUME NEW next, Content!handleDraftChange(next)
  PROVE  /\ gate' # Nil =>
              \/ gate' = gate /\ Content!Changed(next) = {}
              \/ /\ gate' \in GateRecord /\ gate'.eligible = "asked"
                 /\ gate'.rel \in Content!Promoted(next) /\ Content!Exists(sketch, gate'.rel)
         /\ sketch' \in {sketch, next}
BY DEF Content!handleDraftChange, Content!Promoted, Content!Changed, GateRecord

\* A change of the draft that the panel hands over keeps the invariant if
\* it leaves a graph whole and notes what was asked for.
LEMMA ContentHandled ==
  ASSUME ContentInv, NEW next \in Content!Graph, Whole(next, turned'), Includes(shown, next),
         turned \subseteq turned', Content!handleDraftChange(next),
         wish' \in [Relation -> Content!Audience],
         Content!Changed(next) = {} => wish' = wish,
         \A r \in Content!Promoted(next) : Content!Exists(sketch, r) => wish'[r] = "public",
         UNCHANGED <<shown, sources, active, meant, panel, sending>>
  PROVE  ContentInv'
<1>1. /\ gate' # Nil =>
           \/ gate' = gate /\ Content!Changed(next) = {}
           \/ /\ gate' \in GateRecord /\ gate'.eligible = "asked"
              /\ gate'.rel \in Content!Promoted(next) /\ Content!Exists(sketch, gate'.rel)
      /\ sketch' \in {sketch, next}
  BY GateAfter
<1>2. gate' # Nil => Asked(gate', wish', shown)
  BY <1>1 DEF ContentInv, GateWanted, Asked
<1>3. Whole(sketch, turned')
  <2>1. Whole(sketch, turned)
    BY DEF ContentInv
  <2> QED BY <2>1 DEF Whole
<1>4. sketch' \in Content!Graph /\ Whole(sketch', turned') /\ Includes(shown, sketch')
  BY <1>1, <1>3 DEF ContentInv, ContentTyped
<1> QED BY <1>1, <1>2, <1>4, ContentStep

\* So does one that keeps all audiences, handed over or not.
LEMMA ContentRevised ==
  ASSUME ContentInv, NEW next \in Content!Graph, Whole(next, turned'), SameAudience(sketch, next),
         turned \subseteq turned',
         \/ Content!handleDraftChange(next)
         \/ sketch' = next /\ gate' = gate,
         UNCHANGED <<shown, sources, active, meant, panel, sending, wish>>
  PROVE  ContentInv'
<1>1. Includes(shown, next)
  BY DEF ContentInv, Includes, SameAudience
<1>2. wish \in [Relation -> Content!Audience]
  BY DEF ContentInv, ContentTyped
<1>3. CASE Content!handleDraftChange(next)
  <2>1. Content!Changed(next) = {}
    BY DEF Content!Changed, SameAudience
  <2>2. Content!Promoted(next) = {}
    BY <2>1 DEF Content!Promoted
  <2> QED BY <1>1, <1>2, <1>3, <2>1, <2>2, ContentHandled
<1>4. CASE sketch' = next /\ gate' = gate
  <2>1. gate' # Nil => Asked(gate', wish', shown)
    BY <1>4 DEF ContentInv, GateWanted
  <2> QED BY <1>1, <1>2, <1>4, <2>1, ContentStep
<1> QED BY <1>3, <1>4

\* A graph stays whole if nothing is drawn: what is active was so, between
\* the same elements, which are still there.
LEMMA NothingDrawn ==
  ASSUME ContentInstance, NEW g \in Content!Graph, NEW h \in Content!Graph, NEW s, NEW t,
         s \subseteq t, Whole(g, s), KeptBut(g, h, {}), TurnedIn(g, h, t),
         \A q \in Relation : Content!Active(h, q) =>
           h.node[h.rel[q].source] = "active" /\ h.node[h.rel[q].target] = "active"
  PROVE  Whole(h, t)
<1>1. ASSUME NEW q \in Relation, Content!Active(h, q)
      PROVE  /\ h.rel[q].source # h.rel[q].target
             /\ {h.rel[q].source, h.rel[q].target} \subseteq Content!Live(h)
  <2>1. h.rel[q] \in Content!Edge
    BY <1>1, EdgeOf
  <2>2. h.rel[q].source \in Figure /\ h.rel[q].target \in Figure
    BY <2>1 DEF Content!Edge
  <2>3. {h.rel[q].source, h.rel[q].target} \subseteq Content!Live(h)
    BY <1>1, <2>2 DEF Content!Live
  <2> QED BY <1>1, <2>3 DEF Whole, KeptBut
<1>2. Joins(h)
  BY <1>1 DEF Joins
<1>3. SaidOnce(h, {})
  BY DEF SaidOnce
<1> QED BY <1>2, <1>3, StaysWhole, {} \in SUBSET Relation

\* The elements of an active relation of a whole graph are active.
LEMMA Joined ==
  ASSUME NEW g, NEW s, Whole(g, s), NEW q \in Relation, Content!Active(g, q)
  PROVE  g.node[g.rel[q].source] = "active" /\ g.node[g.rel[q].target] = "active"
BY DEF Whole, Content!Live

\* The same relations, and no element less.
LEMMA SameRelations ==
  ASSUME ContentInstance, NEW g \in Content!Graph, NEW h \in Content!Graph, NEW s, NEW t,
         s \subseteq t, Whole(g, s), h.rel = g.rel,
         \A n \in Figure : g.node[n] = "active" => h.node[n] = "active",
         TurnedIn(g, h, t)
  PROVE  Whole(h, t) /\ SameAudience(g, h)
<1>1. ASSUME NEW q \in Relation, Content!Active(h, q)
      PROVE  /\ Content!Active(g, q)
             /\ h.node[h.rel[q].source] = "active" /\ h.node[h.rel[q].target] = "active"
  <2>1. Content!Active(g, q)
    BY <1>1 DEF Content!Active, Content!Exists
  <2>2. g.rel[q] \in Content!Edge
    BY <2>1, EdgeOf
  <2>3. g.rel[q].source \in Figure /\ g.rel[q].target \in Figure
    BY <2>2 DEF Content!Edge
  <2>4. g.node[g.rel[q].source] = "active" /\ g.node[g.rel[q].target] = "active"
    BY <2>1, Joined
  <2> QED BY <2>1, <2>3, <2>4
<1>2. KeptBut(g, h, {})
  BY <1>1 DEF KeptBut
<1>3. Whole(h, t)
  BY <1>1, <1>2, NothingDrawn
<1> QED BY <1>3 DEF SameAudience, Content!Exists

LEMMA EntityCreated ==
  ASSUME ContentInstance, ContentInv, NEW n \in Figure, Content!CreateEntity(n)
  PROVE  ContentInv'
<1> DEFINE f == [sketch.node EXCEPT ![n] = "active"]
           h == [sketch EXCEPT !.node = f]
<1>1. sketch \in Content!Graph /\ Whole(sketch, turned)
  BY DEF ContentInv, ContentTyped
<1>2. f \in [Figure -> {"absent", "active", "archived"}]
  BY <1>1, DraftFields
<1>3. h \in Content!Graph /\ h.node = f /\ h.rel = sketch.rel /\ h.type = sketch.type
  BY <1>1, <1>2, NodeWith
<1>4. \A x \in Figure : sketch.node[x] = "active" => h.node[x] = "active"
  BY <1>1, <1>3, DraftFields
<1>5. /\ sketch' = h /\ turned' = turned /\ gate' = gate
      /\ UNCHANGED <<shown, sources, active, meant, panel, sending, wish>>
  BY DEF Content!CreateEntity, Content!Rest, Content!server
<1> HIDE DEF h
<1>6. TurnedIn(sketch, h, turned)
  BY <1>3 DEF TurnedIn
<1>7. Whole(h, turned) /\ SameAudience(sketch, h)
  BY <1>1, <1>3, <1>4, <1>6, SameRelations
<1> QED BY <1>3, <1>5, <1>7, ContentRevised

\* An element is archived with its relations.
LEMMA EntityArchived ==
  ASSUME ContentInstance, ContentInv, NEW n \in Figure, Content!ArchiveEntity(n)
  PROVE  ContentInv'
<1> DEFINE f == [sketch.node EXCEPT ![n] = "archived"]
           k == [r \in Relation |->
                   IF Content!Exists(sketch, r)
                     THEN IF n \in {sketch.rel[r].source, sketch.rel[r].target}
                            THEN [sketch.rel[r] EXCEPT !.status = "archived"] ELSE sketch.rel[r]
                     ELSE Nil]
           g == [sketch EXCEPT !.node = f]
           h == [g EXCEPT !.rel = k]
<1>1. sketch \in Content!Graph /\ Whole(sketch, turned)
  BY DEF ContentInv, ContentTyped
<1>2. f \in [Figure -> {"absent", "active", "archived"}]
  BY <1>1, DraftFields
<1>3. ASSUME NEW r \in Relation
      PROVE  /\ k[r] \in Content!Edge \cup {Nil}
             /\ k[r] # Nil <=> Content!Exists(sketch, r)
             /\ Content!Exists(sketch, r) =>
                  /\ k[r].source = sketch.rel[r].source /\ k[r].target = sketch.rel[r].target
                  /\ k[r].type = sketch.rel[r].type /\ k[r].vis = sketch.rel[r].vis
                  /\ k[r].status = "active" =>
                       sketch.rel[r].status = "active" /\ n \notin {k[r].source, k[r].target}
  <2>1. CASE Content!Exists(sketch, r)
    <3>1. sketch.rel[r] \in Content!Edge
      BY <1>1, <2>1, EdgeOf
    <3>2. k[r] \in Content!Edge
      BY <2>1, <3>1 DEF Content!Edge
    <3>3. k[r] # Nil
      BY <3>2 DEF ContentInstance
    <3>4. k[r] = IF n \in {sketch.rel[r].source, sketch.rel[r].target}
                   THEN [sketch.rel[r] EXCEPT !.status = "archived"] ELSE sketch.rel[r]
      BY <2>1
    <3> HIDE DEF k
    <3> QED BY <2>1, <3>1, <3>2, <3>3, <3>4 DEF Content!Edge
  <2>2. CASE ~ Content!Exists(sketch, r)
    BY <2>2
  <2> QED BY <2>1, <2>2
<1>4. k \in [Relation -> Content!Edge \cup {Nil}]
  BY <1>3
<1>5. g \in Content!Graph /\ g.node = f /\ g.type = sketch.type
  BY <1>1, <1>2, NodeWith
<1>6. h \in Content!Graph /\ h.node = f /\ h.rel = k /\ h.type = sketch.type
  BY <1>4, <1>5, RelationsWith
<1>7. /\ Content!handleDraftChange(h) /\ turned' = turned
      /\ UNCHANGED <<shown, sources, active, meant, panel, sending, wish>>
  BY DEF Content!ArchiveEntity, Content!Archived, Content!Rest, Content!server
<1> HIDE DEF h, k, g
<1>8. ASSUME NEW q \in Relation, Content!Active(h, q)
      PROVE  /\ Content!Active(sketch, q)
             /\ h.rel[q].source = sketch.rel[q].source /\ h.rel[q].target = sketch.rel[q].target
             /\ h.rel[q].type = sketch.rel[q].type
             /\ h.node[h.rel[q].source] = "active" /\ h.node[h.rel[q].target] = "active"
  <2>1. k[q] # Nil /\ k[q].status = "active"
    BY <1>6, <1>8 DEF Content!Active, Content!Exists
  <2>2. /\ Content!Active(sketch, q)
        /\ k[q].source = sketch.rel[q].source /\ k[q].target = sketch.rel[q].target
        /\ k[q].type = sketch.rel[q].type /\ n \notin {k[q].source, k[q].target}
    BY <1>3, <2>1 DEF Content!Active
  <2>3. /\ sketch.node[sketch.rel[q].source] = "active"
        /\ sketch.node[sketch.rel[q].target] = "active"
    BY <1>1, <2>2, Joined
  <2>4. sketch.node \in [Figure -> {"absent", "active", "archived"}]
    BY <1>1, DraftFields
  <2>5. f[k[q].source] = "active" /\ f[k[q].target] = "active"
    <3>1. sketch.rel[q] \in Content!Edge
      BY <1>1, <2>2, EdgeOf
    <3>2. sketch.rel[q].source \in Figure /\ sketch.rel[q].target \in Figure
      BY <3>1 DEF Content!Edge
    <3> QED BY <2>2, <2>3, <2>4, <3>2
  <2> QED BY <1>6, <2>2, <2>5
<1>9. Whole(h, turned)
  <2>1. KeptBut(sketch, h, {}) /\ TurnedIn(sketch, h, turned)
    BY <1>6, <1>8 DEF KeptBut, TurnedIn
  <2>2. \A q \in Relation : Content!Active(h, q) =>
          h.node[h.rel[q].source] = "active" /\ h.node[h.rel[q].target] = "active"
    BY <1>8
  <2>3. h \in Content!Graph
    BY <1>6
  <2> HIDE DEF f
  <2> QED BY <1>1, <2>1, <2>2, <2>3, NothingDrawn
<1>10. SameAudience(sketch, h)
  BY <1>3, <1>6 DEF SameAudience, Content!Exists
<1> QED BY <1>6, <1>7, <1>9, <1>10, ContentRevised

\* The type of a relation loses or gains a direction, or is put away.
LEMMA TypeSet ==
  ASSUME ContentInstance, ContentInv, NEW y \in Type, NEW d \in BOOLEAN, NEW a \in BOOLEAN,
         Content!SetType(y, d, a)
  PROVE  ContentInv'
<1> DEFINE f == [sketch.type EXCEPT ![y] = [directed |-> d, active |-> a]]
           h == [sketch EXCEPT !.type = f]
<1>1. sketch \in Content!Graph /\ Whole(sketch, turned)
  BY DEF ContentInv, ContentTyped
<1>2. f \in [Type -> [directed : BOOLEAN, active : BOOLEAN]]
  BY <1>1, DraftFields
<1>3. h \in Content!Graph /\ h.type = f /\ h.rel = sketch.rel /\ h.node = sketch.node
  BY <1>1, <1>2, TypeWith
<1>4. /\ Content!handleDraftChange(h)
      /\ turned' = IF sketch.type[y].directed /\ ~ d THEN turned \cup {y} ELSE turned
      /\ UNCHANGED <<shown, sources, active, meant, panel, sending, wish>>
  BY DEF Content!SetType, Content!Rest, Content!server
<1>5. ASSUME NEW z \in Type, ~ h.type[z].directed
      PROVE  ~ sketch.type[z].directed \/ z \in turned'
  <2>1. CASE z = y
    <3>1. h.type[z].directed = d
      BY <1>1, <1>3, <2>1, DraftFields
    <3> QED BY <1>4, <1>5, <2>1, <3>1
  <2>2. CASE z # y
    <3>1. h.type[z] = sketch.type[z]
      BY <1>1, <1>3, <2>2, DraftFields
    <3> QED BY <1>5, <3>1
  <2> QED BY <2>1, <2>2
<1> HIDE DEF h
<1>6. Whole(h, turned') /\ SameAudience(sketch, h)
  <2>1. TurnedIn(sketch, h, turned') /\ turned \subseteq turned'
    BY <1>4, <1>5 DEF TurnedIn
  <2> QED BY <1>1, <1>3, <2>1, SameRelations
<1> QED BY <1>3, <1>4, <1>6, ContentRevised

\* A portrait is removed, or nothing that is kept here is changed.
LEMMA Retouched ==
  ASSUME ContentInstance, ContentInv,
         Content!Retouch \/ \E n \in Figure : Content!RemovePortrait(n)
  PROVE  ContentInv'
<1>1. sketch \in Content!Graph /\ Whole(sketch, turned)
  BY DEF ContentInv, ContentTyped
<1>2. PICK h \in Content!Graph : /\ Content!handleDraftChange(h)
                                 /\ h.rel = sketch.rel /\ h.node = sketch.node
                                 /\ h.type = sketch.type
  <2>1. CASE Content!Retouch
    BY <1>1, <2>1 DEF Content!Retouch
  <2>2. CASE \E n \in Figure : Content!RemovePortrait(n)
    <3>1. PICK n \in Figure : Content!RemovePortrait(n)
      BY <2>2
    <3> DEFINE f == [sketch.portrait EXCEPT ![n] = FALSE]
               h == [sketch EXCEPT !.portrait = f]
    <3>2. f \in [Figure -> BOOLEAN]
      BY <1>1, DraftFields
    <3>3. h \in Content!Graph /\ h.rel = sketch.rel /\ h.node = sketch.node /\ h.type = sketch.type
      BY <1>1, <3>2, PortraitWith
    <3>4. Content!handleDraftChange(h)
      BY <3>1 DEF Content!RemovePortrait
    <3> QED BY <3>3, <3>4
  <2> QED BY <2>1, <2>2
<1>3. /\ turned' = turned
      /\ UNCHANGED <<shown, sources, active, meant, panel, sending, wish>>
  BY DEF Content!Retouch, Content!RemovePortrait, Content!Rest, Content!server
<1>4. Whole(h, turned) /\ SameAudience(sketch, h)
  <2>1. TurnedIn(sketch, h, turned)
    BY <1>2 DEF TurnedIn
  <2> QED BY <1>1, <1>2, <2>1, SameRelations
<1> QED BY <1>2, <1>3, <1>4, ContentRevised

\* One relation is marked: archived, or shown to others.
LEMMA Marked ==
  ASSUME ContentInstance, NEW g \in Content!Graph, NEW t, Whole(g, t), NEW r \in Relation,
         Content!Exists(g, r), NEW e \in Content!Edge,
         e.source = g.rel[r].source, e.target = g.rel[r].target, e.type = g.rel[r].type,
         e.status = "active" => g.rel[r].status = "active",
         NEW h, h = WithRel(g, [g.rel EXCEPT ![r] = e])
  PROVE  /\ h \in Content!Graph /\ Whole(h, t)
         /\ h.rel[r] = e /\ \A q \in Relation \ {r} : h.rel[q] = g.rel[q]
         /\ \A q \in Relation : Content!Exists(h, q) <=> Content!Exists(g, q)
<1> DEFINE f == [g.rel EXCEPT ![r] = e]
<1>1. f \in [Relation -> Content!Edge \cup {Nil}]
  BY DraftFields
<1>2. h \in Content!Graph /\ h.rel = f /\ h.node = g.node /\ h.type = g.type
  BY <1>1, RelWith
<1>3. h.rel[r] = e /\ \A q \in Relation \ {r} : h.rel[q] = g.rel[q]
  BY <1>2, DraftFields
<1>4. e # Nil
  BY DEF ContentInstance
<1>5. \A q \in Relation : Content!Exists(h, q) <=> Content!Exists(g, q)
  BY <1>3, <1>4 DEF Content!Exists
<1>6. ASSUME NEW q \in Relation, Content!Active(h, q)
      PROVE  /\ Content!Active(g, q)
             /\ h.rel[q].source = g.rel[q].source /\ h.rel[q].target = g.rel[q].target
             /\ h.rel[q].type = g.rel[q].type
             /\ h.node[h.rel[q].source] = "active" /\ h.node[h.rel[q].target] = "active"
  <2>1. /\ Content!Active(g, q)
        /\ h.rel[q].source = g.rel[q].source /\ h.rel[q].target = g.rel[q].target
        /\ h.rel[q].type = g.rel[q].type
    BY <1>3, <1>5, <1>6 DEF Content!Active
  <2> QED BY <1>2, <2>1, Joined
<1>7. Whole(h, t)
  <2>1. KeptBut(g, h, {}) /\ TurnedIn(g, h, t)
    BY <1>2, <1>6 DEF KeptBut, TurnedIn
  <2> QED BY <1>2, <1>6, <2>1, NothingDrawn
<1> QED BY <1>2, <1>3, <1>5, <1>7

\* A relation is archived.
LEMMA RelationArchived ==
  ASSUME ContentInstance, ContentInv, NEW r \in Relation, Content!ArchiveRelation(r)
  PROVE  ContentInv'
<1>1. sketch \in Content!Graph /\ Whole(sketch, turned)
  BY DEF ContentInv, ContentTyped
<1>2. Content!Active(sketch, r) /\ Content!Exists(sketch, r)
  BY DEF Content!ArchiveRelation, Content!Active
<1>3. PICK e : e = [sketch.rel[r] EXCEPT !.status = "archived"]
  OBVIOUS
<1>4. sketch.rel[r] \in Content!Edge
  BY <1>1, <1>2, EdgeOf
<1>5. /\ e \in Content!Edge /\ e.source = sketch.rel[r].source /\ e.target = sketch.rel[r].target
      /\ e.type = sketch.rel[r].type /\ e.status # "active" /\ e.vis = sketch.rel[r].vis
  BY <1>3, <1>4 DEF Content!Edge
<1>6. PICK h : h = WithRel(sketch, [sketch.rel EXCEPT ![r] = e])
  OBVIOUS
<1>7. /\ Content!handleDraftChange(h) /\ turned' = turned
      /\ UNCHANGED <<shown, sources, active, meant, panel, sending, wish>>
  BY <1>3, <1>6 DEF Content!ArchiveRelation, Content!Rest, Content!server, WithRel
<1>8. /\ h \in Content!Graph /\ Whole(h, turned)
      /\ h.rel[r] = e /\ \A q \in Relation \ {r} : h.rel[q] = sketch.rel[q]
      /\ \A q \in Relation : Content!Exists(h, q) <=> Content!Exists(sketch, q)
  <2>1. e.status = "active" => sketch.rel[r].status = "active"
    BY <1>5
  <2> QED BY ONLY ContentInstance, <1>1, <1>2, <1>5, <1>6, <2>1, Marked
<1>9. SameAudience(sketch, h)
  BY <1>5, <1>8 DEF SameAudience
<1> QED BY <1>7, <1>8, <1>9, ContentRevised

\* An audience is chosen: the check runs for the last one asked for.
LEMMA VisibilitySet ==
  ASSUME ContentInstance, ContentInv, NEW r \in Relation, NEW v \in Content!Audience,
         Content!SetVisibility(r, v)
  PROVE  ContentInv'
<1>1. /\ sketch \in Content!Graph /\ Whole(sketch, turned) /\ Includes(shown, sketch)
      /\ wish \in [Relation -> Content!Audience]
  BY DEF ContentInv, ContentTyped
<1>2. Content!Exists(sketch, r)
  BY DEF Content!SetVisibility
<1>3. PICK e : e = [sketch.rel[r] EXCEPT !.vis = v]
  OBVIOUS
<1>4. sketch.rel[r] \in Content!Edge
  BY <1>1, <1>2, EdgeOf
<1>5. /\ e \in Content!Edge /\ e.source = sketch.rel[r].source /\ e.target = sketch.rel[r].target
      /\ e.type = sketch.rel[r].type /\ e.status = sketch.rel[r].status /\ e.vis = v
  BY <1>3, <1>4 DEF Content!Edge
<1>6. PICK h : h = WithRel(sketch, [sketch.rel EXCEPT ![r] = e])
  OBVIOUS
<1>7. /\ Content!handleDraftChange(h) /\ turned' = turned
      /\ UNCHANGED <<shown, sources, active, meant, panel, sending>>
      /\ wish' = IF sketch.rel[r].vis = v THEN wish ELSE [wish EXCEPT ![r] = v]
  BY <1>3, <1>6 DEF Content!SetVisibility, Content!Rest, Content!server, WithRel
<1>8. /\ h \in Content!Graph /\ Whole(h, turned)
      /\ h.rel[r] = e /\ \A q \in Relation \ {r} : h.rel[q] = sketch.rel[q]
      /\ \A q \in Relation : Content!Exists(h, q) <=> Content!Exists(sketch, q)
  <2>1. e.status = "active" => sketch.rel[r].status = "active"
    BY <1>5
  <2> QED BY ONLY ContentInstance, <1>1, <1>2, <1>5, <1>6, <2>1, Marked
<1>9. Includes(shown, h)
  BY <1>1, <1>8 DEF Includes
<1>10. wish' \in [Relation -> Content!Audience]
  BY <1>1, <1>7
<1>11. Content!Changed(h) = {} => wish' = wish
  <2>1. CASE sketch.rel[r].vis = v
    BY <1>7, <2>1
  <2>2. CASE sketch.rel[r].vis # v
    <3>1. r \in Content!Changed(h)
      BY <1>2, <1>5, <1>8, <2>2 DEF Content!Changed
    <3> QED BY <3>1
  <2> QED BY <2>1, <2>2
<1>12. ASSUME NEW q \in Content!Promoted(h), Content!Exists(sketch, q) PROVE wish'[q] = "public"
  <2>1. /\ q \in Relation /\ sketch.rel[q].vis # h.rel[q].vis /\ h.rel[q].vis = "public"
    BY <1>12 DEF Content!Promoted, Content!Changed, Content!Public
  <2>2. q = r
    BY <1>8, <2>1
  <2> QED BY <1>1, <1>5, <1>7, <1>8, <2>1, <2>2
<1> QED BY <1>7, <1>8, <1>9, <1>10, <1>11, <1>12, ContentHandled

\* The answer of the check is applied to the draft there is.
LEMMA GateAnswered ==
  ASSUME ContentInstance, ContentInv, Content!GateAnswers PROVE ContentInv'
<1>1. /\ sketch \in Content!Graph /\ Whole(sketch, turned) /\ Includes(shown, sketch)
      /\ wish \in [Relation -> Content!Audience] /\ gate # Nil /\ gate \in GateRecord
  BY DEF ContentInv, ContentTyped, Content!GateAnswers, GateWanted, Asked
<1>2. /\ gate' = Nil /\ turned' = turned /\ wish' = wish
      /\ UNCHANGED <<shown, sources, active, meant, panel, sending>>
  BY DEF Content!GateAnswers, Content!Rest, Content!server
<1>3. PICK r \in Relation : r = gate.rel
  BY <1>1 DEF GateRecord
<1>4. CASE sketch' = sketch
  BY <1>1, <1>2, <1>4, ContentStep
<1>5. CASE Content!Active(sketch, r) /\ sketch' = [sketch EXCEPT !.rel[r].vis = "public"]
  <2>1. Content!Exists(sketch, r) /\ sketch.rel[r] \in Content!Edge
    BY <1>1, <1>5, EdgeOf
  <2>2. PICK e : e = [sketch.rel[r] EXCEPT !.vis = "public"]
    OBVIOUS
  <2>3. /\ e \in Content!Edge /\ e.source = sketch.rel[r].source
        /\ e.target = sketch.rel[r].target /\ e.type = sketch.rel[r].type
        /\ e.status = sketch.rel[r].status
    BY <2>1, <2>2 DEF Content!Edge, Content!Audience
  <2>4. sketch' = WithRel(sketch, [sketch.rel EXCEPT ![r] = e])
    BY <1>5, <2>2 DEF WithRel
  <2>5. PICK h : h = sketch'
    OBVIOUS
  <2>6. /\ h \in Content!Graph /\ Whole(h, turned)
        /\ \A q \in Relation : Content!Exists(h, q) <=> Content!Exists(sketch, q)
    BY <1>1, <2>1, <2>3, <2>4, <2>5, Marked
  <2>7. Includes(shown, h)
    BY <1>1, <2>6 DEF Includes
  <2> QED BY <1>1, <1>2, <2>5, <2>6, <2>7, ContentStep
<1> QED BY <1>3, <1>4, <1>5 DEF Content!GateAnswers

\* A relation that says something new joins the graph.
LEMMA RelationAppended ==
  ASSUME ContentInstance, NEW g \in Content!Graph, NEW t, Whole(g, t), NEW r \in Relation,
         ~ Content!Exists(g, r), NEW m \in Content!Meaning, NEW v \in Content!Audience,
         Content!CanAppend(g, m), NEW h, h = Content!Append(g, r, m, v)
  PROVE  /\ h \in Content!Graph /\ Whole(h, t) /\ Content!Exists(h, r) /\ h.rel[r].vis = v
         /\ \A q \in Relation \ {r} : h.rel[q] = g.rel[q]
<1>1. PICK e : e = [source |-> m.source, target |-> m.target, type |-> m.type,
                    status |-> "active", vis |-> v]
  OBVIOUS
<1>2. e \in Content!Edge /\ e # Nil /\ Content!MeaningOf(e) = m
  BY <1>1 DEF Content!Edge, Content!Meaning, Content!MeaningOf, ContentInstance
<1> DEFINE f == [g.rel EXCEPT ![r] = e]
<1>3. f \in [Relation -> Content!Edge \cup {Nil}]
  BY <1>2, DraftFields
<1>4. h = WithRel(g, f)
  BY <1>1 DEF Content!Append, WithRel
<1>5. h \in Content!Graph /\ h.rel = f /\ h.node = g.node /\ h.type = g.type
  BY <1>3, <1>4, RelWith
<1>6. h.rel[r] = e /\ \A q \in Relation \ {r} : h.rel[q] = g.rel[q]
  BY <1>5, DraftFields
<1>7. \A q \in Relation \ {r} : Content!Active(h, q) => Content!Active(g, q)
  BY <1>6 DEF Content!Active, Content!Exists
<1>8. ASSUME NEW q \in Relation, Content!Active(h, q)
      PROVE  /\ h.rel[q].source # h.rel[q].target
             /\ {h.rel[q].source, h.rel[q].target} \subseteq Content!Live(h)
  <2>1. Content!Live(h) = Content!Live(g)
    BY <1>5 DEF Content!Live
  <2>2. CASE q = r
    BY <1>1, <1>6, <2>1, <2>2 DEF Content!CanAppend
  <2>3. CASE q # r
    BY <1>6, <1>7, <1>8, <2>1, <2>3 DEF Whole
  <2> QED BY <2>2, <2>3
<1>9. Content!Duplicates(h, Content!MeaningOf(h.rel[r]), r) = {}
  <2> SUFFICES ASSUME NEW p \in Content!Duplicates(h, m, r) PROVE FALSE
    BY <1>2, <1>6
  <2>1. p \in Relation \ {r} /\ Content!Active(h, p) /\ Content!Same(h, m, h.rel[p])
    BY DEF Content!Duplicates
  <2>2. Content!Active(g, p) /\ Content!Same(g, m, g.rel[p])
    BY <1>5, <1>6, <1>7, <2>1 DEF Content!Same
  <2>3. p \in Content!Duplicates(g, m, r)
    BY <2>1, <2>2 DEF Content!Duplicates
  <2> QED BY <2>3 DEF Content!CanAppend
<1>10. Whole(h, t)
  <2>1. KeptBut(g, h, {r}) /\ Joins(h) /\ SaidOnce(h, {r}) /\ TurnedIn(g, h, t)
    BY <1>5, <1>6, <1>7, <1>8, <1>9 DEF KeptBut, Joins, SaidOnce, TurnedIn
  <2> QED BY <1>5, <2>1, StaysWhole, {r} \in SUBSET Relation
<1>11. Content!Exists(h, r)
  BY <1>2, <1>6 DEF Content!Exists
<1> QED BY <1>1, <1>5, <1>6, <1>10, <1>11

\* A relation takes another meaning, and the equivalent ones are archived.
LEMMA Remeant ==
  ASSUME ContentInstance, NEW g \in Content!Graph, NEW t, Whole(g, t), NEW r \in Relation,
         Content!Active(g, r), NEW m \in Content!Meaning, m.source # m.target,
         {m.source, m.target} \subseteq Content!Live(g), NEW h, h = Content!Remean(g, r, m)
  PROVE  h \in Content!Graph /\ Whole(h, t) /\ SameAudience(g, h)
<1> DEFINE D == Content!Duplicates(g, m, r)
           k == [q \in Relation |-> IF q \in D THEN [g.rel[q] EXCEPT !.status = "archived"]
                                    ELSE g.rel[q]]
<1>1. r \notin D /\ \A q \in D : q \in Relation /\ Content!Active(g, q)
  BY DEF Content!Duplicates
<1>2. PICK e : e = [g.rel[r] EXCEPT !.source = m.source, !.target = m.target, !.type = m.type]
  OBVIOUS
<1>3. g.rel[r] \in Content!Edge /\ \A q \in D : g.rel[q] \in Content!Edge
  BY <1>1, EdgeOf
<1>4. /\ e \in Content!Edge /\ Content!MeaningOf(e) = m /\ e.vis = g.rel[r].vis
      /\ e.source = m.source /\ e.target = m.target
  BY <1>2, <1>3 DEF Content!Edge, Content!Meaning, Content!MeaningOf
<1> HIDE DEF D
<1>5. ASSUME NEW q \in Relation
      PROVE  /\ q \in D => /\ k[q] \in Content!Edge /\ k[q].status = "archived"
                           /\ k[q].vis = g.rel[q].vis
             /\ q \notin D => k[q] = g.rel[q]
  BY <1>3 DEF Content!Edge
<1>6. k \in [Relation -> Content!Edge \cup {Nil}]
  BY <1>5, DraftFields
<1> DEFINE f == [k EXCEPT ![r] = e]
<1>7. f \in [Relation -> Content!Edge \cup {Nil}]
  BY <1>4, <1>6
<1>8. h = WithRel(g, f)
  <2>1. k[r] = g.rel[r]
    BY <1>1, <1>5
  <2>2. PICK a : a = [g EXCEPT !.rel = k]
    OBVIOUS
  <2>3. a = Content!archiveEquivalentRelations(g, r, m)
    BY <2>2 DEF Content!archiveEquivalentRelations, D
  <2>4. a \in Content!Graph /\ a.rel = k
    BY <1>6, <2>2, RelationsWith
  <2>5. h = [a EXCEPT !.rel = [a.rel EXCEPT ![r] =
               [a.rel[r] EXCEPT !.source = m.source, !.target = m.target, !.type = m.type]]]
    BY <2>3 DEF Content!Remean
  <2>6. h = [a EXCEPT !.rel = f]
    BY <1>2, <2>1, <2>4, <2>5
  <2> QED BY <2>2, <2>4, <2>6 DEF Content!Graph, WithRel
<1> HIDE DEF f
<1>9. h \in Content!Graph /\ h.rel = f /\ h.node = g.node /\ h.type = g.type
  BY <1>7, <1>8, RelWith
<1>10. h.rel[r] = e /\ \A q \in Relation \ {r} : h.rel[q] = k[q]
  BY <1>6, <1>9 DEF f
<1> HIDE DEF k
<1>11. ASSUME NEW q \in Relation \ {r}, Content!Active(h, q)
       PROVE  q \notin D /\ h.rel[q] = g.rel[q] /\ Content!Active(g, q)
  <2>1. q \notin D
    BY <1>5, <1>10, <1>11 DEF Content!Active
  <2> QED BY <1>5, <1>10, <1>11, <2>1 DEF Content!Active, Content!Exists
<1>12. ASSUME NEW q \in Relation, Content!Active(h, q)
       PROVE  /\ h.rel[q].source # h.rel[q].target
              /\ {h.rel[q].source, h.rel[q].target} \subseteq Content!Live(h)
  <2>1. Content!Live(h) = Content!Live(g)
    BY <1>9 DEF Content!Live
  <2>2. CASE q = r
    BY <1>4, <1>10, <2>1, <2>2
  <2>3. CASE q # r
    BY <1>11, <1>12, <2>1, <2>3 DEF Whole
  <2> QED BY <2>2, <2>3
<1>13. Content!Duplicates(h, Content!MeaningOf(h.rel[r]), r) = {}
  <2> SUFFICES ASSUME NEW p \in Content!Duplicates(h, m, r) PROVE FALSE
    BY <1>4, <1>10
  <2>1. p \in Relation \ {r} /\ Content!Active(h, p) /\ Content!Same(h, m, h.rel[p])
    BY DEF Content!Duplicates
  <2>2. p \notin D /\ Content!Active(g, p) /\ Content!Same(g, m, g.rel[p])
    BY <1>9, <1>11, <2>1 DEF Content!Same
  <2> QED BY <2>1, <2>2 DEF Content!Duplicates, D
<1>14. Whole(h, t)
  <2>1. KeptBut(g, h, {r}) /\ Joins(h) /\ SaidOnce(h, {r}) /\ TurnedIn(g, h, t)
    BY <1>9, <1>11, <1>12, <1>13 DEF KeptBut, Joins, SaidOnce, TurnedIn
  <2> QED BY <1>9, <2>1, StaysWhole, {r} \in SUBSET Relation
<1>15. ASSUME NEW q \in Relation
       PROVE  /\ Content!Exists(h, q) <=> Content!Exists(g, q)
              /\ Content!Exists(g, q) => h.rel[q].vis = g.rel[q].vis
  <2>1. CASE q = r
    BY <1>3, <1>4, <1>9, <1>10, <2>1, EdgeOf
  <2>2. CASE q # r /\ q \in D
    BY <1>3, <1>5, <1>9, <1>10, <2>2, EdgeOf
  <2>3. CASE q # r /\ q \notin D
    BY <1>5, <1>10, <2>3 DEF Content!Exists
  <2> QED BY <2>1, <2>2, <2>3
<1> QED BY <1>9, <1>14, <1>15 DEF SameAudience

\* A relation is created by the form or on the canvas.
LEMMA RelationCreated ==
  ASSUME ContentInstance, ContentInv, NEW r \in Relation, NEW m \in Content!Meaning,
         NEW v \in Content!Audience, Content!CreateRelation(r, m, v)
  PROVE  ContentInv'
<1>1. /\ sketch \in Content!Graph /\ Whole(sketch, turned) /\ Includes(shown, sketch)
      /\ wish \in [Relation -> Content!Audience] /\ GateWanted
  BY DEF ContentInv, ContentTyped
<1>2. /\ ~ Content!Exists(sketch, r) /\ ~ Content!Exists(shown, r)
      /\ Content!CanAppend(sketch, m) /\ turned' = turned /\ wish' = [wish EXCEPT ![r] = v]
      /\ UNCHANGED <<shown, sources, active, meant, panel, sending>>
  BY DEF Content!CreateRelation, Content!Rest, Content!server
<1>3. PICK h : h = Content!Append(sketch, r, m, v)
  OBVIOUS
<1>4. /\ h \in Content!Graph /\ Whole(h, turned) /\ Content!Exists(h, r)
      /\ \A q \in Relation \ {r} : h.rel[q] = sketch.rel[q]
  BY <1>1, <1>2, <1>3, RelationAppended
<1>5. Includes(shown, h)
  BY <1>1, <1>4 DEF Includes, Content!Exists
<1>6. wish' \in [Relation -> Content!Audience]
  BY <1>1, <1>2
<1>7. CASE Content!handleDraftChange(h)
  <2>1. r \in Content!Changed(h)
    BY <1>2, <1>4 DEF Content!Changed
  <2>2. \A q \in Content!Promoted(h) : ~ Content!Exists(sketch, q)
    BY <1>2, <1>4 DEF Content!Promoted, Content!Changed, Content!Exists
  <2> QED BY <1>2, <1>4, <1>5, <1>6, <1>7, <2>1, <2>2, ContentHandled
<1>8. CASE sketch' = h /\ gate' = gate
  <2>1. gate' # Nil => Asked(gate', wish', shown)
    BY <1>1, <1>2, <1>8 DEF GateWanted, Asked, GateRecord
  <2> QED BY <1>1, <1>2, <1>4, <1>5, <1>6, <1>8, <2>1, ContentStep
<1> QED BY <1>3, <1>7, <1>8 DEF Content!CreateRelation

\* A relation gets another type, or is reconnected.
LEMMA RelationRemeant ==
  ASSUME ContentInstance, ContentInv, NEW r \in Relation,
         \/ \E y \in Type : Content!changeWorldDraftRelationType(r, y)
         \/ \E p \in Line : Content!reconnectRelation(r, p)
  PROVE  ContentInv'
<1>1. sketch \in Content!Graph /\ Whole(sketch, turned)
  BY DEF ContentInv, ContentTyped
<1>2. Content!Active(sketch, r)
  BY DEF Content!changeWorldDraftRelationType, Content!reconnectRelation
<1>3. sketch.rel[r] \in Content!Edge
  BY <1>1, <1>2, EdgeOf
<1>4. PICK m \in Content!Meaning :
        /\ m.source # m.target /\ {m.source, m.target} \subseteq Content!Live(sketch)
        /\ \/ Content!handleDraftChange(Content!Remean(sketch, r, m))
           \/ sketch' = Content!Remean(sketch, r, m) /\ gate' = gate
  <2>1. ASSUME NEW y \in Type, Content!changeWorldDraftRelationType(r, y)
        PROVE  \E m \in Content!Meaning :
                 /\ m.source # m.target /\ {m.source, m.target} \subseteq Content!Live(sketch)
                 /\ Content!handleDraftChange(Content!Remean(sketch, r, m))
    <3>1. PICK m : m = [Content!MeaningOf(sketch.rel[r]) EXCEPT !.type = y]
      OBVIOUS
    <3>2. /\ m \in Content!Meaning /\ m.source = sketch.rel[r].source
          /\ m.target = sketch.rel[r].target
      BY <1>3, <3>1 DEF Content!MeaningOf, Content!Meaning, Content!Edge
    <3>3. m.source # m.target /\ {m.source, m.target} \subseteq Content!Live(sketch)
      BY <1>1, <1>2, <3>2 DEF Whole
    <3> QED BY <2>1, <3>1, <3>2, <3>3 DEF Content!changeWorldDraftRelationType
  <2>2. ASSUME NEW p \in Line, Content!reconnectRelation(r, p)
        PROVE  \E m \in Content!Meaning :
                 /\ m.source # m.target /\ {m.source, m.target} \subseteq Content!Live(sketch)
                 /\ sketch' = Content!Remean(sketch, r, m) /\ gate' = gate
    <3>1. PICK m : m = [source |-> p[1], target |-> p[2], type |-> sketch.rel[r].type]
      OBVIOUS
    <3>2. {p[1], p[2]} \subseteq Figure /\ p[1] # p[2]
      BY DEF ContentInstance
    <3>3. m \in Content!Meaning
      BY <1>3, <3>1, <3>2 DEF Content!Meaning, Content!Edge
    <3> QED BY <2>2, <3>1, <3>2, <3>3 DEF Content!reconnectRelation, Content!Rest
  <2> QED BY <2>1, <2>2
<1>5. PICK h : h = Content!Remean(sketch, r, m)
  OBVIOUS
<1>6. h \in Content!Graph /\ Whole(h, turned) /\ SameAudience(sketch, h)
  BY <1>1, <1>2, <1>4, <1>5, Remeant
<1>7. turned' = turned /\ UNCHANGED <<shown, sources, active, meant, panel, sending, wish>>
  BY DEF Content!changeWorldDraftRelationType, Content!reconnectRelation, Content!Rest,
    Content!server
<1> QED BY <1>4, <1>5, <1>6, <1>7, ContentRevised

\* The check is asked, the panel opens and closes, an upload starts and ends.
LEMMA PageActs ==
  ASSUME ContentInstance, ContentInv,
         \/ Content!GateReads \/ Content!ClosePanel \/ Content!EndUpload
         \/ \E r \in Relation : Content!OpenPanel(r)
         \/ \E n \in Portrayed : Content!StartUpload(n)
  PROVE  ContentInv'
<1>1. /\ sketch \in Content!Graph /\ Whole(sketch, turned) /\ Includes(shown, sketch)
      /\ wish \in [Relation -> Content!Audience] /\ GateWanted
      /\ panel # Nil => panel \in PanelRecord /\ Content!Exists(shown, panel.rel)
      /\ sending # Nil => /\ sending \in UploadRecord /\ Whole(sending.base, turned)
                          /\ Includes(shown, sending.base)
      /\ active \in SUBSET Decided
  BY DEF ContentInv, ContentTyped
<1>2. CASE Content!GateReads
  <2>1. Asked(gate', wish, shown)
    BY <1>1, <1>2 DEF Content!GateReads, Content!Eligible, GateWanted, Asked, GateRecord
  <2>2. /\ sketch' = sketch /\ turned' = turned /\ wish' = wish
        /\ UNCHANGED <<shown, sources, active, meant, panel, sending>>
    BY <1>2 DEF Content!GateReads, Content!Rest, Content!server
  <2> QED BY <1>1, <2>1, <2>2, ContentStep
<1>3. CASE Content!ClosePanel \/ \E r \in Relation : Content!OpenPanel(r)
  <2>1. panel' # Nil => panel' \in PanelRecord /\ Content!Exists(shown, panel'.rel)
    BY <1>1, <1>3 DEF Content!ClosePanel, Content!OpenPanel, PanelRecord
  <2>2. /\ sketch' = sketch /\ turned' = turned /\ wish' = wish /\ gate' = gate
        /\ UNCHANGED <<shown, sources, active, meant, sending>>
    BY <1>3 DEF Content!ClosePanel, Content!OpenPanel, Content!server
  <2> QED BY <1>1, <2>1, <2>2, PageStep DEF GateWanted
<1>4. CASE \E n \in Portrayed : Content!StartUpload(n)
  <2>1. PICK n \in Figure : Content!StartUpload(n)
    BY <1>4 DEF ContentInstance
  <2>2. sending' = [node |-> n, base |-> sketch]
    BY <2>1 DEF Content!StartUpload
  <2>3. sending' \in UploadRecord /\ sending'.base = sketch
    BY <1>1, <2>2 DEF UploadRecord
  <2>4. /\ sketch' = sketch /\ turned' = turned /\ wish' = wish /\ gate' = gate
        /\ UNCHANGED <<shown, sources, active, meant, panel>>
    BY <2>1 DEF Content!StartUpload, Content!server
  <2> QED BY <1>1, <2>3, <2>4, PageStep DEF GateWanted
<1>5. CASE Content!EndUpload
  <2>1. /\ sending # Nil /\ sending' = Nil /\ turned' = turned /\ wish' = wish /\ gate' = gate
        /\ UNCHANGED <<shown, sources, active, meant, panel>>
    BY <1>5 DEF Content!EndUpload, Content!server
  <2>2. CASE sketch' = sketch
    BY <1>1, <2>1, <2>2, PageStep DEF GateWanted
  <2>3. CASE sketch' = [sending.base EXCEPT !.portrait[sending.node] = TRUE]
    <3>1. PICK g \in Content!Graph, n \in Figure : g = sending.base /\ n = sending.node
      BY <1>1, <2>1 DEF UploadRecord
    <3> DEFINE f == [g.portrait EXCEPT ![n] = TRUE]
    <3>2. f \in [Figure -> BOOLEAN]
      BY DraftFields
    <3>3. PICK h : h = [g EXCEPT !.portrait = f]
      OBVIOUS
    <3>4. h \in Content!Graph /\ h.rel = g.rel /\ h.node = g.node /\ h.type = g.type
      BY <3>2, <3>3, PortraitWith
    <3>5. sketch' = h
      BY <2>3, <3>1, <3>3
    <3>6. Whole(g, turned) /\ Includes(shown, g)
      BY <1>1, <2>1, <3>1
    <3>7. Whole(h, turned)
      <4>1. TurnedIn(g, h, turned)
        BY <3>4 DEF TurnedIn
      <4> QED BY <3>4, <3>6, <4>1, SameRelations
    <3>8. Includes(shown, h)
      BY <3>4, <3>6 DEF Includes, Content!Exists
    <3> QED BY <1>1, <2>1, <3>4, <3>5, <3>7, <3>8, PageStep DEF GateWanted
  <2> QED BY <1>5, <2>2, <2>3 DEF Content!EndUpload
<1> QED BY <1>2, <1>3, <1>4, <1>5

\* Decisions are attached to a persisted relation, or retired.
LEMMA ProvenanceSaved ==
  ASSUME ContentInstance, ContentInv,
         \/ \E q \in SUBSET Decided : Content!saveProvenance(q)
         \/ \E c \in Decided : Content!Retire(c)
  PROVE  ContentInv'
<1>1. /\ panel # Nil => panel \in PanelRecord /\ Content!Exists(shown, panel.rel)
      /\ sources \in [Relation -> SUBSET Decided]
      /\ meant \in [Relation -> Content!Meaning \cup {Nil}]
      /\ shown \in Content!Graph /\ active \in SUBSET Decided
      /\ SourcesMean /\ PublicSourced
  BY DEF ContentInv, ContentTyped
<1>2. UNCHANGED <<sketch, shown, gate, sending, wish, turned>>
  BY DEF Content!saveProvenance, Content!Retire
<1>3. /\ panel' # Nil => panel' \in PanelRecord /\ Content!Exists(shown, panel'.rel)
      /\ sources' \in [Relation -> SUBSET Decided]
      /\ meant' \in [Relation -> Content!Meaning \cup {Nil}]
      /\ active' \in SUBSET Decided
      /\ SourcesMean' /\ PublicSourced'
  <2>1. CASE \E c \in Decided : Content!Retire(c)
    BY <1>1, <1>2, <2>1 DEF Content!Retire, SourcesMean, PublicSourced
  <2>2. CASE \E q \in SUBSET Decided : Content!saveProvenance(q)
    <3>1. PICK q \in SUBSET Decided : Content!saveProvenance(q)
      BY <2>2
    <3>2. panel # Nil
      BY <3>1 DEF Content!saveProvenance
    <3>3. PICK r \in Relation : r = panel.rel
      BY <1>1, <3>2 DEF PanelRecord
    <3>4. /\ Content!Replaceable(r, q) /\ sources' = [sources EXCEPT ![r] = q]
          /\ meant' = IF q = sources[r] THEN meant
                      ELSE [meant EXCEPT ![r] = Content!MeaningOf(shown.rel[r])]
          /\ panel' = [panel EXCEPT !.options = active] /\ active' = active
      BY <3>1, <3>3 DEF Content!saveProvenance
    <3>5. Content!Exists(shown, r) /\ shown.rel[r] \in Content!Edge
      BY <1>1, <3>2, <3>3, EdgeOf
    <3>6. panel' \in PanelRecord /\ panel'.rel = r
      BY <1>1, <3>2, <3>3, <3>4 DEF PanelRecord
    <3>7. Content!MeaningOf(shown.rel[r]) \in Content!Meaning
      BY <3>5 DEF Content!MeaningOf, Content!Meaning, Content!Edge
    <3>8. SourcesMean'
      <4>1. ASSUME NEW x \in Relation, sources'[x] # {}
            PROVE  Content!Exists(shown, x) /\ meant'[x] = Content!MeaningOf(shown.rel[x])
        <5>1. CASE x = r
          BY <1>1, <3>4, <3>5, <4>1, <5>1 DEF SourcesMean
        <5>2. CASE x # r
          BY <1>1, <3>4, <4>1, <5>2 DEF SourcesMean
        <5> QED BY <5>1, <5>2
      <4> QED BY <1>2, <4>1 DEF SourcesMean
    <3>9. PublicSourced'
      <4>1. ASSUME NEW x \in Relation, Content!Active(shown, x), Content!Public(shown, x)
            PROVE  sources'[x] # {}
        <5>1. CASE x = r
          BY <1>1, <3>4, <4>1, <5>1 DEF Content!Replaceable
        <5>2. CASE x # r
          BY <1>1, <3>4, <4>1, <5>2 DEF PublicSourced
        <5> QED BY <5>1, <5>2
      <4> QED BY <1>2, <4>1 DEF PublicSourced
    <3>10. /\ sources' \in [Relation -> SUBSET Decided]
           /\ meant' \in [Relation -> Content!Meaning \cup {Nil}]
      BY <1>1, <3>4, <3>7
    <3> QED BY <1>1, <3>4, <3>5, <3>6, <3>8, <3>9, <3>10
  <2> QED BY <2>1, <2>2
<1>4. ContentTyped'
  BY <1>2, <1>3 DEF ContentInv, ContentTyped, Content!Graph, Content!Edge, Content!Audience,
    Content!Meaning, UploadRecord, PanelRecord
<1>5. /\ (sending # Nil => Whole(sending.base, turned) /\ Includes(shown, sending.base))'
      /\ Whole(sketch, turned)' /\ Includes(shown, sketch)' /\ GateWanted'
  BY <1>2 DEF ContentInv, GateWanted
<1>6. (panel # Nil => Content!Exists(shown, panel.rel))'
  BY <1>2, <1>3
<1> QED BY <1>3, <1>4, <1>5, <1>6 DEF ContentInv

\* A symmetric relation may be stored the other way round.
LEMMA RowKept ==
  ASSUME NEW g \in Content!Graph, NEW r \in Relation, g.rel[r] \in Content!Edge,
         NEW e, e = Content!Row(g, r)
  PROVE  /\ e \in Content!Edge /\ e.status = g.rel[r].status /\ e.vis = g.rel[r].vis
         /\ e.type = g.rel[r].type
         /\ \/ e.source = g.rel[r].source /\ e.target = g.rel[r].target
            \/ /\ ~ g.type[e.type].directed
               /\ e.source = g.rel[r].target /\ e.target = g.rel[r].source
BY DEF Content!Row, Content!Edge

\* What is published is the draft, proven and without duplicates.
LEMMA ContentPublished ==
  ASSUME ContentInstance, ContentInv, Content!Publish PROVE ContentInv'
<1>1. /\ sketch \in Content!Graph /\ shown \in Content!Graph /\ Whole(sketch, turned)
      /\ Includes(shown, sketch)
      /\ sources \in [Relation -> SUBSET Decided] /\ wish \in [Relation -> Content!Audience]
      /\ meant \in [Relation -> Content!Meaning \cup {Nil}] /\ active \in SUBSET Decided
      /\ SourcesMean
  BY DEF ContentInv, ContentTyped
<1> DEFINE f == [r \in Relation |->
                   IF Content!Exists(sketch, r) THEN Content!Row(sketch, r) ELSE Nil]
<1>2. PICK h : h = WithRel(sketch, f)
  OBVIOUS
<1>3. /\ shown' = h /\ sketch' = h /\ turned' = {} /\ panel' = Nil
      /\ sources' = [r \in Relation |-> IF Content!Rewritten(r) THEN {} ELSE sources[r]]
      /\ wish' = [r \in Relation |->
                 IF Content!Exists(sketch, r) THEN sketch.rel[r].vis ELSE wish[r]]
      /\ gate' = Nil /\ sending' = Nil /\ active' = active /\ meant' = meant
      /\ Content!DuplicateFree(sketch) /\ \A r \in Relation : Content!Reviewed(r)
  BY <1>2 DEF Content!Publish, WithRel
<1>4. ASSUME NEW r \in Relation, Content!Exists(sketch, r)
      PROVE  /\ f[r] = Content!Row(sketch, r)
             /\ f[r] \in Content!Edge /\ f[r] # Nil /\ sketch.rel[r] \in Content!Edge
             /\ f[r].status = sketch.rel[r].status /\ f[r].vis = sketch.rel[r].vis
             /\ f[r].type = sketch.rel[r].type
             /\ \/ f[r].source = sketch.rel[r].source /\ f[r].target = sketch.rel[r].target
                \/ /\ ~ sketch.type[f[r].type].directed
                   /\ f[r].source = sketch.rel[r].target /\ f[r].target = sketch.rel[r].source
  <2>1. sketch.rel[r] \in Content!Edge
    BY <1>1, <1>4, EdgeOf
  <2>2. f[r] = Content!Row(sketch, r)
    BY <1>4
  <2> HIDE DEF f
  <2>3. /\ f[r] \in Content!Edge /\ f[r].status = sketch.rel[r].status
        /\ f[r].vis = sketch.rel[r].vis /\ f[r].type = sketch.rel[r].type
        /\ \/ f[r].source = sketch.rel[r].source /\ f[r].target = sketch.rel[r].target
           \/ /\ ~ sketch.type[f[r].type].directed
              /\ f[r].source = sketch.rel[r].target /\ f[r].target = sketch.rel[r].source
    BY <1>1, <2>1, <2>2, RowKept
  <2>4. f[r] # Nil
    BY <2>3 DEF ContentInstance
  <2> QED BY <2>1, <2>2, <2>3, <2>4
<1>5. \A r \in Relation : ~ Content!Exists(sketch, r) => f[r] = Nil
  OBVIOUS
<1>6. f \in [Relation -> Content!Edge \cup {Nil}]
  <2>1. \A r \in Relation : f[r] \in Content!Edge \cup {Nil}
    BY <1>4, <1>5
  <2> QED BY <2>1
<1>7. h \in Content!Graph /\ h.rel = f /\ h.node = sketch.node /\ h.type = sketch.type
  BY <1>1, <1>2, <1>6, RelWith
<1> HIDE DEF f
<1>8. \A r \in Relation : /\ Content!Exists(h, r) <=> Content!Exists(sketch, r)
                          /\ Content!Active(h, r) <=> Content!Active(sketch, r)
                          /\ Content!Public(h, r) <=> Content!Public(sketch, r)
  BY <1>4, <1>5, <1>7 DEF Content!Exists, Content!Active, Content!Public
<1>9. Whole(h, {})
  <2>1. ASSUME NEW q \in Relation, Content!Active(h, q)
        PROVE  /\ h.rel[q].source # h.rel[q].target
               /\ {h.rel[q].source, h.rel[q].target} \subseteq Content!Live(h)
               /\ Content!Duplicates(h, Content!MeaningOf(h.rel[q]), q) = {}
    <3>1. Content!Active(sketch, q) /\ Content!Exists(sketch, q)
      BY <1>8, <2>1 DEF Content!Active
    <3>2. Content!Live(h) = Content!Live(sketch)
      BY <1>7 DEF Content!Live
    <3>3. /\ sketch.rel[q].source # sketch.rel[q].target
          /\ {sketch.rel[q].source, sketch.rel[q].target} \subseteq Content!Live(sketch)
      BY <1>1, <3>1 DEF Whole
    <3>4. ASSUME NEW p \in Content!Duplicates(h, Content!MeaningOf(h.rel[q]), q) PROVE FALSE
      <4>1. /\ p \in Relation /\ p # q /\ Content!Active(h, p)
            /\ Content!Same(h, Content!MeaningOf(h.rel[q]), h.rel[p])
        BY DEF Content!Duplicates
      <4>2. Content!Active(sketch, p) /\ Content!Exists(sketch, p)
        BY <1>8, <4>1 DEF Content!Active
      <4>3. /\ h.rel[p] \in Content!Edge /\ h.rel[q] \in Content!Edge
            /\ sketch.rel[p] \in Content!Edge /\ sketch.rel[q] \in Content!Edge
        BY <1>4, <1>7, <3>1, <4>1, <4>2
      <4>4. /\ h.rel[q].type = h.rel[p].type
            /\ \/ h.rel[q].source = h.rel[p].source /\ h.rel[q].target = h.rel[p].target
               \/ /\ ~ h.type[h.rel[q].type].directed
                  /\ h.rel[q].source = h.rel[p].target /\ h.rel[q].target = h.rel[p].source
        BY <4>1, <4>3, SameMeans
      <4>5. Content!Same(sketch, Content!MeaningOf(sketch.rel[q]), sketch.rel[p])
        <5>1. /\ h.rel[p].type = sketch.rel[p].type
              /\ \/ /\ h.rel[p].source = sketch.rel[p].source
                    /\ h.rel[p].target = sketch.rel[p].target
                 \/ /\ ~ sketch.type[sketch.rel[p].type].directed
                    /\ h.rel[p].source = sketch.rel[p].target
                    /\ h.rel[p].target = sketch.rel[p].source
          BY <1>4, <1>7, <4>1, <4>2
        <5>2. /\ h.rel[q].type = sketch.rel[q].type
              /\ \/ /\ h.rel[q].source = sketch.rel[q].source
                    /\ h.rel[q].target = sketch.rel[q].target
                 \/ /\ ~ sketch.type[sketch.rel[q].type].directed
                    /\ h.rel[q].source = sketch.rel[q].target
                    /\ h.rel[q].target = sketch.rel[q].source
          BY <1>4, <1>7, <3>1
        <5>3. sketch.rel[q].type = sketch.rel[p].type /\ h.type = sketch.type
          BY <1>7, <4>4, <5>1, <5>2
        <5>4. \/ /\ sketch.rel[q].source = sketch.rel[p].source
                 /\ sketch.rel[q].target = sketch.rel[p].target
              \/ /\ ~ sketch.type[sketch.rel[q].type].directed
                 /\ sketch.rel[q].source = sketch.rel[p].target
                 /\ sketch.rel[q].target = sketch.rel[p].source
          BY <4>4, <5>1, <5>2, <5>3
        <5> QED BY <4>3, <5>3, <5>4, SameMeans
      <4>6. p \in Content!Duplicates(sketch, Content!MeaningOf(sketch.rel[q]), q)
        BY <4>1, <4>2, <4>5 DEF Content!Duplicates
      <4> QED BY <1>3, <3>1, <4>6 DEF Content!DuplicateFree
    <3> QED BY <1>4, <1>7, <3>1, <3>2, <3>3, <3>4
  <2> QED BY <2>1 DEF Whole
<1>10. SourcesMean'
  <2>1. ASSUME NEW r \in Relation, sources'[r] # {}
        PROVE  Content!Exists(h, r) /\ meant[r] = Content!MeaningOf(h.rel[r])
    <3>1. ~ Content!Rewritten(r) /\ sources[r] # {}
      BY <1>3, <2>1
    <3>2. Content!Exists(shown, r) /\ meant[r] = Content!MeaningOf(shown.rel[r])
      BY <1>1, <3>1 DEF SourcesMean
    <3>3. Content!MeaningOf(Content!Row(sketch, r)) = Content!MeaningOf(shown.rel[r])
      BY <3>1, <3>2 DEF Content!Rewritten
    <3>4. Content!Exists(sketch, r)
      BY <1>1, <3>2 DEF Includes
    <3> QED BY <1>4, <1>7, <1>8, <3>2, <3>3, <3>4
  <2> QED BY <1>3, <2>1 DEF SourcesMean
<1>11. PublicSourced'
  <2>1. ASSUME NEW r \in Relation, Content!Active(h, r), Content!Public(h, r)
        PROVE  sources'[r] # {}
    BY <1>3, <1>8, <2>1 DEF Content!Reviewed, Content!Proven
  <2> QED BY <1>3, <2>1 DEF PublicSourced
<1>12. wish' \in [Relation -> Content!Audience]
  <2>1. ASSUME NEW r \in Relation, Content!Exists(sketch, r)
        PROVE  sketch.rel[r].vis \in Content!Audience
    BY <1>4, <2>1 DEF Content!Edge
  <2> QED BY <1>1, <1>3, <2>1
<1>13. sources' \in [Relation -> SUBSET Decided]
  BY <1>1, <1>3
<1>14. ContentTyped'
  BY <1>1, <1>3, <1>7, <1>12, <1>13 DEF ContentTyped, Content!Graph, Content!Edge,
    Content!Audience, Content!Meaning
<1>15. Includes(h, h)
  BY DEF Includes
<1> QED BY <1>3, <1>9, <1>10, <1>11, <1>14, <1>15 DEF ContentInv, GateWanted

\* The World of the beginning.
LEMMA ContentStart ==
  ASSUME ContentInstance, Content!Init PROVE ContentInv
<1>1. PICK s \in {{}, Decided} :
        /\ shown = [node |-> [n \in Figure |-> IF n \in Drawn THEN "active" ELSE "absent"],
                    portrait |-> [n \in Figure |-> FALSE],
                    rel |-> [r \in Relation |->
                      IF r = Old THEN [source |-> First.source, target |-> First.target,
                                       type |-> First.type, status |-> "active",
                                       vis |-> "private_players"] ELSE Nil],
                    type |-> [y \in Type |-> [directed |-> y \in Directed, active |-> TRUE]]]
        /\ sources = [r \in Relation |-> IF r = Old THEN s ELSE {}]
        /\ meant = [r \in Relation |-> IF r = Old /\ s # {} THEN First ELSE Nil]
  BY DEF Content!Init
<1>2. /\ sketch = shown /\ active = Decided /\ gate = Nil /\ panel = Nil /\ sending = Nil
      /\ wish = [r \in Relation |-> "private_players"] /\ turned = {}
  BY DEF Content!Init
<1>3. /\ First.source \in Figure /\ First.target \in Figure /\ First.type \in Type
      /\ First.source \in Drawn /\ First.target \in Drawn /\ First.source # First.target
      /\ First = [source |-> First.source, target |-> First.target, type |-> First.type]
  BY DEF ContentInstance
<1>4. First \in Content!Meaning
  BY <1>3 DEF Content!Meaning
<1>5. PICK e : e = [source |-> First.source, target |-> First.target, type |-> First.type,
                    status |-> "active", vis |-> "private_players"]
  OBVIOUS
<1>6. e \in Content!Edge /\ e # Nil /\ Content!MeaningOf(e) = First
  BY <1>3, <1>5 DEF Content!Edge, Content!Audience, Content!MeaningOf, ContentInstance
<1>7. \A r \in Relation : shown.rel[r] = IF r = Old THEN e ELSE Nil
  BY <1>1, <1>5
<1>8. shown.rel \in [Relation -> Content!Edge \cup {Nil}]
  BY <1>1, <1>5, <1>6
<1>9. shown \in Content!Graph
  <2>1. /\ shown.node \in [Figure -> {"absent", "active", "archived"}]
        /\ shown.portrait \in [Figure -> BOOLEAN]
        /\ shown.type \in [Type -> [directed : BOOLEAN, active : BOOLEAN]]
        /\ shown = [node |-> shown.node, portrait |-> shown.portrait, rel |-> shown.rel,
                    type |-> shown.type]
    BY <1>1
  <2> QED BY <1>8, <2>1 DEF Content!Graph
<1>10. \A r \in Relation : /\ Content!Exists(shown, r) => r = Old
                           /\ r = Old => Content!Exists(shown, r)
  BY <1>6, <1>7 DEF Content!Exists
<1>11. Whole(shown, {})
  <2>1. ASSUME NEW q \in Relation, Content!Active(shown, q)
        PROVE  /\ shown.rel[q].source # shown.rel[q].target
               /\ {shown.rel[q].source, shown.rel[q].target} \subseteq Content!Live(shown)
               /\ Content!Duplicates(shown, Content!MeaningOf(shown.rel[q]), q) = {}
    <3>1. q = Old /\ shown.rel[q] = e
      BY <1>7, <1>10, <2>1 DEF Content!Active
    <3>2. shown.node[First.source] = "active" /\ shown.node[First.target] = "active"
      BY <1>1, <1>3
    <3>3. Content!Duplicates(shown, Content!MeaningOf(shown.rel[q]), q) = {}
      BY <1>10, <3>1 DEF Content!Duplicates, Content!Active
    <3> QED BY <1>3, <1>5, <3>1, <3>2, <3>3 DEF Content!Live
  <2> QED BY <2>1 DEF Whole
<1>12. SourcesMean
  BY <1>1, <1>6, <1>7, <1>10 DEF SourcesMean
<1>13. PublicSourced
  BY <1>5, <1>7 DEF PublicSourced, Content!Public, Content!Exists
<1>14. ContentTyped
  BY <1>1, <1>2, <1>4, <1>9 DEF ContentTyped, Content!Audience
<1> QED BY <1>2, <1>11, <1>12, <1>13, <1>14 DEF ContentInv, GateWanted, Includes

\* Every change that an editor makes keeps the invariant.
LEMMA ContentEdited ==
  ASSUME ContentInstance, ContentInv, Content!Edit PROVE ContentInv'
<1>1. CASE \E n \in Figure : Content!CreateEntity(n) \/ Content!EntityEditor(n)
  <2>1. PICK n \in Figure : Content!CreateEntity(n) \/ Content!EntityEditor(n)
    BY <1>1
  <2> QED BY <2>1, EntityCreated, EntityArchived, Retouched DEF Content!EntityEditor
<1>2. CASE \E r \in Relation, p \in Line, y \in Type, v \in Content!Audience \ {"review_only"} :
        Content!CreateRelation(r, [source |-> p[1], target |-> p[2], type |-> y], v)
  <2>1. PICK r \in Relation, p \in Line, y \in Type, v \in Content!Audience \ {"review_only"} :
          Content!CreateRelation(r, [source |-> p[1], target |-> p[2], type |-> y], v)
    BY <1>2
  <2>2. [source |-> p[1], target |-> p[2], type |-> y] \in Content!Meaning
    BY DEF ContentInstance, Content!Meaning
  <2> QED BY <2>1, <2>2, RelationCreated
<1>3. CASE \E r \in Relation : \/ \E p \in Line : Content!reconnectRelation(r, p)
                               \/ Content!RelationEditor(r)
  <2>1. PICK r \in Relation : \/ \E p \in Line : Content!reconnectRelation(r, p)
                              \/ Content!RelationEditor(r)
    BY <1>3
  <2> QED BY <2>1, RelationRemeant, VisibilitySet, RelationArchived, Retouched
          DEF Content!RelationEditor
<1>4. CASE \E y \in Type, d \in BOOLEAN, a \in BOOLEAN : Content!SetType(y, d, a)
  BY <1>4, TypeSet
<1> QED BY <1>1, <1>2, <1>3, <1>4 DEF Content!Edit

THEOREM ContentInvariant ==
  ASSUME ContentInstance
  PROVE  Content!Spec => []ContentInv
<1>1. ContentInv /\ [Content!Next]_(Content!vars) => ContentInv'
  <2>1. ASSUME ContentInv, UNCHANGED Content!vars PROVE ContentInv'
    <3>1. UNCHANGED <<sketch, shown, sources, active, gate, panel, sending, wish, meant, turned>>
      BY <2>1 DEF Content!vars
    <3>2. ContentTyped' /\ SourcesMean' /\ PublicSourced' /\ GateWanted'
      BY <2>1, <3>1 DEF ContentInv, ContentTyped, SourcesMean, PublicSourced, GateWanted,
        Content!Graph, Content!Edge, Content!Audience, Content!Meaning, UploadRecord,
        PanelRecord
    <3>3. /\ Whole(sketch, turned)' /\ Includes(shown, sketch)'
          /\ (sending # Nil => Whole(sending.base, turned) /\ Includes(shown, sending.base))'
          /\ (panel # Nil => Content!Exists(shown, panel.rel))'
      BY <2>1, <3>1 DEF ContentInv
    <3> QED BY <3>2, <3>3 DEF ContentInv
  <2>2. ASSUME ContentInv, Content!Next PROVE ContentInv'
    <3>1. CASE Content!Edit
      BY <2>2, <3>1, ContentEdited
    <3>2. CASE \/ Content!GateReads \/ Content!ClosePanel \/ Content!EndUpload
               \/ \E r \in Relation : Content!OpenPanel(r)
               \/ \E n \in Portrayed : Content!StartUpload(n)
      BY <2>2, <3>2, PageActs
    <3>3. CASE Content!GateAnswers
      BY <2>2, <3>3, GateAnswered
    <3>4. CASE \/ \E q \in SUBSET Decided : Content!saveProvenance(q)
               \/ \E c \in Decided : Content!Retire(c)
      BY <2>2, <3>4, ProvenanceSaved
    <3>5. CASE Content!Publish
      BY <2>2, <3>5, ContentPublished
    <3>6. CASE Content!Done
      BY <2>1, <2>2, <3>6 DEF Content!Done
    <3> QED BY <2>2, <3>1, <3>2, <3>3, <3>4, <3>5, <3>6 DEF Content!Next
  <2> QED BY <2>1, <2>2
<1>2. Content!Init => ContentInv
  BY ContentStart
<1> QED BY <1>1, <1>2, PTL DEF Content!Spec

(* No change of the draft leaves a relation hanging or said twice, and     *)
(* what is published for everybody has canon attached to what it says.     *)
THEOREM WorldIsProven ==
  ASSUME ContentInstance
  PROVE  Content!Spec => [](Content!GraphIsWhole /\ Content!PublicIsProven)
<1>1. ContentInv => Content!GraphIsWhole
  BY DEF ContentInv, Whole, Content!GraphIsWhole
<1>2. ContentInv => Content!PublicIsProven
  BY DEF ContentInv, SourcesMean, PublicSourced, Content!PublicIsProven
<1> QED BY <1>1, <1>2, ContentInvariant, PTL

(* A late answer of the check makes a relation public only if that is the  *)
(* last change of audience its editor asked for.                           *)
THEOREM PromotionIsWanted ==
  ASSUME ContentInstance
  PROVE  Content!Spec => [][Content!PromotionIsWanted]_(Content!vars)
<1>1. ASSUME ContentInv, Content!Next, NEW r \in Relation, gate # gate',
             ~ Content!Public(sketch, r), Content!Public(sketch', r)
      PROVE  wish[r] = "public"
  <2>1. ASSUME NEW next, Content!handleDraftChange(next) PROVE FALSE
    <3>1. sketch' = next /\ Content!Promoted(next) = {}
      BY <1>1, <2>1 DEF Content!handleDraftChange
    <3>2. Content!Exists(next, r) /\ next.rel[r].vis = "public"
      BY <1>1, <3>1 DEF Content!Public
    <3>3. Content!Exists(sketch, r) => sketch.rel[r].vis # "public"
      BY <1>1 DEF Content!Public
    <3>4. r \in Content!Promoted(next)
      BY <3>2, <3>3 DEF Content!Promoted, Content!Changed, Content!Public
    <3> QED BY <3>1, <3>4
  <2>2. ~ Content!Edit
    <3>1. ASSUME Content!Edit
          PROVE  gate' = gate \/ \E next : Content!handleDraftChange(next)
      BY <3>1, Zenon DEF Content!Edit, Content!CreateEntity, Content!EntityEditor,
        Content!ArchiveEntity, Content!RemovePortrait, Content!Retouch, Content!CreateRelation,
        Content!reconnectRelation, Content!RelationEditor,
        Content!changeWorldDraftRelationType, Content!SetVisibility, Content!ArchiveRelation,
        Content!SetType
    <3> QED BY <1>1, <2>1, <3>1
  <2>3. sketch' # sketch
    BY <1>1 DEF Content!Public, Content!Exists
  <2>4. Content!GateAnswers
    BY <1>1, <2>2, <2>3 DEF Content!Next, Content!GateReads, Content!OpenPanel, Content!ClosePanel,
      Content!saveProvenance, Content!Retire, Content!StartUpload, Content!EndUpload,
      Content!Publish, Content!Done, Content!vars
  <2>5. /\ gate # Nil /\ gate.eligible = "yes"
        /\ sketch' = [sketch EXCEPT !.rel[gate.rel].vis = "public"]
    BY <2>3, <2>4 DEF Content!GateAnswers
  <2>6. wish[gate.rel] = "public"
    BY <1>1, <2>5 DEF ContentInv, GateWanted, Asked
  <2>7. ASSUME r # gate.rel PROVE FALSE
    <3>1. sketch'.rel[r] = sketch.rel[r]
      BY <1>1, <2>5, <2>7 DEF ContentInv, ContentTyped, Content!Graph
    <3> QED BY <1>1, <3>1 DEF Content!Public, Content!Exists
  <2> QED BY <2>6, <2>7
<1>2. ContentInv /\ [Content!Next]_(Content!vars) => [Content!PromotionIsWanted]_(Content!vars)
  BY <1>1 DEF Content!PromotionIsWanted
<1> QED BY <1>2, ContentInvariant, PTL DEF Content!Spec
=============================================================================

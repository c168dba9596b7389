-------------------- MODULE TranscriptPublicationProofs ---------------------
(***************************************************************************)
(* Proofs about TranscriptPublication, for any number of accounts, tabs    *)
(* and reviews.  What the browser stores, what is on the wire and what the *)
(* database holds are related by Books; what a tab believes, by Believes.  *)
(* The tabs only meet the books through the operation that is stored, and  *)
(* the lock of its scope keeps that operation still.                       *)
(***************************************************************************)
EXTENDS TranscriptPublication, TLAPS

(* What the values of the constants have to be. *)
Instance ==
  /\ MaxOp \in Nat /\ MaxRevision \in Nat
  /\ Profile # {} /\ Review # {}
  /\ Nil \notin Pending /\ Nil \notin Tab /\ Nil # "stale_current"

Request == [tab : Tab, op : Op, review : Review, expected : 0 .. MaxRevision,
            actor : Profile, profile : Profile]
Revision == [op : Op, review : Review, base : Nat, by : Profile]

Kept ==
  /\ stored \in [Profile -> Pending \cup {Nil}]
  /\ wire \subseteq Request
  /\ revisions \in Seq(Revision) /\ Current <= MaxRevision
  /\ ops \in 0 .. MaxOp
  /\ DOMAIN agreed = Op
  /\ acked \subseteq Op /\ given \subseteq Op

(* Every operation in use was created, and still asks to replace what its  *)
(* author agreed to replace.                                               *)
Agrees(r) == r.op <= ops /\ r.expected = agreed[r.op] /\ r.expected <= Current
Agreed ==
  /\ \A p \in Profile : stored[p] # Nil => Agrees(stored[p])
  /\ \A q \in wire : Agrees(q)
  /\ \A i \in DOMAIN revisions : revisions[i].op <= ops

(* A request on the wire is of an operation that is known, that is stored, *)
(* or that can no longer be committed.                                     *)
Behind(q) ==
  \/ Committed(q.op)
  \/ q.op \in acked \cup given
  \/ stored[q.profile] # Nil /\ stored[q.profile].op = q.op
  \/ q.expected < Current
WireBehind == \A q \in wire : Behind(q)

(* While an operation is stored after it was committed, the older requests *)
(* of that account are behind it.                                          *)
OlderBehind ==
  \A q \in wire, i \in DOMAIN revisions :
    (/\ stored[q.profile] # Nil
     /\ revisions[i].op = stored[q.profile].op
     /\ q.op # stored[q.profile].op) => q.expected < i

Books == Kept /\ Agreed /\ WireBehind /\ OlderBehind /\ NothingForgotten
         /\ NoBlindOverwrite /\ PublishedOnce

(* A tab.  Between inspection and confirmation it knows the account, the   *)
(* revision and the operation it was shown; under the lock its operation   *)
(* is stored; a refusal it was told of is still true.                      *)
Shaped(t) ==
  /\ tabs[t] = [pc |-> tabs[t].pc, review |-> tabs[t].review, conf |-> tabs[t].conf,
                seen |-> tabs[t].seen, answer |-> tabs[t].answer]
  /\ tabs[t].review \in Review
  /\ tabs[t].pc # "idle" =>
       /\ tabs[t].seen = [profile |-> Scope(t), revision |-> tabs[t].seen.revision]
       /\ Scope(t) \in Profile
Shown(t) ==
  /\ tabs[t].pc \in {"inspect", "execute"} => tabs[t].seen.revision \in 0 .. Current
  /\ tabs[t].pc \in {"execute", "abandon"} => tabs[t].conf # Nil
  /\ tabs[t].pc = "abandon" => tabs[t].conf.pending # Nil
  /\ tabs[t].conf # Nil =>
       /\ tabs[t].conf.revision \in 0 .. Current
       /\ tabs[t].conf.pending # Nil => tabs[t].conf.pending \in Op

UnderLock == {"inspect receipt", "execute receipt", "post", "posted", "readback"}
Holds(t) == tabs[t].pc \in UnderLock => lock[Scope(t)] = t /\ stored[Scope(t)] # Nil
Refutes(t) ==
  (tabs[t].pc = "posted" /\ tabs[t].answer = "stale_current") =>
    /\ ~Committed(stored[Scope(t)].op)
    /\ stored[Scope(t)].expected < Current

Believes(t) == Shaped(t) /\ Shown(t) /\ Holds(t) /\ Refutes(t)

Held == account \in Profile /\ lock \in [Profile -> Tab \cup {Nil}] /\ DOMAIN tabs = Tab

PublicationInv == Books /\ Held /\ \A t \in Tab : Believes(t)
-----------------------------------------------------------------------------
(* The books. *)

\* An operation is stored with the fields an operation has.
LEMMA StoredIs ==
  ASSUME Kept, NEW p \in Profile, stored[p] # Nil
  PROVE  /\ stored[p] \in Pending
         /\ stored[p].op \in Op /\ stored[p].op \in Int
         /\ stored[p].expected \in 0 .. MaxRevision
         /\ stored[p].review \in Review
<1>1. stored[p] \in Pending
  BY DEF Kept
<1> QED BY <1>1 DEF Pending, Op

\* A revision has the fields a revision has.
LEMMA RevisionIs ==
  ASSUME Kept, NEW i \in DOMAIN revisions
  PROVE  /\ i \in 1 .. Current
         /\ revisions[i].op \in Op /\ revisions[i].op \in Int
         /\ revisions[i].by \in Profile
<1>1. revisions[i] \in Revision /\ i \in 1 .. Current
  BY DEF Kept, Current
<1> QED BY <1>1 DEF Revision, Op

\* The books say nothing of tabs, locks or accounts.
LEMMA BooksStill ==
  ASSUME Books, UNCHANGED <<revisions, stored, wire, History>>
  PROVE  Books'
<1>1. Kept'
  BY DEF Books, Kept, History, Current
<1>2. Agreed'
  BY DEF Books, Agreed, Agrees, History, Current
<1>3. WireBehind' /\ OlderBehind'
  BY DEF Books, WireBehind, Behind, OlderBehind, Committed, History, Current
<1>4. NothingForgotten' /\ NoBlindOverwrite' /\ PublishedOnce'
  BY DEF Books, NothingForgotten, NoBlindOverwrite, PublishedOnce, History
<1> QED BY <1>1, <1>2, <1>3, <1>4 DEF Books

(* An operation leaves storage: its author was told of it or gave it up,   *)
(* or it is known that it cannot be committed any more.                    *)
Settles(p, op) ==
  \/ op \in acked' \cup given'
  \/ /\ stored[p] # Nil /\ stored[p].op = op
     /\ ~Committed(op) /\ stored[p].expected < Current

\* Nothing is lost with an operation that is settled.
LEMMA BooksDrop ==
  ASSUME Instance, Books, NEW p \in Profile, NEW op \in Op, Remove(p, op), Settles(p, op),
         UNCHANGED <<revisions, wire, ops, agreed>>,
         acked \subseteq acked', given \subseteq given', acked' \subseteq Op, given' \subseteq Op
  PROVE  Books'
<1>1. /\ stored' \in [Profile -> Pending \cup {Nil}]
      /\ \A r \in Profile : stored'[r] = stored[r] \/ (r = p /\ stored'[r] = Nil)
      /\ \A r \in Profile : (stored[r] # Nil /\ stored'[r] = Nil) => stored[r].op = op /\ r = p
  BY DEF Books, Kept, Remove
<1>2. Kept'
  BY <1>1 DEF Books, Kept, Current
<1>3. Agreed'
  BY <1>1 DEF Books, Agreed, Agrees, Current
<1>4. WireBehind'
  <2> SUFFICES ASSUME NEW q \in wire PROVE Behind(q)'
    BY DEF WireBehind
  <2>1. q.profile \in Profile /\ Agrees(q) /\ Behind(q)
    BY DEF Books, Kept, Request, Agreed, WireBehind
  <2>2. CASE stored[q.profile] # Nil /\ stored[q.profile].op = q.op /\ stored'[q.profile] = Nil
    <3>1. q.op = op /\ q.profile = p
      BY <1>1, <2>1, <2>2
    <3>2. CASE op \in acked' \cup given'
      BY <3>1, <3>2 DEF Behind
    <3>3. CASE stored[p] # Nil /\ stored[p].expected < Current
      BY <2>1, <2>2, <3>1, <3>3 DEF Behind, Books, Agreed, Agrees, Current
    <3> QED BY <3>2, <3>3 DEF Settles
  <2> QED BY <1>1, <2>1, <2>2 DEF Behind, Committed, Current
<1>5. OlderBehind'
  <2> SUFFICES ASSUME NEW q \in wire, NEW i \in DOMAIN revisions, stored'[q.profile] # Nil,
                      revisions[i].op = stored'[q.profile].op, q.op # stored'[q.profile].op
               PROVE  q.expected < i
    BY DEF OlderBehind
  <2>1. q.profile \in Profile
    BY DEF Books, Kept, Request
  <2>2. stored'[q.profile] = stored[q.profile]
    BY <1>1, <2>1
  <2> QED BY <2>2 DEF Books, OlderBehind
<1>6. NothingForgotten'
  <2> SUFFICES ASSUME NEW i \in DOMAIN revisions
               PROVE  \/ revisions[i].op \in acked' \cup given'
                      \/ stored'[revisions[i].by] # Nil
                         /\ stored'[revisions[i].by].op = revisions[i].op
    BY DEF NothingForgotten
  <2>1. revisions[i].by \in Profile /\ Committed(revisions[i].op)
    BY RevisionIs DEF Books, Committed
  <2> QED BY <1>1, <2>1 DEF Books, NothingForgotten, Settles
<1>7. NoBlindOverwrite' /\ PublishedOnce'
  BY DEF Books, NoBlindOverwrite, PublishedOnce
<1> QED BY <1>2, <1>3, <1>4, <1>5, <1>6, <1>7 DEF Books

\* A new operation is stored where none was.
LEMMA BooksNew ==
  ASSUME Instance, Books, NEW p \in Profile, NEW r \in Review, NEW e \in 0 .. Current,
         stored[p] = Nil, ops < MaxOp, ops' = ops + 1,
         stored' = [stored EXCEPT ![p] =
                      [op |-> ops + 1, review |-> r, expected |-> e, old |-> FALSE]],
         agreed' = [agreed EXCEPT ![ops + 1] = e],
         UNCHANGED <<revisions, wire, acked, given>>
  PROVE  Books' /\ stored'[p] # Nil
<1> DEFINE n == [op |-> ops + 1, review |-> r, expected |-> e, old |-> FALSE]
<1>0. ops \in Nat /\ Current \in Nat /\ Current <= MaxRevision /\ ops + 1 \in Op /\ ops + 1 # ops
  BY DEF Books, Kept, Current, Instance, Op
<1>1. n \in Pending /\ n # Nil /\ n.op = ops + 1 /\ n.expected = e
  <2>1. e \in 0 .. MaxRevision
    BY <1>0 DEF Instance
  <2>2. n \in Pending
    BY <1>0, <2>1, Zenon DEF Pending
  <2>3. n # Nil
    BY <2>2, Zenon DEF Instance
  <2> QED BY <2>2, <2>3
<1>2. /\ stored' \in [Profile -> Pending \cup {Nil}] /\ stored'[p] = n
      /\ \A s \in Profile \ {p} : stored'[s] = stored[s]
  BY <1>1 DEF Books, Kept
<1>3. /\ DOMAIN agreed' = Op /\ agreed'[ops + 1] = e
      /\ \A o \in Op : o # ops + 1 => agreed'[o] = agreed[o]
  BY <1>0 DEF Books, Kept
<1> HIDE DEF n
<1>4. Kept'
  <2>1. ops' \in 0 .. MaxOp
    BY <1>0 DEF Instance
  <2> QED BY <1>2, <1>3, <2>1 DEF Books, Kept, Current
<1>5. \A q \in wire : q.op \in Op /\ q.op <= ops /\ q.op # ops + 1 /\ q.profile \in Profile
  BY <1>0 DEF Books, Kept, Agreed, Agrees, Request, Op
<1>6. \A i \in DOMAIN revisions : revisions[i].op \in Op /\ revisions[i].op <= ops
                                  /\ revisions[i].op # ops + 1 /\ revisions[i].by \in Profile
  BY <1>0, RevisionIs DEF Books, Agreed
<1>7. Agreed'
  <2>1. ASSUME NEW s \in Profile, stored'[s] # Nil PROVE Agrees(stored[s])'
    <3>1. CASE s = p
      BY <1>0, <1>1, <1>2, <1>3, <3>1 DEF Agrees, Current
    <3>2. CASE s # p
      BY <1>0, <1>2, <1>3, <2>1, <3>2, StoredIs DEF Books, Agreed, Agrees, Current, Op
    <3> QED BY <3>1, <3>2
  <2>2. ASSUME NEW q \in wire PROVE Agrees(q)'
    BY <1>0, <1>3, <1>5, <2>2 DEF Books, Agreed, Agrees, Current, Op
  <2>3. \A i \in DOMAIN revisions : revisions[i].op <= ops'
    BY <1>0, <1>6 DEF Op
  <2> QED BY <2>1, <2>2, <2>3 DEF Agreed
<1>8. WireBehind'
  <2> SUFFICES ASSUME NEW q \in wire PROVE Behind(q)'
    BY DEF WireBehind
  <2>1. q.profile \in Profile /\ Behind(q)
    BY <1>5 DEF Books, WireBehind
  <2> QED BY <1>2, <2>1 DEF Behind, Committed, Current
<1>9. OlderBehind'
  <2> SUFFICES ASSUME NEW q \in wire, NEW i \in DOMAIN revisions, stored'[q.profile] # Nil,
                      revisions[i].op = stored'[q.profile].op, q.op # stored'[q.profile].op
               PROVE  q.expected < i
    BY DEF OlderBehind
  <2>1. q.profile # p
    BY <1>1, <1>2, <1>6
  <2> QED BY <1>2, <1>5, <2>1 DEF Books, OlderBehind
<1>10. NothingForgotten'
  BY <1>2, <1>6 DEF Books, NothingForgotten
<1>11. NoBlindOverwrite' /\ PublishedOnce'
  BY <1>3, <1>6 DEF Books, NoBlindOverwrite, PublishedOnce
<1> QED BY <1>1, <1>2, <1>4, <1>7, <1>8, <1>9, <1>10, <1>11 DEF Books

\* A request is sent for an operation that is stored.
LEMMA BooksPost ==
  ASSUME Books, NEW t \in Tab, NEW p \in Profile, NEW a \in Profile, NEW r \in Review,
         stored[p] # Nil,
         wire' = wire \cup {[tab |-> t, op |-> stored[p].op, review |-> r,
                             expected |-> stored[p].expected, actor |-> a, profile |-> p]},
         UNCHANGED <<revisions, stored, History>>
  PROVE  Books'
<1> DEFINE n == [tab |-> t, op |-> stored[p].op, review |-> r,
                 expected |-> stored[p].expected, actor |-> a, profile |-> p]
<1>1. n \in Request /\ n.op = stored[p].op /\ n.expected = stored[p].expected /\ n.profile = p
  BY StoredIs DEF Books, Request
<1>2. wire' = wire \cup {n}
  OBVIOUS
<1> HIDE DEF n
<1>3. Kept'
  BY <1>1, <1>2 DEF Books, Kept, History, Current
<1>4. Agreed'
  BY <1>1, <1>2 DEF Books, Agreed, Agrees, History, Current
<1>5. WireBehind'
  <2> SUFFICES ASSUME NEW q \in wire' PROVE Behind(q)'
    BY DEF WireBehind
  <2>1. CASE q = n
    BY <1>1, <2>1 DEF Behind
  <2>2. CASE q \in wire
    BY <2>2 DEF Books, WireBehind, Behind, Committed, History, Current
  <2> QED BY <1>2, <2>1, <2>2
<1>6. OlderBehind'
  BY <1>1, <1>2 DEF Books, OlderBehind
<1>7. NothingForgotten' /\ NoBlindOverwrite' /\ PublishedOnce'
  BY DEF Books, NothingForgotten, NoBlindOverwrite, PublishedOnce, History
<1> QED BY <1>3, <1>4, <1>5, <1>6, <1>7 DEF Books

\* A stored operation grows old.
LEMMA BooksExpire ==
  ASSUME Instance, Books, NEW p \in Profile, stored[p] # Nil,
         stored' = [stored EXCEPT ![p].old = TRUE], UNCHANGED <<revisions, wire, History>>
  PROVE  /\ Books'
         /\ \A s \in Profile : stored[s] # Nil => /\ stored'[s] # Nil
                                                  /\ stored'[s].op = stored[s].op
                                                  /\ stored'[s].expected = stored[s].expected
<1> DEFINE n == [stored[p] EXCEPT !.old = TRUE]
<1>1. stored[p] \in Pending
  BY StoredIs DEF Books
<1>2. n \in Pending
  <2>1. stored[p] \in [op : Op, review : Review, expected : 0 .. MaxRevision, old : BOOLEAN]
    BY <1>1 DEF Pending
  <2> QED BY <2>1, Zenon DEF Pending
<1>3. n # Nil
  BY <1>2, Zenon DEF Instance
<1>4. n.op = stored[p].op /\ n.expected = stored[p].expected
  BY <1>1 DEF Pending
<1>5. /\ stored' \in [Profile -> Pending \cup {Nil}] /\ stored'[p] = n
      /\ \A s \in Profile \ {p} : stored'[s] = stored[s]
  <2>1. stored' = [stored EXCEPT ![p] = n]
    OBVIOUS
  <2> HIDE DEF n
  <2> QED BY <1>2, <2>1 DEF Books, Kept
<1> HIDE DEF n
<1>6. /\ \A s \in Profile : /\ stored'[s] = Nil <=> stored[s] = Nil
                            /\ stored[s] # Nil => /\ stored'[s].op = stored[s].op
                                                  /\ stored'[s].expected = stored[s].expected
  BY <1>3, <1>4, <1>5
<1>7. /\ \A q \in wire : q.profile \in Profile
      /\ \A i \in DOMAIN revisions : revisions[i].by \in Profile
  BY RevisionIs DEF Books, Kept, Request
<1>8. Kept'
  BY <1>5 DEF Books, Kept, History, Current
<1>9. Agreed'
  BY <1>6 DEF Books, Agreed, Agrees, History, Current
<1>10. WireBehind'
  <2> SUFFICES ASSUME NEW q \in wire PROVE Behind(q)'
    BY DEF WireBehind
  <2> QED BY <1>6, <1>7 DEF Books, WireBehind, Behind, Committed, History, Current
<1>11. OlderBehind'
  BY <1>6, <1>7 DEF Books, OlderBehind
<1>12. NothingForgotten'
  BY <1>6, <1>7 DEF Books, NothingForgotten, History
<1>13. NoBlindOverwrite' /\ PublishedOnce'
  BY DEF Books, NoBlindOverwrite, PublishedOnce, History
<1> QED BY <1>6, <1>8, <1>9, <1>10, <1>11, <1>12, <1>13 DEF Books

\* A request leaves the wire and nothing else happens.
LEMMA BooksTaken ==
  ASSUME Books, wire' \subseteq wire, UNCHANGED <<revisions, stored, History>>
  PROVE  Books'
<1>1. Kept' /\ Agreed'
  BY DEF Books, Kept, Agreed, Agrees, History, Current
<1>2. WireBehind' /\ OlderBehind'
  BY DEF Books, WireBehind, Behind, OlderBehind, Committed, History, Current
<1>3. NothingForgotten' /\ NoBlindOverwrite' /\ PublishedOnce'
  BY DEF Books, NothingForgotten, NoBlindOverwrite, PublishedOnce, History
<1> QED BY <1>1, <1>2, <1>3 DEF Books

(* A revision is committed: its request still named the current one, so    *)
(* its operation is stored or settled, and what its author published       *)
(* before is settled, or the request would be behind it.                   *)
LEMMA BooksCommit ==
  ASSUME Instance, Books, NEW q \in wire, q.actor = q.profile, ~Committed(q.op),
         q.expected = Current, Current < MaxRevision, wire' \subseteq wire,
         revisions' = Append(revisions, [op |-> q.op, review |-> q.review,
                                         base |-> q.expected, by |-> q.actor]),
         UNCHANGED <<stored, History>>
  PROVE  Books'
<1> DEFINE n == [op |-> q.op, review |-> q.review, base |-> q.expected, by |-> q.actor]
<1>1. /\ q.op \in Op /\ q.op \in Int /\ q.profile \in Profile /\ q.review \in Review
      /\ q.expected \in Nat /\ Current \in Nat
  BY DEF Books, Kept, Request, Op, Current
<1>2. n \in Revision /\ n.op = q.op /\ n.base = Current /\ n.by = q.profile
  BY <1>1 DEF Revision
<1> HIDE DEF n
<1>3. revisions' = Append(revisions, n)
  BY DEF n
<1>4. /\ Current' = Current + 1 /\ revisions' \in Seq(Revision)
      /\ DOMAIN revisions' = DOMAIN revisions \cup {Current + 1}
      /\ \A i \in DOMAIN revisions : i \in 1 .. Current /\ revisions'[i] = revisions[i]
      /\ revisions'[Current + 1] = n
  <2>1. revisions \in Seq(Revision)
    BY DEF Books, Kept
  <2> QED BY <1>2, <1>3, <2>1 DEF Current
<1>5. \A o : Committed(o)' <=> Committed(o) \/ o = q.op
  BY <1>2, <1>4 DEF Committed
<1>6. Kept'
  BY <1>1, <1>4 DEF Books, Kept, Instance, History, Current
<1>7. Agreed'
  <2>1. \A p \in Profile : stored[p] # Nil => Agrees(stored[p])'
    BY <1>1, <1>4, StoredIs DEF Books, Agreed, Agrees, History
  <2>2. \A r \in wire : Agrees(r)'
    <3> SUFFICES ASSUME NEW r \in wire PROVE Agrees(r)'
      OBVIOUS
    <3>1. r.expected \in Nat /\ Agrees(r)
      BY DEF Books, Kept, Request, Agreed
    <3> QED BY <1>1, <1>4, <3>1 DEF Agrees, History
  <2>3. \A i \in DOMAIN revisions' : revisions'[i].op <= ops
    BY <1>2, <1>4 DEF Books, Agreed, Agrees
  <2> QED BY <2>1, <2>2, <2>3 DEF Agreed, History
<1>8. WireBehind'
  <2> SUFFICES ASSUME NEW r \in wire PROVE Behind(r)'
    BY DEF WireBehind
  <2>1. Behind(r) /\ r.expected \in Nat
    BY DEF Books, WireBehind, Kept, Request
  <2> QED BY <1>1, <1>4, <1>5, <2>1 DEF Behind, History
<1>9. OlderBehind'
  <2> SUFFICES ASSUME NEW r \in wire, NEW i \in DOMAIN revisions', stored[r.profile] # Nil,
                      revisions'[i].op = stored[r.profile].op, r.op # stored[r.profile].op
               PROVE  r.expected < i
    BY DEF OlderBehind
  <2>1. r.expected \in Nat /\ r.expected <= Current
    BY DEF Books, Kept, Request, Agreed, Agrees
  <2>2. CASE i = Current + 1
    BY <1>1, <2>1, <2>2
  <2>3. CASE i \in DOMAIN revisions
    BY <1>4, <2>3 DEF Books, OlderBehind
  <2> QED BY <1>4, <2>2, <2>3
<1>10. q.op \in acked \cup given \/ (stored[q.profile] # Nil /\ stored[q.profile].op = q.op)
  BY <1>1 DEF Books, WireBehind, Behind
<1>11. NothingForgotten'
  <2>1. ASSUME NEW i \in DOMAIN revisions'
        PROVE  \/ revisions'[i].op \in acked \cup given
               \/ stored[revisions'[i].by] # Nil /\ stored[revisions'[i].by].op = revisions'[i].op
    BY <1>2, <1>4, <1>10 DEF Books, NothingForgotten
  <2> QED BY <2>1 DEF NothingForgotten, History
<1>12. NoBlindOverwrite'
  <2>1. n.base = Current /\ agreed[n.op] = Current
    BY <1>2 DEF Books, Agreed, Agrees
  <2>2. \A i \in DOMAIN revisions' : revisions'[i].base = i - 1 /\ agreed[revisions'[i].op] = i - 1
    BY <1>1, <1>4, <2>1 DEF Books, NoBlindOverwrite
  <2> QED BY <2>2 DEF NoBlindOverwrite, History
<1>13. PublishedOnce'
  <2>1. ASSUME NEW i \in DOMAIN revisions, revisions[i].by = q.profile
        PROVE  revisions[i].op \in acked \cup given
    <3>1. revisions[i].op # q.op
      BY DEF Committed
    <3>2. i <= Current /\ i \in Nat
      BY <1>1, <1>4
    <3>3. ASSUME stored[q.profile] # Nil, stored[q.profile].op = revisions[i].op PROVE FALSE
      <4>1. q.expected < i
        BY <3>1, <3>3 DEF Books, OlderBehind
      <4> QED BY <1>1, <3>2, <4>1
    <3> QED BY <2>1, <3>3 DEF Books, NothingForgotten
  <2>2. ASSUME NEW i \in DOMAIN revisions', NEW j \in DOMAIN revisions', i < j,
               revisions'[i].review = revisions'[j].review, revisions'[i].by = revisions'[j].by
        PROVE  revisions'[i].op \in acked \cup given
    <3>1. i \in DOMAIN revisions
      BY <1>1, <1>4, <2>2
    <3>2. CASE j = Current + 1
      BY <1>2, <1>4, <2>1, <2>2, <3>1, <3>2
    <3>3. CASE j \in DOMAIN revisions
      BY <1>4, <2>2, <3>1, <3>3 DEF Books, PublishedOnce
    <3> QED BY <1>4, <3>2, <3>3
  <2> QED BY <2>2 DEF PublishedOnce, History
<1> QED BY <1>6, <1>7, <1>8, <1>9, <1>11, <1>12, <1>13 DEF Books

-----------------------------------------------------------------------------
(* The tabs. *)

\* What a tab believes stays true while it does nothing and its operation stays.
LEMMA TabStays ==
  ASSUME NEW u \in Tab, Believes(u), UNCHANGED tabs[u], Current <= Current',
         Current \in Nat, Current' \in Nat,
         tabs[u].pc \in UnderLock =>
           /\ lock'[Scope(u)] = lock[Scope(u)]
           /\ stored'[Scope(u)] # Nil
           /\ stored'[Scope(u)].op = stored[Scope(u)].op
           /\ stored'[Scope(u)].expected = stored[Scope(u)].expected
           /\ stored[Scope(u)].expected \in Int
           /\ stored[Scope(u)].expected < Current =>
                (Committed(stored[Scope(u)].op)' => Committed(stored[Scope(u)].op))
  PROVE  Believes(u)'
<1> DEFINE w == tabs[u]
<1>0. w' = w /\ Scope(u)' = Scope(u)
  BY DEF Scope
<1>1. Shaped(u)'
  BY <1>0 DEF Believes, Shaped
<1>2. Shown(u)'
  BY <1>0 DEF Believes, Shown
<1>3. Holds(u)'
  BY <1>0 DEF Believes, Holds
<1>4. Refutes(u)'
  <2> SUFFICES ASSUME w.pc = "posted", w.answer = "stale_current"
               PROVE  /\ ~Committed(stored[Scope(u)].op)'
                      /\ stored'[Scope(u)].expected < Current'
    BY <1>0 DEF Refutes
  <2>1. w.pc \in UnderLock
    BY DEF UnderLock
  <2>2. ~Committed(stored[Scope(u)].op) /\ stored[Scope(u)].expected < Current
    BY DEF Believes, Refutes
  <2> QED BY <1>0, <2>1, <2>2 DEF Committed
<1> QED BY <1>1, <1>2, <1>3, <1>4 DEF Believes

\* The lock of a scope has one holder.
LEMMA OneHolder ==
  ASSUME Instance, NEW t \in Tab, NEW u \in Tab, Believes(u), tabs[u].pc \in UnderLock,
         lock[Scope(t)] \in {Nil, t}, u # t
  PROVE  Scope(u) # Scope(t)
  BY DEF Instance, Believes, Holds

(* Only the tab t moves, and what it changes is what its lock protects. *)
Alone(t) ==
  /\ \A u \in Tab \ {t} : tabs'[u] = tabs[u]
  /\ UNCHANGED revisions
  /\ \/ UNCHANGED <<stored, lock>>
     \/ /\ lock[Scope(t)] \in {Nil, t}
        /\ \A p \in Profile \ {Scope(t)} : stored'[p] = stored[p] /\ lock'[p] = lock[p]

\* A step of one tab does not change what the others believe.
LEMMA TabActs ==
  ASSUME Instance, PublicationInv, NEW t \in Tab, Alone(t), Books', Held', Believes(t)'
  PROVE  PublicationInv'
<1> SUFFICES ASSUME NEW u \in Tab \ {t} PROVE Believes(u)'
  BY DEF PublicationInv
<1>1. Believes(u) /\ UNCHANGED tabs[u] /\ Current' = Current /\ Current \in Nat
  BY DEF PublicationInv, Alone, Books, Kept, Current
<1>2. ASSUME tabs[u].pc \in UnderLock
      PROVE  /\ lock'[Scope(u)] = lock[Scope(u)] /\ stored'[Scope(u)] = stored[Scope(u)]
             /\ stored[Scope(u)] # Nil /\ Scope(u) \in Profile
  <2>1. Scope(u) \in Profile /\ stored[Scope(u)] # Nil
    BY <1>1, <1>2 DEF Believes, Shaped, Holds, UnderLock
  <2>2. lock[Scope(t)] \in {Nil, t} => Scope(u) # Scope(t)
    BY <1>1, <1>2, OneHolder
  <2> QED BY <2>1, <2>2 DEF Alone
<1>3. tabs[u].pc \in UnderLock => stored[Scope(u)].expected \in Int
  BY <1>2, StoredIs DEF PublicationInv, Books
<1>4. Committed(stored[Scope(u)].op)' => Committed(stored[Scope(u)].op) \/ tabs[u].pc \notin UnderLock
  BY <1>2 DEF Alone, Committed, Scope
<1>5. tabs[u].pc \in UnderLock =>
        /\ lock'[Scope(u)] = lock[Scope(u)]
        /\ stored'[Scope(u)] # Nil
        /\ stored'[Scope(u)].op = stored[Scope(u)].op
        /\ stored'[Scope(u)].expected = stored[Scope(u)].expected
        /\ stored[Scope(u)].expected \in Int
        /\ (stored[Scope(u)].expected < Current =>
             (Committed(stored[Scope(u)].op)' => Committed(stored[Scope(u)].op)))
  BY <1>2, <1>3, <1>4
<1> QED BY <1>1, <1>5, TabStays

(* What an inspection may have shown. *)
Showable(c) == c # Nil => /\ c.revision \in 0 .. Current
                          /\ c.pending # Nil => c.pending \in Op

\* An attempt ends and the lock is free, or was never taken.
LEMMA AttemptEnds ==
  ASSUME Instance, PublicationInv, NEW t \in Tab, NEW c, Showable(c), Ends(t, c),
         Books', UNCHANGED <<revisions, account>>,
         \/ UNCHANGED <<stored, lock>>
         \/ /\ lock[Scope(t)] \in {Nil, t}
            /\ Release(t) \/ UNCHANGED lock
            /\ \A p \in Profile \ {Scope(t)} : stored'[p] = stored[p]
  PROVE  PublicationInv'
<1>1. /\ DOMAIN tabs = Tab /\ lock \in [Profile -> Tab \cup {Nil}] /\ account \in Profile
      /\ Believes(t)
  BY DEF PublicationInv, Held
<1>2. /\ DOMAIN tabs' = Tab
      /\ tabs'[t] = [pc |-> "idle", review |-> tabs[t].review, conf |-> c, seen |-> Nil,
                     answer |-> Nil]
      /\ \A u \in Tab \ {t} : tabs'[u] = tabs[u]
  BY <1>1 DEF Ends, Idle
<1>3. Current' = Current
  BY DEF Current
<1>4. Believes(t)'
  <2>1. Shaped(t)'
    BY <1>1, <1>2 DEF Believes, Shaped
  <2>2. Shown(t)'
    BY <1>2, <1>3 DEF Shown, Showable
  <2>3. Holds(t)' /\ Refutes(t)'
    BY <1>2 DEF Holds, Refutes, UnderLock
  <2> QED BY <2>1, <2>2, <2>3 DEF Believes
<1>5. Held'
  BY <1>1, <1>2 DEF Held, Release
<1>6. Alone(t)
  BY <1>1, <1>2 DEF Alone, Release
<1> QED BY <1>4, <1>5, <1>6, TabActs

\* A tab goes on: it reads, waits for a lock, or moves within its attempt.
LEMMA TabGoes ==
  ASSUME Instance, PublicationInv, NEW t \in Tab, NEW pc, Goes(t, pc),
         pc = "readback" \/ (pc = "post" /\ tabs[t].pc \in UnderLock),
         tabs[t].pc # "idle", tabs[t].pc \in UnderLock,
         UNCHANGED <<revisions, account, stored, lock, wire, History>>
  PROVE  PublicationInv'
<1>1. DOMAIN tabs = Tab /\ Believes(t)
  BY DEF PublicationInv, Held
<1>2. /\ DOMAIN tabs' = Tab
      /\ tabs'[t] = [tabs[t] EXCEPT !.pc = pc]
      /\ \A u \in Tab \ {t} : tabs'[u] = tabs[u]
  BY <1>1 DEF Goes
<1>3. tabs'[t] = [pc |-> pc, review |-> tabs[t].review, conf |-> tabs[t].conf,
                  seen |-> tabs[t].seen, answer |-> tabs[t].answer]
  BY <1>1, <1>2 DEF Believes, Shaped
<1>4. Believes(t)'
  <2>1. Shaped(t)'
    BY <1>1, <1>3 DEF Believes, Shaped, Scope
  <2>2. Shown(t)'
    BY <1>1, <1>3 DEF Believes, Shown, Current
  <2>3. tabs'[t].pc = pc /\ Scope(t)' = Scope(t)
    BY <1>3 DEF Scope
  <2>4. Holds(t)'
    BY <1>1, <2>3 DEF Believes, Holds
  <2>5. Refutes(t)'
    BY <2>3 DEF Refutes
  <2> QED BY <2>1, <2>2, <2>4, <2>5 DEF Believes
<1>5. Books' /\ Held' /\ Alone(t)
  BY <1>2, BooksStill DEF PublicationInv, Held, Alone
<1> QED BY <1>4, <1>5, TabActs

\* A tab reads the current revision and asks for the lock of its scope.
LEMMA TabReads ==
  ASSUME Instance, PublicationInv, NEW t \in Tab, NEW pc, tabs[t].pc = "idle",
         pc = "inspect" \/ (pc = "execute" /\ tabs[t].conf # Nil),
         readCurrentPublication(t, pc),
         UNCHANGED <<revisions, account, stored, lock, wire, History>>
  PROVE  PublicationInv'
<1>1. DOMAIN tabs = Tab /\ Believes(t) /\ account \in Profile /\ Current \in Nat
  BY DEF PublicationInv, Held, Books, Kept, Current
<1>2. /\ DOMAIN tabs' = Tab
      /\ tabs'[t] = [tabs[t] EXCEPT !.pc = pc, !.seen = [profile |-> account, revision |-> Current]]
      /\ \A u \in Tab \ {t} : tabs'[u] = tabs[u]
  BY <1>1 DEF readCurrentPublication
<1>3. tabs'[t] = [pc |-> pc, review |-> tabs[t].review, conf |-> tabs[t].conf,
                  seen |-> [profile |-> account, revision |-> Current],
                  answer |-> tabs[t].answer]
  BY <1>1, <1>2 DEF Believes, Shaped
<1>4. Believes(t)'
  <2>1. Shaped(t)'
    BY <1>1, <1>3 DEF Believes, Shaped, Scope
  <2>2. Shown(t)'
    BY <1>1, <1>3 DEF Believes, Shown, Current
  <2>3. tabs'[t].pc = pc
    BY <1>3
  <2>4. Holds(t)' /\ Refutes(t)'
    BY <2>3 DEF Holds, Refutes, UnderLock
  <2> QED BY <2>1, <2>2, <2>4 DEF Believes
<1>5. Books' /\ Held' /\ Alone(t)
  BY <1>2, BooksStill DEF PublicationInv, Held, Alone
<1> QED BY <1>4, <1>5, TabActs

\* Under the lock a tab forgets what it was shown and keeps its account.
LEMMA LocksIs ==
  ASSUME DOMAIN tabs = Tab, NEW t \in Tab, NEW pc, Shaped(t), tabs[t].pc # "idle", Locks(t, pc)
  PROVE  /\ DOMAIN tabs' = Tab
         /\ tabs'[t] = [pc |-> pc, review |-> tabs[t].review, conf |-> Nil,
                        seen |-> [profile |-> Scope(t), revision |-> Nil],
                        answer |-> tabs[t].answer]
         /\ \A u \in Tab \ {t} : tabs'[u] = tabs[u]
         /\ lock' = [lock EXCEPT ![Scope(t)] = t]
<1>1. /\ DOMAIN tabs' = Tab
      /\ tabs'[t] = [tabs[t] EXCEPT !.pc = pc, !.conf = Nil, !.seen.revision = Nil]
      /\ \A u \in Tab \ {t} : tabs'[u] = tabs[u]
      /\ lock' = [lock EXCEPT ![Scope(t)] = t]
  BY DEF Locks
<1>2. ASSUME NEW s, NEW p, NEW r, NEW n, s = [profile |-> p, revision |-> r]
      PROVE  [s EXCEPT !.revision = n] = [profile |-> p, revision |-> n]
  <2>1. [[profile |-> p, revision |-> r] EXCEPT !.revision = n] = [profile |-> p, revision |-> n]
    OBVIOUS
  <2> QED BY <1>2, <2>1, Zenon
<1>3. tabs[t] = [pc |-> tabs[t].pc, review |-> tabs[t].review, conf |-> tabs[t].conf,
                 seen |-> tabs[t].seen, answer |-> tabs[t].answer]
  BY DEF Shaped
<1>4. [tabs[t].seen EXCEPT !.revision = Nil] = [profile |-> Scope(t), revision |-> Nil]
  <2>1. PICK r : tabs[t].seen = [profile |-> Scope(t), revision |-> r]
    BY DEF Shaped
  <2> QED BY <1>2, <2>1
<1>5. tabs'[t] = [tabs[t] EXCEPT !.pc = pc, !.conf = Nil,
                                 !.seen = [tabs[t].seen EXCEPT !.revision = Nil]]
  BY <1>1, <1>3
<1>6. ASSUME NEW w, NEW z, NEW c, NEW n, NEW r, z = [w EXCEPT !.pc = c, !.conf = n, !.seen = r],
             w = [pc |-> w.pc, review |-> w.review, conf |-> w.conf, seen |-> w.seen,
                  answer |-> w.answer]
      PROVE  z = [pc |-> c, review |-> w.review, conf |-> n, seen |-> r, answer |-> w.answer]
  BY <1>6
<1>7. tabs'[t] = [pc |-> pc, review |-> tabs[t].review, conf |-> Nil,
                  seen |-> [profile |-> Scope(t), revision |-> Nil], answer |-> tabs[t].answer]
  <2>1. tabs'[t] = [tabs[t] EXCEPT !.pc = pc, !.conf = Nil,
                                   !.seen = [profile |-> Scope(t), revision |-> Nil]]
    BY <1>4, <1>5, Zenon
  <2> QED BY <1>3, <1>6, <2>1, Zenon
<1> QED BY <1>1, <1>7, Zenon

(* The lock of a free scope is taken, where an operation is stored by then. *)
TakesLock(t, pc) ==
  /\ tabs[t].pc # "idle" /\ pc \in UnderLock /\ pc # "posted"
  /\ lock[Scope(t)] = Nil /\ Locks(t, pc)
  /\ stored'[Scope(t)] # Nil
  /\ \A p \in Profile \ {Scope(t)} : stored'[p] = stored[p]
  /\ UNCHANGED <<revisions, account>>

\* A tab takes the lock of its scope.
LEMMA TabLocks ==
  ASSUME Instance, PublicationInv, NEW t \in Tab, NEW pc, TakesLock(t, pc), Books'
  PROVE  PublicationInv'
<1>0. /\ tabs[t].pc # "idle" /\ pc \in UnderLock /\ pc # "posted"
      /\ lock[Scope(t)] = Nil /\ Locks(t, pc)
      /\ stored'[Scope(t)] # Nil
      /\ \A p \in Profile \ {Scope(t)} : stored'[p] = stored[p]
      /\ revisions' = revisions /\ account' = account
  BY DEF TakesLock
<1>1. /\ DOMAIN tabs = Tab /\ Believes(t) /\ Scope(t) \in Profile
      /\ lock \in [Profile -> Tab \cup {Nil}]
  BY <1>0 DEF PublicationInv, Held, Believes, Shaped
<1>2. /\ DOMAIN tabs' = Tab
      /\ tabs'[t] = [pc |-> pc, review |-> tabs[t].review, conf |-> Nil,
                     seen |-> [profile |-> Scope(t), revision |-> Nil],
                     answer |-> tabs[t].answer]
      /\ \A u \in Tab \ {t} : tabs'[u] = tabs[u]
      /\ lock' = [lock EXCEPT ![Scope(t)] = t]
  BY <1>0, <1>1, LocksIs DEF Believes
<1>3. ASSUME NEW z, NEW a, NEW b, NEW c, NEW d, NEW e, NEW f,
             z = [pc |-> a, review |-> b, conf |-> c, seen |-> [profile |-> d, revision |-> e],
                  answer |-> f]
      PROVE  /\ z.pc = a /\ z.review = b /\ z.conf = c /\ z.seen.profile = d
             /\ z = [pc |-> z.pc, review |-> z.review, conf |-> z.conf, seen |-> z.seen,
                     answer |-> z.answer]
             /\ z.seen = [profile |-> z.seen.profile, revision |-> z.seen.revision]
  BY <1>3
<1>4. /\ tabs'[t].pc = pc /\ tabs'[t].review = tabs[t].review /\ tabs'[t].conf = Nil
      /\ Scope(t)' = Scope(t)
      /\ tabs'[t].seen = [profile |-> Scope(t)', revision |-> tabs'[t].seen.revision]
  <2>1. tabs'[t].seen.profile = Scope(t)
    BY <1>2, <1>3
  <2>2. Scope(t)' = Scope(t)
    BY <2>1, Zenon DEF Scope
  <2>3. /\ tabs'[t].pc = pc /\ tabs'[t].review = tabs[t].review /\ tabs'[t].conf = Nil
        /\ tabs'[t].seen = [profile |-> tabs'[t].seen.profile, revision |-> tabs'[t].seen.revision]
    BY <1>2, <1>3
  <2> QED BY <2>1, <2>2, <2>3, Zenon
<1>5. Believes(t)'
  <2>1. Shaped(t)'
    <3>1. tabs[t].review \in Review
      BY <1>1 DEF Believes, Shaped
    <3>2. tabs'[t] = [pc |-> tabs'[t].pc, review |-> tabs'[t].review, conf |-> tabs'[t].conf,
                      seen |-> tabs'[t].seen, answer |-> tabs'[t].answer]
      BY <1>2, <1>3, Zenon
    <3> QED BY <1>1, <1>4, <3>1, <3>2, Zenon DEF Shaped
  <2>2. Shown(t)'
    BY <1>0, <1>4 DEF Shown, UnderLock
  <2>3. Holds(t)'
    BY <1>0, <1>1, <1>2, <1>4 DEF Holds
  <2>4. Refutes(t)'
    BY <1>0, <1>4 DEF Refutes
  <2> QED BY <2>1, <2>2, <2>3, <2>4 DEF Believes
<1>6. Held'
  BY <1>0, <1>1, <1>2 DEF PublicationInv, Held
<1>7. Alone(t)
  BY <1>0, <1>1, <1>2 DEF Alone
<1> QED BY <1>5, <1>6, <1>7, TabActs

-----------------------------------------------------------------------------
(* The steps. *)

\* The tab under the lock holds it, and its operation is stored.
LEMMA TabHolds ==
  ASSUME PublicationInv, NEW t \in Tab, tabs[t].pc \in UnderLock
  PROVE  /\ Scope(t) \in Profile /\ lock[Scope(t)] = t /\ stored[Scope(t)] # Nil
         /\ stored[Scope(t)].op \in Op
<1>1. Scope(t) \in Profile /\ lock[Scope(t)] = t /\ stored[Scope(t)] # Nil
  BY DEF PublicationInv, Believes, Shaped, Holds, UnderLock
<1> QED BY <1>1, StoredIs DEF PublicationInv, Books

\* An attempt under the lock ends with its operation settled.
LEMMA AttemptSettles ==
  ASSUME Instance, PublicationInv, NEW t \in Tab, tabs[t].pc \in UnderLock,
         NEW op, op = stored[Scope(t)].op, Remove(Scope(t), op),
         Settles(Scope(t), op), UNCHANGED <<ops, agreed, given>>,
         acked' = acked \/ acked' = acked \cup {op},
         Ends(t, Nil), Release(t), UNCHANGED <<revisions, account, wire>>
  PROVE  PublicationInv'
<1>1. Scope(t) \in Profile /\ lock[Scope(t)] = t /\ op \in Op
  BY TabHolds
<1>2. acked \subseteq acked' /\ given \subseteq given' /\ acked' \subseteq Op /\ given' \subseteq Op
  BY <1>1 DEF PublicationInv, Books, Kept
<1>3. Books'
  BY <1>1, <1>2, BooksDrop DEF PublicationInv
<1>4. \A p \in Profile \ {Scope(t)} : stored'[p] = stored[p]
  BY <1>1 DEF PublicationInv, Books, Kept, Remove
<1>5. Showable(Nil)
  BY DEF Showable
<1> QED BY <1>1, <1>3, <1>4, <1>5, AttemptEnds

\* An attempt ends with its operation acknowledged.
LEMMA AttemptAcknowledged ==
  ASSUME Instance, PublicationInv, NEW t \in Tab, tabs[t].pc \in UnderLock,
         Acknowledge(t, stored[Scope(t)].op), Ends(t, Nil), Release(t),
         UNCHANGED <<revisions, account, wire>>
  PROVE  PublicationInv'
<1>1. Settles(Scope(t), stored[Scope(t)].op)
  BY DEF Acknowledge, Settles
<1> QED BY <1>1, AttemptSettles DEF Acknowledge

\* An attempt ends and leaves its operation stored.
LEMMA AttemptLeaves ==
  ASSUME Instance, PublicationInv, NEW t \in Tab, tabs[t].pc \in UnderLock,
         NEW c, Showable(c), Ends(t, c), Release(t),
         UNCHANGED <<revisions, account, stored, wire, History>>
  PROVE  PublicationInv'
<1>1. lock[Scope(t)] = t
  BY TabHolds
<1>2. Books'
  BY BooksStill DEF PublicationInv
<1> QED BY <1>1, <1>2, AttemptEnds

\* An attempt ends before the lock was taken.
LEMMA AttemptStops ==
  ASSUME Instance, PublicationInv, NEW t \in Tab, NEW c, Showable(c), Ends(t, c),
         UNCHANGED <<revisions, account, stored, lock, wire, History>>
  PROVE  PublicationInv'
<1>1. Books'
  BY BooksStill DEF PublicationInv
<1> QED BY <1>1, AttemptEnds

\* Nothing moves but what no tab believes anything about.
LEMMA TabsStand ==
  ASSUME Instance, PublicationInv, UNCHANGED <<revisions, stored, lock, tabs>>, Books', account' \in Profile
  PROVE  PublicationInv'
<1> SUFFICES ASSUME NEW u \in Tab PROVE Believes(u)'
  BY DEF PublicationInv, Held
<1>1. Believes(u) /\ Scope(u)' = Scope(u)
  BY DEF PublicationInv, Scope
<1>2. Shaped(u)' /\ Shown(u)' /\ Holds(u)'
  BY <1>1 DEF Believes, Shaped, Shown, Holds, Current
<1>3. Refutes(u)'
  BY <1>1 DEF Believes, Refutes, Current, Committed
<1> QED BY <1>2, <1>3 DEF Believes

\* Another review is opened: the invariant is preserved.
LEMMA OpenReviewStep ==
  ASSUME Instance, PublicationInv, NEW t \in Tab, OpenReview(t)
  PROVE  PublicationInv'
<1>1. DOMAIN tabs = Tab
  BY DEF PublicationInv, Held
<1>2. PICK r \in Review : tabs' = [tabs EXCEPT ![t] = Idle(r)]
  BY DEF OpenReview
<1>3. /\ DOMAIN tabs' = Tab /\ tabs'[t] = Idle(r) /\ \A u \in Tab \ {t} : tabs'[u] = tabs[u]
  BY <1>1, <1>2
<1>4. Believes(t)'
  <2>1. tabs'[t] = [pc |-> "idle", review |-> r, conf |-> Nil, seen |-> Nil, answer |-> Nil]
    BY <1>3 DEF Idle
  <2>2. Shaped(t)'
    BY <2>1 DEF Shaped
  <2>3. Shown(t)' /\ Holds(t)' /\ Refutes(t)'
    BY <2>1 DEF Shown, Holds, Refutes, UnderLock
  <2> QED BY <2>2, <2>3 DEF Believes
<1>5. Books' /\ Held' /\ Alone(t)
  BY <1>3, BooksStill DEF OpenReview, PublicationInv, Held, Alone
<1> QED BY <1>4, <1>5, TabActs

\* A tab is reloaded and its lock is freed: the invariant is preserved.
LEMMA ReloadStep ==
  ASSUME Instance, PublicationInv, NEW t \in Tab, Reload(t)
  PROVE  PublicationInv'
<1>1. /\ DOMAIN tabs = Tab /\ lock \in [Profile -> Tab \cup {Nil}] /\ Believes(t)
      /\ tabs[t].pc # "idle"
  BY DEF PublicationInv, Held, Reload
<1>2. /\ DOMAIN tabs' = Tab /\ tabs'[t] = Idle(tabs[t].review)
      /\ \A u \in Tab \ {t} : tabs'[u] = tabs[u]
  BY <1>1 DEF Reload
<1>3. \A u \in Tab \ {t} : UNCHANGED tabs[u] /\ Believes(u)
  BY <1>2 DEF PublicationInv
<1>4. Believes(t)'
  <2>1. tabs'[t] = [pc |-> "idle", review |-> tabs[t].review, conf |-> Nil, seen |-> Nil,
                    answer |-> Nil]
    BY <1>2 DEF Idle
  <2>2. Shaped(t)'
    BY <1>1, <2>1 DEF Believes, Shaped
  <2>3. Shown(t)' /\ Holds(t)' /\ Refutes(t)'
    BY <2>1 DEF Shown, Holds, Refutes, UnderLock
  <2> QED BY <2>2, <2>3 DEF Believes
<1>5. ASSUME NEW u \in Tab \ {t} PROVE Believes(u)'
  <2>1. Believes(u) /\ UNCHANGED tabs[u] /\ Current' = Current /\ Current \in Nat
    BY <1>3 DEF PublicationInv, Books, Kept, Current, Reload
  <2>2. ASSUME tabs[u].pc \in UnderLock
        PROVE  /\ lock'[Scope(u)] = lock[Scope(u)] /\ stored[Scope(u)] # Nil
               /\ Scope(u) \in Profile
    <3>1. Scope(u) \in Profile /\ stored[Scope(u)] # Nil /\ lock[Scope(u)] = u
      BY <2>2, TabHolds
    <3> QED BY <3>1 DEF Reload
  <2>3. tabs[u].pc \in UnderLock => stored[Scope(u)].expected \in Int
    BY <2>2, StoredIs DEF PublicationInv, Books
  <2>4. UNCHANGED <<stored, revisions>>
    BY DEF Reload, History
  <2>5. Committed(stored[Scope(u)].op)' => Committed(stored[Scope(u)].op)
    BY <2>1, <2>4 DEF Committed, Scope
  <2> QED BY <2>1, <2>2, <2>3, <2>4, <2>5, TabStays
<1>6. Books'
  BY BooksStill DEF Reload, PublicationInv
<1>7. Held'
  <2>1. lock' \in [Profile -> Tab \cup {Nil}]
    BY <1>1 DEF Reload
  <2> QED BY <1>2, <2>1 DEF Held, Reload, PublicationInv
<1> QED BY <1>4, <1>5, <1>6, <1>7 DEF PublicationInv

\* The current revision is read: the invariant is preserved.
LEMMA InspectStep ==
  ASSUME Instance, PublicationInv, NEW t \in Tab, Inspect(t)
  PROVE  PublicationInv'
  BY TabReads DEF Inspect

\* An inspection under the lock: the invariant is preserved.
LEMMA InspectLockedStep ==
  ASSUME Instance, PublicationInv, NEW t \in Tab, InspectLocked(t)
  PROVE  PublicationInv'
<1> DEFINE pending == stored[Scope(t)]
           c == Confirmation(t, tabs[t].seen.revision, pending, pending # Nil)
<1>1. Scope(t) \in Profile /\ tabs[t].seen.revision \in 0 .. Current
  BY DEF InspectLocked, PublicationInv, Believes, Shaped, Shown
<1>2. Books'
  BY BooksStill DEF InspectLocked, PublicationInv
<1>3. CASE Ends(t, c) /\ UNCHANGED lock
  <2>1. pending # Nil => pending.op \in Op
    BY <1>1, StoredIs DEF PublicationInv, Books
  <2>2. c.revision \in 0 .. Current /\ c.pending = (IF pending = Nil THEN Nil ELSE pending.op)
    BY <1>1 DEF Confirmation
  <2>3. Showable(c)
    BY <2>1, <2>2 DEF Showable
  <2> HIDE DEF c
  <2> QED BY <1>3, <2>3, AttemptStops DEF InspectLocked
<1>4. CASE Locks(t, "inspect receipt") /\ pending # Nil
  <2>1. TakesLock(t, "inspect receipt")
    BY <1>4 DEF InspectLocked, TakesLock, UnderLock
  <2> QED BY <1>2, <2>1, TabLocks
<1> QED BY <1>3, <1>4 DEF InspectLocked

\* An operation that is stored may be shown.
LEMMA StoredIsShowable ==
  ASSUME PublicationInv, NEW t \in Tab, tabs[t].pc \in UnderLock, NEW blocked
  PROVE  LET pending == stored[Scope(t)]
         IN Showable(Confirmation(t, pending.expected, pending, blocked))
<1>1. Scope(t) \in Profile /\ stored[Scope(t)] # Nil /\ stored[Scope(t)].op \in Op
  BY TabHolds
<1>2. stored[Scope(t)].expected \in 0 .. MaxRevision /\ stored[Scope(t)].expected <= Current
      /\ Current \in Nat
  BY <1>1, StoredIs DEF PublicationInv, Books, Agreed, Agrees, Kept, Current
<1>3. stored[Scope(t)].expected \in 0 .. Current
  BY <1>2
<1> QED BY <1>1, <1>3 DEF Showable, Confirmation

\* An inspection learns what became of the stored operation: the invariant is preserved.
LEMMA InspectReceiptStep ==
  ASSUME Instance, PublicationInv, NEW t \in Tab, InspectReceipt(t)
  PROVE  PublicationInv'
<1> DEFINE pending == stored[Scope(t)]
           c == Confirmation(t, pending.expected, pending, pending.old)
<1>1. /\ tabs[t].pc \in UnderLock /\ Release(t)
      /\ UNCHANGED <<revisions, account, changes, wire>>
  BY DEF InspectReceipt, UnderLock
<1>2. CASE Acknowledge(t, pending.op) /\ Ends(t, Nil)
  BY <1>1, <1>2, AttemptAcknowledged
<1>3. CASE Ends(t, Nil) /\ UNCHANGED <<stored, History>>
  <2>1. Showable(Nil)
    BY DEF Showable
  <2> QED BY <1>1, <1>3, <2>1, AttemptLeaves
<1>4. CASE Ends(t, c) /\ UNCHANGED <<stored, History>>
  <2>1. Showable(c)
    BY <1>1, StoredIsShowable
  <2> HIDE DEF c
  <2> QED BY <1>1, <1>4, <2>1, AttemptLeaves
<1>5. \/ Acknowledge(t, pending.op) /\ Ends(t, Nil)
      \/ Ends(t, Nil) /\ UNCHANGED <<stored, History>>
      \/ Ends(t, c) /\ UNCHANGED <<stored, History>>
  BY DEF InspectReceipt
<1> QED BY <1>2, <1>3, <1>4, <1>5

\* A confirmation reads the current revision again: the invariant is preserved.
LEMMA ExecuteStep ==
  ASSUME Instance, PublicationInv, NEW t \in Tab, Execute(t)
  PROVE  PublicationInv'
<1>1. /\ tabs[t].pc = "idle" /\ tabs[t].conf # Nil
      /\ UNCHANGED <<revisions, account, changes, stored, lock, wire, History>>
      /\ readCurrentPublication(t, "execute") \/ Ends(t, Nil)
  BY DEF Execute
<1>2. CASE readCurrentPublication(t, "execute")
  BY <1>1, <1>2, TabReads
<1>3. CASE Ends(t, Nil)
  <2>1. Showable(Nil)
    BY DEF Showable
  <2> QED BY <1>1, <1>3, <2>1, AttemptStops
<1> QED BY <1>1, <1>2, <1>3

\* A confirmation under the lock stores its operation or takes up the stored one: the invariant is preserved.
LEMMA ExecuteLockedStep ==
  ASSUME Instance, PublicationInv, NEW t \in Tab, ExecuteLocked(t)
  PROVE  PublicationInv'
<1>1. /\ tabs[t].pc = "execute" /\ lock[Scope(t)] = Nil
      /\ UNCHANGED <<revisions, account, changes, wire>>
  BY DEF ExecuteLocked
<1>2. /\ Scope(t) \in Profile /\ tabs[t].conf.revision \in 0 .. Current
      /\ tabs[t].review \in Review
  BY <1>1 DEF PublicationInv, Believes, Shaped, Shown
<1>3. CASE Ends(t, Nil) /\ UNCHANGED <<lock, stored, History>>
  <2>1. Showable(Nil)
    BY DEF Showable
  <2> QED BY <1>1, <1>3, <2>1, AttemptStops
<1>4. CASE stored[Scope(t)] # Nil /\ Locks(t, "execute receipt") /\ UNCHANGED <<stored, History>>
  <2>1. Books'
    BY <1>1, <1>4, BooksStill DEF PublicationInv
  <2>2. TakesLock(t, "execute receipt")
    BY <1>1, <1>4 DEF TakesLock, UnderLock
  <2> QED BY <2>1, <2>2, TabLocks
<1> DEFINE New == /\ stored[Scope(t)] = Nil /\ ops < MaxOp
                  /\ Locks(t, "post")
                  /\ ops' = ops + 1
                  /\ stored' = [stored EXCEPT ![Scope(t)] =
                       [op |-> ops + 1, review |-> tabs[t].review,
                        expected |-> Expected(t), old |-> FALSE]]
                  /\ agreed' = [agreed EXCEPT ![ops + 1] = tabs[t].conf.revision]
                  /\ UNCHANGED <<acked, given>>
<1>5. CASE New
  <2>1. /\ stored[Scope(t)] = Nil /\ ops < MaxOp /\ Locks(t, "post") /\ ops' = ops + 1
        /\ stored' = [stored EXCEPT ![Scope(t)] =
             [op |-> ops + 1, review |-> tabs[t].review,
              expected |-> tabs[t].conf.revision, old |-> FALSE]]
        /\ agreed' = [agreed EXCEPT ![ops + 1] = tabs[t].conf.revision]
        /\ UNCHANGED <<acked, given>>
    BY <1>5 DEF Expected
  <2>2. Books' /\ stored'[Scope(t)] # Nil
    BY <1>1, <1>2, <2>1, BooksNew DEF PublicationInv
  <2>3. \A p \in Profile \ {Scope(t)} : stored'[p] = stored[p]
    BY <2>1 DEF PublicationInv, Books, Kept
  <2>4. TakesLock(t, "post")
    BY <1>1, <2>1, <2>2, <2>3 DEF TakesLock, UnderLock
  <2> QED BY <2>2, <2>4, TabLocks
<1>6. \/ Ends(t, Nil) /\ UNCHANGED <<lock, stored, History>>
      \/ stored[Scope(t)] # Nil /\ Locks(t, "execute receipt") /\ UNCHANGED <<stored, History>>
      \/ New
  BY DEF ExecuteLocked
<1> QED BY <1>3, <1>4, <1>5, <1>6

\* A stored operation is looked up before it is repeated: the invariant is preserved.
LEMMA ExecuteReceiptStep ==
  ASSUME Instance, PublicationInv, NEW t \in Tab, ExecuteReceipt(t)
  PROVE  PublicationInv'
<1> DEFINE op == stored[Scope(t)].op
<1>1. /\ tabs[t].pc \in UnderLock /\ tabs[t].pc # "idle"
      /\ UNCHANGED <<revisions, account, changes, wire>>
  BY DEF ExecuteReceipt, UnderLock
<1>2. CASE Acknowledge(t, op) /\ Ends(t, Nil) /\ Release(t)
  BY <1>1, <1>2, AttemptAcknowledged
<1>3. CASE Goes(t, "post") /\ UNCHANGED <<stored, lock, History>>
  BY <1>1, <1>3, TabGoes
<1>4. CASE Ends(t, Nil) /\ Release(t) /\ UNCHANGED <<stored, History>>
  <2>1. Showable(Nil)
    BY DEF Showable
  <2> QED BY <1>1, <1>4, <2>1, AttemptLeaves
<1>5. \/ Acknowledge(t, op) /\ Ends(t, Nil) /\ Release(t)
      \/ Goes(t, "post") /\ UNCHANGED <<stored, lock, History>>
      \/ Ends(t, Nil) /\ Release(t) /\ UNCHANGED <<stored, History>>
  BY DEF ExecuteReceipt
<1> QED BY <1>2, <1>3, <1>4, <1>5

\* A request is sent: the invariant is preserved.
LEMMA PostStep ==
  ASSUME Instance, PublicationInv, NEW t \in Tab, Post(t)
  PROVE  PublicationInv'
<1>1. /\ tabs[t].pc = "post" /\ tabs[t].pc \in UnderLock /\ Believes(t) /\ DOMAIN tabs = Tab
      /\ account \in Profile
      /\ UNCHANGED <<revisions, account, changes, stored, lock, History>>
  BY DEF Post, UnderLock, PublicationInv, Held
<1>2. Scope(t) \in Profile /\ stored[Scope(t)] # Nil /\ tabs[t].review \in Review
  BY <1>1, TabHolds DEF Believes, Shaped
<1>3. Books'
  BY <1>1, <1>2, BooksPost DEF Post, PublicationInv
<1>4. /\ DOMAIN tabs' = Tab
      /\ tabs'[t] = [tabs[t] EXCEPT !.pc = "posted", !.answer = Nil]
      /\ \A u \in Tab \ {t} : tabs'[u] = tabs[u]
  BY <1>1 DEF Post
<1>5. tabs'[t] = [pc |-> "posted", review |-> tabs[t].review, conf |-> tabs[t].conf,
                  seen |-> tabs[t].seen, answer |-> Nil]
  BY <1>1, <1>4 DEF Believes, Shaped
<1>6. /\ tabs'[t].pc = "posted" /\ tabs'[t].answer = Nil /\ tabs'[t].conf = tabs[t].conf
      /\ Scope(t)' = Scope(t)
  BY <1>5 DEF Scope
<1>7. Believes(t)'
  <2>1. Shaped(t)'
    BY <1>1, <1>5, <1>6 DEF Believes, Shaped, Scope
  <2>2. Shown(t)'
    BY <1>1, <1>6 DEF Believes, Shown, Current
  <2>3. Holds(t)'
    BY <1>1, <1>6 DEF Believes, Holds
  <2>4. Refutes(t)'
    BY <1>6 DEF Refutes, Instance
  <2> QED BY <2>1, <2>2, <2>3, <2>4 DEF Believes
<1>8. Held' /\ Alone(t)
  BY <1>1, <1>4 DEF Held, Alone, PublicationInv
<1> QED BY <1>3, <1>7, <1>8, TabActs

\* An answer to a request is acted upon: the invariant is preserved.
LEMMA PostAnsweredStep ==
  ASSUME Instance, PublicationInv, NEW t \in Tab, PostAnswered(t)
  PROVE  PublicationInv'
<1> DEFINE op == stored[Scope(t)].op
<1>1. /\ tabs[t].pc = "posted" /\ tabs[t].pc \in UnderLock
      /\ Ends(t, Nil) /\ Release(t)
      /\ UNCHANGED <<revisions, account, changes, wire>>
  BY DEF PostAnswered, UnderLock
<1>2. CASE Acknowledge(t, op)
  BY <1>1, <1>2, AttemptAcknowledged
<1>3. CASE Forgets(tabs[t].answer) /\ Remove(Scope(t), op) /\ UNCHANGED History
  <2>1. stored[Scope(t)] # Nil /\ ~Committed(op) /\ stored[Scope(t)].expected < Current
    BY <1>1, <1>3, TabHolds DEF Forgets, PublicationInv, Believes, Refutes
  <2>2. Settles(Scope(t), op)
    BY <2>1 DEF Settles
  <2>3. UNCHANGED <<ops, agreed, given>> /\ acked' = acked
    BY <1>3 DEF History
  <2> QED BY <1>1, <1>3, <2>2, <2>3, AttemptSettles
<1>4. CASE UNCHANGED <<stored, History>>
  <2>1. Showable(Nil)
    BY DEF Showable
  <2> QED BY <1>1, <1>4, <2>1, AttemptLeaves
<1>5. \/ Acknowledge(t, op)
      \/ Forgets(tabs[t].answer) /\ Remove(Scope(t), op) /\ UNCHANGED History
      \/ UNCHANGED <<stored, History>>
  BY DEF PostAnswered
<1> QED BY <1>2, <1>3, <1>4, <1>5

\* No answer came: the invariant is preserved.
LEMMA PostLostStep ==
  ASSUME Instance, PublicationInv, NEW t \in Tab, PostLost(t)
  PROVE  PublicationInv'
<1>1. tabs[t].pc \in UnderLock /\ tabs[t].pc # "idle"
  BY DEF PostLost, UnderLock
<1> QED BY <1>1, TabGoes DEF PostLost

\* The operation is read back: the invariant is preserved.
LEMMA ReadbackStep ==
  ASSUME Instance, PublicationInv, NEW t \in Tab, Readback(t)
  PROVE  PublicationInv'
<1> DEFINE op == stored[Scope(t)].op
<1>1. /\ tabs[t].pc \in UnderLock /\ Ends(t, Nil) /\ Release(t)
      /\ UNCHANGED <<revisions, account, changes, wire>>
  BY DEF Readback, UnderLock
<1>2. CASE Acknowledge(t, op)
  BY <1>1, <1>2, AttemptAcknowledged
<1>3. CASE UNCHANGED <<stored, History>>
  <2>1. Showable(Nil)
    BY DEF Showable
  <2> QED BY <1>1, <1>3, <2>1, AttemptLeaves
<1>4. Acknowledge(t, op) \/ UNCHANGED <<stored, History>>
  BY DEF Readback
<1> QED BY <1>2, <1>3, <1>4

\* The user asks to give an operation up: the invariant is preserved.
LEMMA AbandonStep ==
  ASSUME Instance, PublicationInv, NEW t \in Tab, Abandon(t)
  PROVE  PublicationInv'
<1>1. /\ tabs[t].pc = "idle" /\ tabs[t].conf # Nil /\ tabs[t].conf.pending # Nil
      /\ Believes(t) /\ DOMAIN tabs = Tab /\ account \in Profile
      /\ UNCHANGED <<revisions, account, changes, stored, lock, wire, History>>
  BY DEF Abandon, PublicationInv, Held
<1>2. CASE Ends(t, Nil)
  <2>1. Showable(Nil)
    BY DEF Showable
  <2> QED BY <1>1, <1>2, <2>1, AttemptStops
<1> DEFINE asked == [profile |-> account, revision |-> Nil]
<1>3. CASE tabs' = [tabs EXCEPT ![t].pc = "abandon", ![t].seen = asked]
  <2>1. /\ DOMAIN tabs' = Tab
        /\ tabs'[t] = [tabs[t] EXCEPT !.pc = "abandon", !.seen = asked]
        /\ \A u \in Tab \ {t} : tabs'[u] = tabs[u]
    BY <1>1, <1>3
  <2>2. tabs'[t] = [pc |-> "abandon", review |-> tabs[t].review, conf |-> tabs[t].conf,
                    seen |-> asked, answer |-> tabs[t].answer]
    BY <1>1, <2>1 DEF Believes, Shaped
  <2>3. /\ tabs'[t].pc = "abandon" /\ tabs'[t].conf = tabs[t].conf
        /\ tabs'[t].seen = asked
    BY <2>2
  <2>4. Shaped(t)'
    <3>1. Scope(t)' = account
      BY <2>3 DEF Scope
    <3> QED BY <1>1, <2>2, <2>3, <3>1 DEF Believes, Shaped
  <2>5. Shown(t)'
    BY <1>1, <2>3 DEF Believes, Shown, Current
  <2>6. Holds(t)' /\ Refutes(t)'
    BY <2>3 DEF Holds, Refutes, UnderLock
  <2>7. Believes(t)'
    BY <2>4, <2>5, <2>6 DEF Believes
  <2>8. Books' /\ Held' /\ Alone(t)
    BY <1>1, <2>1, BooksStill DEF PublicationInv, Held, Alone
  <2> QED BY <2>7, <2>8, TabActs
<1> QED BY <1>2, <1>3 DEF Abandon

\* The operation is given up: the invariant is preserved.
LEMMA AbandonLockedStep ==
  ASSUME Instance, PublicationInv, NEW t \in Tab, AbandonLocked(t)
  PROVE  PublicationInv'
<1> DEFINE op == tabs[t].conf.pending
<1>1. /\ tabs[t].pc = "abandon" /\ lock[Scope(t)] = Nil
      /\ Remove(Scope(t), op) /\ given' = given \cup {op} /\ Ends(t, Nil)
      /\ UNCHANGED <<revisions, account, changes, lock, wire, ops, agreed, acked>>
  BY DEF AbandonLocked
<1>2. Scope(t) \in Profile /\ op \in Op
  BY <1>1 DEF PublicationInv, Believes, Shaped, Shown
<1>3. Settles(Scope(t), op)
  BY <1>1 DEF Settles
<1>4. acked' \subseteq Op /\ given' \subseteq Op
  BY <1>1, <1>2 DEF PublicationInv, Books, Kept
<1>5. Books'
  BY <1>1, <1>2, <1>3, <1>4, BooksDrop DEF PublicationInv
<1>6. \A p \in Profile \ {Scope(t)} : stored'[p] = stored[p]
  BY <1>1, <1>2 DEF PublicationInv, Books, Kept, Remove
<1>7. Showable(Nil)
  BY DEF Showable
<1>8. lock[Scope(t)] \in {Nil, t}
  BY <1>1
<1> QED BY <1>1, <1>5, <1>6, <1>7, <1>8, AttemptEnds

\* Another account signs in: the invariant is preserved.
LEMMA SwitchAccountStep ==
  ASSUME Instance, PublicationInv, SwitchAccount
  PROVE  PublicationInv'
<1>1. Books'
  BY BooksStill DEF SwitchAccount, PublicationInv
<1> QED BY <1>1, TabsStand DEF SwitchAccount

\* A stored operation grows old: the invariant is preserved.
LEMMA ExpireStep ==
  ASSUME Instance, PublicationInv, NEW p \in Profile, Expire(p)
  PROVE  PublicationInv'
<1>1. /\ stored[p] # Nil /\ stored' = [stored EXCEPT ![p].old = TRUE]
      /\ UNCHANGED <<revisions, account, lock, tabs, wire, History>>
  BY DEF Expire
<1>2. /\ Books'
      /\ \A s \in Profile : stored[s] # Nil => /\ stored'[s] # Nil
                                               /\ stored'[s].op = stored[s].op
                                               /\ stored'[s].expected = stored[s].expected
  BY <1>1, BooksExpire DEF PublicationInv
<1>3. ASSUME NEW u \in Tab PROVE Believes(u)'
  <2>1. Believes(u) /\ UNCHANGED tabs[u] /\ Current' = Current /\ Current \in Nat
    BY <1>1 DEF PublicationInv, Books, Kept, Current
  <2>2. ASSUME tabs[u].pc \in UnderLock
        PROVE  /\ lock'[Scope(u)] = lock[Scope(u)]
               /\ stored'[Scope(u)] # Nil
               /\ stored'[Scope(u)].op = stored[Scope(u)].op
               /\ stored'[Scope(u)].expected = stored[Scope(u)].expected
               /\ stored[Scope(u)].expected \in Int
    <3>1. Scope(u) \in Profile /\ stored[Scope(u)] # Nil
      BY <2>2, TabHolds
    <3> QED BY <1>1, <1>2, <3>1, StoredIs DEF PublicationInv, Books
  <2>3. Committed(stored[Scope(u)].op)' => Committed(stored[Scope(u)].op) \/ tabs[u].pc \notin UnderLock
    BY <1>1, <2>2 DEF Committed, Scope
  <2>4. tabs[u].pc \in UnderLock =>
          /\ lock'[Scope(u)] = lock[Scope(u)]
          /\ stored'[Scope(u)] # Nil
          /\ stored'[Scope(u)].op = stored[Scope(u)].op
          /\ stored'[Scope(u)].expected = stored[Scope(u)].expected
          /\ stored[Scope(u)].expected \in Int
          /\ (stored[Scope(u)].expected < Current =>
               (Committed(stored[Scope(u)].op)' => Committed(stored[Scope(u)].op)))
    BY <2>2, <2>3
  <2> QED BY <2>1, <2>4, TabStays
<1>4. Held'
  BY <1>1 DEF PublicationInv, Held
<1> QED BY <1>2, <1>3, <1>4 DEF PublicationInv

\* A request is lost: the invariant is preserved.
LEMMA LoseStep ==
  ASSUME Instance, PublicationInv, NEW q \in wire, Lose(q)
  PROVE  PublicationInv'
<1>1. /\ wire' \subseteq wire
      /\ UNCHANGED <<revisions, account, changes, stored, lock, tabs, History>>
  BY DEF Lose
<1>2. Books'
  BY <1>1, BooksTaken DEF PublicationInv
<1>3. account' \in Profile
  BY <1>1 DEF PublicationInv, Held
<1> QED BY <1>1, <1>2, <1>3, TabsStand

(* The database commits, replays or refuses.  A refusal that reaches the   *)
(* tab is true; a commit is of no operation that a refusal was given for,  *)
(* because those are behind the current revision.                          *)
LEMMA HandleStep ==
  ASSUME Instance, PublicationInv, NEW q \in wire, Handle(q)
  PROVE  PublicationInv'
<1>1. /\ wire' \subseteq wire /\ UNCHANGED <<account, changes, stored, lock, History>>
      /\ DOMAIN tabs = Tab /\ account \in Profile /\ Books
  BY DEF Handle, PublicationInv, Held
<1>2. /\ q.tab \in Tab /\ q.profile \in Profile /\ q.op \in Op /\ q.op \in Int
      /\ q.expected \in Nat /\ q.expected = agreed[q.op] /\ q.expected <= Current
      /\ Current \in Nat
  BY <1>1 DEF Books, Kept, Request, Agreed, Agrees, Op, Current
<1>3. \/ /\ Judgement(q) # "commit" /\ revisions' = revisions
      \/ /\ Judgement(q) = "commit" /\ q.actor = q.profile /\ ~Committed(q.op)
         /\ q.expected = Current /\ Current < MaxRevision
         /\ revisions' = Append(revisions, [op |-> q.op, review |-> q.review,
                                            base |-> q.expected, by |-> q.actor])
  BY DEF Handle, Judgement, Current
<1>4. /\ Current' \in Nat /\ Current <= Current'
      /\ \A o : o # q.op \/ q.expected # Current => (Committed(o)' => Committed(o))
  <2>1. CASE revisions' = revisions
    BY <1>2, <2>1 DEF Committed, Current
  <2> DEFINE n == [op |-> q.op, review |-> q.review, base |-> q.expected, by |-> q.actor]
  <2>2. CASE revisions' = Append(revisions, n) /\ q.expected = Current
    <3>1. n.op = q.op
      OBVIOUS
    <3> HIDE DEF n
    <3>2. revisions \in Seq(Revision)
      BY <1>1 DEF Books, Kept
    <3>3. /\ Len(revisions') = Len(revisions) + 1
          /\ \A i \in DOMAIN revisions' :
               (i \in DOMAIN revisions /\ revisions'[i] = revisions[i]) \/ revisions'[i] = n
      BY <2>2, <3>2
    <3> QED BY <1>2, <2>2, <3>1, <3>3 DEF Committed, Current
  <2> QED BY <1>3, <2>1, <2>2
<1>5. Books'
  BY <1>1, <1>3, BooksTaken, BooksCommit
<1>6. ASSUME NEW u \in Tab, tabs[u].pc \in UnderLock
      PROVE  /\ Scope(u) \in Profile /\ stored[Scope(u)] # Nil
             /\ stored[Scope(u)].expected \in Int
             /\ stored[Scope(u)].expected = agreed[stored[Scope(u)].op]
  <2>1. Scope(u) \in Profile /\ stored[Scope(u)] # Nil
    BY <1>6, TabHolds
  <2>2. /\ stored[Scope(u)].expected \in Int
        /\ stored[Scope(u)].expected = agreed[stored[Scope(u)].op]
    BY <1>1, <2>1, StoredIs DEF Books, Agreed, Agrees
  <2> QED BY <2>1, <2>2
<1>7. ASSUME NEW u \in Tab, UNCHANGED tabs[u] PROVE Believes(u)'
  <2> DEFINE mine == stored[Scope(u)]
  <2>1. Believes(u) /\ UNCHANGED <<tabs[u], stored>> /\ Scope(u)' = Scope(u)
    BY <1>1, <1>7 DEF PublicationInv, Scope
  <2>2. ASSUME tabs[u].pc \in UnderLock, mine.expected < Current, Committed(mine.op)'
        PROVE  Committed(mine.op)
    <3>1. mine.op # q.op \/ q.expected # Current
      BY <1>2, <1>6, <2>2
    <3>2. \E i \in DOMAIN revisions' : revisions'[i].op = mine.op
      BY <2>1, <2>2 DEF Committed
    <3>3. \A o : (\E i \in DOMAIN revisions' : revisions'[i].op = o) <=> Committed(o)'
      BY DEF Committed
    <3> QED BY <1>4, <3>1, <3>2, <3>3
  <2> QED BY <1>1, <1>2, <1>4, <1>6, <2>1, <2>2, TabStays
<1>8. CASE tabs' = tabs
  BY <1>1, <1>5, <1>7, <1>8 DEF PublicationInv, Held
<1> DEFINE t == q.tab
           answer == IF Judgement(q) = "commit" THEN "ok" ELSE Judgement(q)
<1>9. CASE Awaits(t, q) /\ tabs' = [tabs EXCEPT ![t].answer = answer]
  <2>1. /\ t \in Tab /\ DOMAIN tabs' = Tab
        /\ tabs'[t] = [tabs[t] EXCEPT !.answer = answer]
        /\ \A u \in Tab \ {t} : tabs'[u] = tabs[u]
    BY <1>1, <1>2, <1>9
  <2>2. /\ Believes(t) /\ tabs[t].pc = "posted" /\ tabs[t].pc \in UnderLock
        /\ stored[Scope(t)].op = q.op
    BY <1>9, <2>1 DEF Awaits, UnderLock, PublicationInv
  <2> HIDE DEF answer
  <2>3. tabs'[t] = [pc |-> tabs[t].pc, review |-> tabs[t].review, conf |-> tabs[t].conf,
                    seen |-> tabs[t].seen, answer |-> answer]
    BY <2>1, <2>2 DEF Believes, Shaped
  <2>4. /\ tabs'[t].pc = tabs[t].pc /\ tabs'[t].conf = tabs[t].conf
        /\ tabs'[t].answer = answer /\ tabs'[t].review = tabs[t].review
        /\ tabs'[t].seen = tabs[t].seen
    BY <2>3
  <2>5. Shaped(t)'
    BY <2>2, <2>3, <2>4 DEF Believes, Shaped, Scope
  <2>6. Shown(t)'
    BY <1>2, <1>4, <2>2, <2>4 DEF Believes, Shown
  <2>7. Holds(t)'
    BY <1>1, <2>2, <2>4 DEF Believes, Holds, Scope
  <2>8. Refutes(t)'
    <3> SUFFICES ASSUME answer = "stale_current"
                 PROVE  /\ ~Committed(stored[Scope(t)].op)'
                        /\ stored'[Scope(t)'].expected < Current'
      BY <2>4 DEF Refutes
    <3>1. Judgement(q) = "stale_current"
      BY DEF answer
    <3>2. ~Committed(q.op) /\ q.expected # Current
      BY <3>1 DEF Judgement
    <3>3. revisions' = revisions
      BY <1>3, <3>1
    <3>4. Scope(t)' = Scope(t) /\ stored' = stored
      BY <1>1, <2>4 DEF Scope
    <3>5. stored[Scope(t)].expected = q.expected
      BY <1>2, <1>6, <2>1, <2>2
    <3>6. q.expected < Current
      BY <1>2, <3>2
    <3> QED BY <2>2, <3>2, <3>3, <3>4, <3>5, <3>6 DEF Committed, Current
  <2>9. Believes(t)'
    BY <2>5, <2>6, <2>7, <2>8 DEF Believes
  <2>10. \A u \in Tab : Believes(u)'
    BY <1>7, <2>1, <2>9
  <2>11. Held'
    BY <1>1, <2>1 DEF PublicationInv, Held
  <2> QED BY <1>5, <2>10, <2>11 DEF PublicationInv
<1> QED BY <1>8, <1>9 DEF Handle

\* The inductive invariant holds at first.
LEMMA InitPublication == ASSUME Instance, Init PROVE PublicationInv
<1> DEFINE p0 == CHOOSE p \in Profile : TRUE
           r0 == CHOOSE r \in Review : TRUE
<1>1. p0 \in Profile /\ r0 \in Review
  BY DEF Instance
<1> HIDE DEF p0, r0
<1>2. /\ revisions = <<>> /\ account = p0 /\ stored = [p \in Profile |-> Nil]
      /\ lock = [p \in Profile |-> Nil] /\ tabs = [t \in Tab |-> Idle(r0)]
      /\ wire = {} /\ ops = 0 /\ agreed = [o \in Op |-> Nil] /\ acked = {} /\ given = {}
  BY DEF Init, p0, r0
<1>3. Current = 0 /\ DOMAIN revisions = {} /\ revisions \in Seq(Revision)
  BY <1>2 DEF Current
<1>4. Kept
  BY <1>2, <1>3 DEF Kept, Instance
<1>5. Agreed /\ WireBehind /\ OlderBehind
  BY <1>2, <1>3 DEF Agreed, WireBehind, OlderBehind
<1>6. NothingForgotten /\ NoBlindOverwrite /\ PublishedOnce
  BY <1>3 DEF NothingForgotten, NoBlindOverwrite, PublishedOnce
<1>7. ASSUME NEW t \in Tab PROVE Believes(t)
  <2>1. tabs[t] = [pc |-> "idle", review |-> r0, conf |-> Nil, seen |-> Nil, answer |-> Nil]
    BY <1>2 DEF Idle
  <2>2. Shaped(t)
    BY <1>1, <2>1 DEF Shaped
  <2>3. Shown(t) /\ Holds(t) /\ Refutes(t)
    BY <2>1 DEF Shown, Holds, Refutes, UnderLock
  <2> QED BY <2>2, <2>3 DEF Believes
<1>8. Held
  BY <1>1, <1>2 DEF Held
<1> QED BY <1>4, <1>5, <1>6, <1>7, <1>8 DEF PublicationInv, Books

\* The inductive invariant is preserved by every step.
LEMMA PublicationStep == ASSUME Instance, PublicationInv, [Next]_vars PROVE PublicationInv'
<1>1. CASE SwitchAccount
  BY <1>1, SwitchAccountStep
<1>2. ASSUME NEW p \in Profile, Expire(p) PROVE PublicationInv'
  BY <1>2, ExpireStep
<1>3. ASSUME NEW q \in wire, Handle(q) \/ Lose(q) PROVE PublicationInv'
  BY <1>3, HandleStep, LoseStep
<1>4. ASSUME NEW t \in Tab,
             \/ OpenReview(t) \/ Reload(t)
             \/ Inspect(t) \/ InspectLocked(t) \/ InspectReceipt(t)
             \/ Execute(t) \/ ExecuteLocked(t) \/ ExecuteReceipt(t)
             \/ Post(t) \/ PostAnswered(t) \/ PostLost(t) \/ Readback(t)
             \/ Abandon(t) \/ AbandonLocked(t)
      PROVE  PublicationInv'
  BY <1>4, OpenReviewStep, ReloadStep, InspectStep, InspectLockedStep, InspectReceiptStep,
     ExecuteStep, ExecuteLockedStep, ExecuteReceiptStep, PostStep, PostAnsweredStep,
     PostLostStep, ReadbackStep, AbandonStep, AbandonLockedStep
<1>5. CASE UNCHANGED vars
  <2>1. Books' /\ account' \in Profile
    BY <1>5, BooksStill DEF vars, History, PublicationInv, Held
  <2> QED BY <1>5, <2>1, TabsStand DEF vars
<1> QED BY <1>1, <1>2, <1>3, <1>4, <1>5 DEF Next

-----------------------------------------------------------------------------
\* The books and the tabs agree, whatever is lost, repeated or reloaded.
THEOREM PublicationInvariant == ASSUME Instance PROVE Spec => []PublicationInv
<1>1. Init => PublicationInv
  BY InitPublication
<1>2. PublicationInv /\ [Next]_vars => PublicationInv'
  BY PublicationStep
<1> QED BY <1>1, <1>2, PTL DEF Spec

(* A committed revision is acknowledged, given up or still stored by its    *)
(* author, for any number of accounts, tabs, requests and reloads.          *)
THEOREM PublicationIsKept == ASSUME Instance PROVE Spec => []NothingForgotten
<1>1. PublicationInv => NothingForgotten
  BY DEF PublicationInv, Books
<1> QED BY <1>1, PublicationInvariant, PTL

(* A revision replaces the one that was current when its author confirmed. *)
THEOREM PublicationIsAgreed == ASSUME Instance PROVE Spec => []NoBlindOverwrite
<1>1. PublicationInv => NoBlindOverwrite
  BY DEF PublicationInv, Books
<1> QED BY <1>1, PublicationInvariant, PTL

(* An author who publishes one review again knew of the first revision or  *)
(* had given it up: no retry publishes twice.                              *)
THEOREM PublicationIsOnce == ASSUME Instance PROVE Spec => []PublishedOnce
<1>1. PublicationInv => PublishedOnce
  BY DEF PublicationInv, Books
<1> QED BY <1>1, PublicationInvariant, PTL
=============================================================================

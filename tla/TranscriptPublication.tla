----------------------- MODULE TranscriptPublication ------------------------
(***************************************************************************)
(* Publishing an approved local review: the tabs of one browser, the       *)
(* operation each keeps in localStorage until it is resolved, the lock     *)
(* the tabs share, the routes of the Web and the compare-and-swap of the   *)
(* database.  One campaign with one session is modelled.  A revision is    *)
(* its position in the history; 0 is no revision.  A request that left the *)
(* browser stays on the wire until the server handles it or it is lost,    *)
(* whatever the tab that sent it does meanwhile.                           *)
(***************************************************************************)
EXTENDS Integers, Sequences, FiniteSets

CONSTANTS
  Profile,    \* accounts that use this browser
  Tab,        \* its tabs
  Review,     \* approved reviews, each with its payload
  Nil,        \* no value
  MaxOp,      \* bound on operations created
  MaxWire,    \* bound on requests in flight
  MaxRevision, \* bound on revisions
  MaxChange   \* bound on what happens around the tabs

VARIABLES
  revisions,  \* the session's history
  account,    \* who the session cookie names
  changes,    \* what happened around the tabs
  stored,     \* localStorage: the pending operation of each profile
  lock,       \* navigator.locks: who holds the scope of each profile
  tabs,       \* the tabs
  wire,       \* publish requests the server has not handled
  ops,        \* operations created
  agreed,     \* the revision each operation was confirmed to replace
  acked,      \* operations whose receipt was shown
  given       \* operations abandoned

vars == <<revisions, account, changes, stored, lock, tabs, wire, ops, agreed, acked, given>>

Op == 1 .. MaxOp
Current == Len(revisions)

Pending == [op : Op, review : Review, expected : 0 .. MaxRevision, old : BOOLEAN]

Committed(op) == \E i \in DOMAIN revisions : revisions[i].op = op

Idle(review) ==
  [pc |-> "idle", review |-> review, conf |-> Nil, seen |-> Nil, answer |-> Nil]

Init ==
  /\ revisions = <<>>
  /\ account = CHOOSE p \in Profile : TRUE
  /\ changes = 0
  /\ stored = [p \in Profile |-> Nil]
  /\ lock = [p \in Profile |-> Nil]
  /\ tabs = [t \in Tab |-> Idle(CHOOSE r \in Review : TRUE)]
  /\ wire = {}
  /\ ops = 0
  /\ agreed = [o \in Op |-> Nil]
  /\ acked = {}
  /\ given = {}

History == <<ops, agreed, acked, given>>

Scope(t) == tabs[t].seen.profile
Goes(t, pc) == tabs' = [tabs EXCEPT ![t].pc = pc]

(* Under the lock the stored operation says everything that is still needed. *)
Locks(t, pc) ==
  /\ lock' = [lock EXCEPT ![Scope(t)] = t]
  /\ tabs' = [tabs EXCEPT ![t].pc = pc, ![t].conf = Nil, ![t].seen.revision = Nil]

Release(t) == lock' = [lock EXCEPT ![Scope(t)] = Nil]

(* An attempt ends: the confirmation is dropped with it. *)
Ends(t, conf) == tabs' = [tabs EXCEPT ![t] = [Idle(@.review) EXCEPT !.conf = conf]]

-----------------------------------------------------------------------------
(* Around the tabs. *)
Changes == changes < MaxChange /\ changes' = changes + 1

SwitchAccount ==
  /\ Changes
  /\ \E p \in Profile \ {account} : account' = p
  /\ UNCHANGED <<revisions, stored, lock, tabs, wire, History>>

(* The review is edited and approved again, or another one is opened. *)
OpenReview(t) ==
  /\ Changes
  /\ tabs[t].pc = "idle"
  /\ \E r \in Review \ {tabs[t].review} : tabs' = [tabs EXCEPT ![t] = Idle(r)]
  /\ UNCHANGED <<revisions, account, stored, lock, wire, History>>

(* A reload: the lock is freed, what was sent is still on its way. *)
Reload(t) ==
  /\ Changes
  /\ tabs[t].pc # "idle"
  /\ tabs' = [tabs EXCEPT ![t] = Idle(@.review)]
  /\ lock' = [p \in Profile |-> IF lock[p] = t THEN Nil ELSE lock[p]]
  /\ UNCHANGED <<revisions, account, stored, wire, History>>

(* Thirty days pass. *)
Expire(p) ==
  /\ Changes
  /\ stored[p] # Nil /\ ~stored[p].old
  /\ stored' = [stored EXCEPT ![p].old = TRUE]
  /\ UNCHANGED <<revisions, account, lock, tabs, wire, History>>

-----------------------------------------------------------------------------
(* readCurrentPublication, before the lock is asked for. *)
readCurrentPublication(t, then) ==
  tabs' = [tabs EXCEPT ![t].pc = then,
                       ![t].seen = [profile |-> account, revision |-> Current]]

Inspect(t) ==
  /\ tabs[t].pc = "idle"
  /\ readCurrentPublication(t, "inspect")
  /\ UNCHANGED <<revisions, account, changes, stored, lock, wire, History>>

same(pending, t) == pending.review = tabs[t].review

Remove(p, op) ==
  stored' = [stored EXCEPT ![p] = IF @ # Nil /\ @.op = op THEN Nil ELSE @]

Confirmation(t, revision, pending, blocked) ==
  [profile |-> Scope(t), revision |-> revision, blocked |-> blocked,
   pending |-> IF pending = Nil THEN Nil ELSE pending.op]

InspectLocked(t) ==
  LET pending == stored[Scope(t)]
  IN /\ tabs[t].pc = "inspect" /\ lock[Scope(t)] = Nil
     /\ IF pending = Nil \/ ~same(pending, t)
          THEN /\ Ends(t, Confirmation(t, tabs[t].seen.revision, pending, pending # Nil))
               /\ UNCHANGED lock
          ELSE Locks(t, "inspect receipt")
     /\ UNCHANGED <<revisions, account, changes, stored, wire, History>>

(* The receipt route: what the database knows of the operation, refused to *)
(* another profile than the one that asked.                                *)
Lookup(t, op) ==
  CASE account # Scope(t) -> "forbidden"
    [] account = Scope(t) /\ Committed(op) -> "ok"
    [] OTHER -> "not_found"

Answers(t, op) == {Lookup(t, op), "unavailable"}

Acknowledge(t, op) ==
  /\ Remove(Scope(t), op)
  /\ acked' = acked \cup {op}
  /\ UNCHANGED <<ops, agreed, given>>

InspectReceipt(t) ==
  LET pending == stored[Scope(t)]
  IN /\ tabs[t].pc = "inspect receipt"
     /\ \E answer \in Answers(t, pending.op) :
          \/ /\ answer = "ok"
             /\ Acknowledge(t, pending.op)
             /\ Ends(t, Nil)
          \/ /\ answer = "forbidden"
             /\ Ends(t, Nil)
             /\ UNCHANGED <<stored, History>>
          \/ /\ answer \in {"not_found", "unavailable"}
             /\ Ends(t, Confirmation(t, pending.expected, pending, pending.old))
             /\ UNCHANGED <<stored, History>>
     /\ Release(t)
     /\ UNCHANGED <<revisions, account, changes, wire>>

-----------------------------------------------------------------------------
(* confirmPublication: the user confirms what the last inspection showed. *)
Execute(t) ==
  LET conf == tabs[t].conf
  IN /\ tabs[t].pc = "idle" /\ conf # Nil /\ ~conf.blocked
     /\ IF account = conf.profile
          THEN readCurrentPublication(t, "execute")
          ELSE Ends(t, Nil)
     /\ UNCHANGED <<revisions, account, changes, stored, lock, wire, History>>

Refused(t) ==
  LET pending == stored[Scope(t)]
      conf == tabs[t].conf
  IN IF pending = Nil
       THEN conf.pending # Nil \/ tabs[t].seen.revision # conf.revision
       ELSE \/ ~same(pending, t) \/ pending.old
            \/ conf.pending # Nil /\ pending.op # conf.pending

Expected(t) == tabs[t].conf.revision

(* The operation is durable before the network is used. *)
ExecuteLocked(t) ==
  LET p == Scope(t)
  IN /\ tabs[t].pc = "execute" /\ lock[p] = Nil
     /\ \/ /\ Refused(t) = TRUE
           /\ Ends(t, Nil)
           /\ UNCHANGED <<lock, stored, History>>
        \/ /\ Refused(t) = FALSE /\ stored[p] # Nil
           /\ Locks(t, "execute receipt")
           /\ UNCHANGED <<stored, History>>
        \/ /\ Refused(t) = FALSE /\ stored[p] = Nil /\ ops < MaxOp
           /\ Locks(t, "post")
           /\ ops' = ops + 1
           /\ stored' = [stored EXCEPT ![p] =
                [op |-> ops + 1, review |-> tabs[t].review,
                 expected |-> Expected(t), old |-> FALSE]]
           /\ agreed' = [agreed EXCEPT ![ops + 1] = tabs[t].conf.revision]
           /\ UNCHANGED <<acked, given>>
     /\ UNCHANGED <<revisions, account, changes, wire>>

(* Only a receipt that is certainly absent lets the operation be repeated. *)
ExecuteReceipt(t) ==
  LET op == stored[Scope(t)].op
  IN /\ tabs[t].pc = "execute receipt"
     /\ \E answer \in Answers(t, op) :
          \/ /\ answer = "ok"
             /\ Acknowledge(t, op) /\ Ends(t, Nil) /\ Release(t)
          \/ /\ answer = "not_found"
             /\ Goes(t, "post")
             /\ UNCHANGED <<stored, lock, History>>
          \/ /\ answer \in {"forbidden", "unavailable"}
             /\ Ends(t, Nil) /\ Release(t)
             /\ UNCHANGED <<stored, History>>
     /\ UNCHANGED <<revisions, account, changes, wire>>

(* publishApprovedLocalReview: the POST. *)
Post(t) ==
  LET pending == stored[Scope(t)]
  IN /\ tabs[t].pc = "post" /\ Cardinality(wire) < MaxWire
     /\ wire' = wire \cup {[tab |-> t, op |-> pending.op, review |-> tabs[t].review,
                            expected |-> pending.expected, actor |-> account,
                            profile |-> Scope(t)]}
     /\ tabs' = [tabs EXCEPT ![t].pc = "posted", ![t].answer = Nil]
     /\ UNCHANGED <<revisions, account, changes, stored, lock, History>>

(* Mutant: the revision that is replaced is compared only if there is one. *)
JudgementLax(q) ==
  CASE q.actor # q.profile -> "forbidden"
    [] q.actor = q.profile /\ Committed(q.op) -> "ok"
    [] q.actor = q.profile /\ ~Committed(q.op) /\ q.expected \notin {0, Current} ->
         "stale_current"
    [] OTHER -> "commit"

(* publish_transcript_revision_atomic: replay first, then compare-and-swap. *)
Judgement(q) ==
  CASE q.actor # q.profile -> "forbidden"
    [] q.actor = q.profile /\ Committed(q.op) -> "ok"
    [] q.actor = q.profile /\ ~Committed(q.op) /\ q.expected # Current -> "stale_current"
    [] OTHER -> "commit"

(* The tab that still waits for this request may get the answer. *)
Awaits(t, q) == tabs[t].pc = "posted" /\ q.tab = t /\ tabs[t].answer = Nil
                /\ stored[Scope(t)] # Nil /\ stored[Scope(t)].op = q.op

Handle(q) ==
  LET judgement == Judgement(q)
      answer == IF judgement = "commit" THEN "ok" ELSE judgement
  IN /\ q \in wire
     /\ wire' = wire \ {q}
     /\ judgement = "commit" => Len(revisions) < MaxRevision
     /\ revisions' = IF judgement = "commit"
          THEN Append(revisions, [op |-> q.op, review |-> q.review, base |-> q.expected,
                                  by |-> q.actor])
          ELSE revisions
     /\ \/ tabs' = tabs
        \/ /\ Awaits(q.tab, q)
           /\ tabs' = [tabs EXCEPT ![q.tab].answer = answer]
     /\ UNCHANGED <<account, changes, stored, lock, History>>

Lose(q) ==
  /\ q \in wire
  /\ wire' = wire \ {q}
  /\ UNCHANGED <<revisions, account, changes, stored, lock, tabs, History>>

(* What a refusal proves: only these say that nothing was committed. *)
Forgets(answer) == answer = "stale_current"

PostAnswered(t) ==
  LET op == stored[Scope(t)].op
      answer == tabs[t].answer
  IN /\ tabs[t].pc = "posted" /\ answer # Nil
     /\ \/ /\ answer = "ok" /\ Acknowledge(t, op)
        \/ /\ answer # "ok" /\ Forgets(answer)
           /\ Remove(Scope(t), op)
           /\ UNCHANGED History
        \/ /\ answer # "ok" /\ ~Forgets(answer)
           /\ UNCHANGED <<stored, History>>
     /\ Ends(t, Nil) /\ Release(t)
     /\ UNCHANGED <<revisions, account, changes, wire>>

(* A failure after the POST is ambiguous: the operation is read back. *)
PostLost(t) ==
  /\ tabs[t].pc = "posted" /\ tabs[t].answer = Nil
  /\ Goes(t, "readback")
  /\ UNCHANGED <<revisions, account, changes, stored, lock, wire, History>>

Readback(t) ==
  LET op == stored[Scope(t)].op
  IN /\ tabs[t].pc = "readback"
     /\ \E answer \in Answers(t, op) :
          \/ answer = "ok" /\ Acknowledge(t, op)
          \/ answer # "ok" /\ UNCHANGED <<stored, History>>
     /\ Ends(t, Nil) /\ Release(t)
     /\ UNCHANGED <<revisions, account, changes, wire>>

-----------------------------------------------------------------------------
(* abandonPublication: the user gives the pending operation up. *)
Abandon(t) ==
  LET conf == tabs[t].conf
  IN /\ tabs[t].pc = "idle" /\ conf # Nil /\ conf.pending # Nil
     /\ IF account = conf.profile
          THEN tabs' = [tabs EXCEPT ![t].pc = "abandon",
                                    ![t].seen = [profile |-> account, revision |-> Nil]]
          ELSE Ends(t, Nil)
     /\ UNCHANGED <<revisions, account, changes, stored, lock, wire, History>>

(* Mutant: the lock of the scope is not asked for. *)
AbandonUnlocked(t) ==
  LET p == Scope(t)
      op == tabs[t].conf.pending
  IN /\ tabs[t].pc = "abandon"
     /\ Remove(p, op)
     /\ given' = given \cup {op}
     /\ Ends(t, Nil)
     /\ UNCHANGED <<revisions, account, changes, lock, wire, ops, agreed, acked>>

AbandonLocked(t) ==
  LET p == Scope(t)
      op == tabs[t].conf.pending
  IN /\ tabs[t].pc = "abandon" /\ lock[p] = Nil
     /\ Remove(p, op)
     /\ given' = given \cup {op}
     /\ Ends(t, Nil)
     /\ UNCHANGED <<revisions, account, changes, lock, wire, ops, agreed, acked>>

-----------------------------------------------------------------------------
Next ==
  \/ SwitchAccount
  \/ \E p \in Profile : Expire(p)
  \/ \E q \in wire : Handle(q) \/ Lose(q)
  \/ \E t \in Tab :
       \/ OpenReview(t) \/ Reload(t)
       \/ Inspect(t) \/ InspectLocked(t) \/ InspectReceipt(t)
       \/ Execute(t) \/ ExecuteLocked(t) \/ ExecuteReceipt(t)
       \/ Post(t) \/ PostAnswered(t) \/ PostLost(t) \/ Readback(t)
       \/ Abandon(t) \/ AbandonLocked(t)

Spec == Init /\ [][Next]_vars

-----------------------------------------------------------------------------
TypeOK ==
  /\ stored \in [Profile -> Pending \cup {Nil}]
  /\ lock \in [Profile -> Tab \cup {Nil}]
  /\ account \in Profile
  /\ ops \in 0 .. MaxOp /\ acked \subseteq Op /\ given \subseteq Op
  /\ \A t \in Tab : tabs[t].pc \in {"inspect receipt", "execute receipt", "post", "posted",
       "readback"} => lock[Scope(t)] = t /\ stored[Scope(t)] # Nil

(* A revision that was committed is known to its author, was given up by   *)
(* him, or its operation is still stored and will be found: no crash, lost *)
(* answer or change of account makes a publication disappear.              *)
NothingForgotten ==
  \A i \in DOMAIN revisions :
    LET r == revisions[i]
    IN \/ r.op \in acked \cup given
       \/ stored[r.by] # Nil /\ stored[r.by].op = r.op

(* A revision replaces the one its author was shown when he confirmed.     *)
NoBlindOverwrite ==
  \A i \in DOMAIN revisions :
    revisions[i].base = i - 1 /\ agreed[revisions[i].op] = i - 1

(* A publication repeated after any failure is the same revision: one      *)
(* review is published twice only by an author who knew of the first one   *)
(* or had given it up.                                                     *)
PublishedOnce ==
  \A i, j \in DOMAIN revisions :
    (i < j /\ revisions[i].review = revisions[j].review /\ revisions[i].by = revisions[j].by)
      => revisions[i].op \in acked \cup given
=============================================================================

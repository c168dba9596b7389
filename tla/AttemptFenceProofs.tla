------------------------- MODULE AttemptFenceProofs -------------------------
(***************************************************************************)
(* Proofs about AttemptFence, for any number of claimants.  What a claim   *)
(* removes is proved under every mishap.  What it answers is proved but    *)
(* for one of them: a creator whose fsync fails removes a marker that      *)
(* others may have read (PersistFails).                                    *)
(***************************************************************************)
EXTENDS AttemptFence, TLAPS

Creating == {"writing", "removing"}

\* The marker is where the claimants that hold it believe it to be.
MarkerHeld ==
  /\ \A c \in Claimant : pc[c] \in Creating => marker = "empty"
  /\ \A c, d \in Claimant : pc[c] \in Creating /\ pc[d] \in Creating => c = d
  /\ \A c \in Claimant : pc[c] \in {"syncing", "naming"} => marker = Wish[c]
  /\ \A c \in Claimant : pc[c] \in {"confirming", "renaming"} => marker \in Outcome /\ seen[c] = marker
  /\ \A c \in Claimant : pc[c] \in {"naming", "renaming"} => synced
  /\ \A c \in Claimant : told[c] # None => pc[c] = "answered"

FenceInv == TypeOK /\ MarkerHeld /\ AnswerIsDurable

\* A fence that nobody has claimed satisfies the invariant.
LEMMA InitFence == Init => FenceInv
  BY DEF Init, FenceInv, TypeOK, MarkerHeld, AnswerIsDurable, Creating

\* The inductive invariant is preserved by every step.
LEMMA FenceStep ==
  ASSUME "fsync" \notin Mishap, FenceInv, [Next]_vars
  PROVE  FenceInv'
<1> USE WishAssumption, NoneAssumption DEF FenceInv, TypeOK, Outcome
<1>1. ASSUME NEW c \in Claimant, Create(c) PROVE FenceInv'
  BY <1>1 DEF Create, MarkerHeld, AnswerIsDurable, Durable, Creating, Go
<1>2. ASSUME NEW c \in Claimant, Exists(c) PROVE FenceInv'
  BY <1>2 DEF Exists, MarkerHeld, AnswerIsDurable, Durable, Creating, Go
<1>3. ASSUME NEW c \in Claimant, Write(c) PROVE FenceInv'
  BY <1>3 DEF Write, MarkerHeld, AnswerIsDurable, Durable, Creating, Go
<1>4. ASSUME NEW c \in Claimant, PersistFails(c) PROVE FenceInv'
  <2>1. pc[c] = "writing"
    BY <1>4 DEF PersistFails, Failing
  <2> QED BY <1>4, <2>1 DEF PersistFails, MarkerHeld, AnswerIsDurable, Durable, Creating, Go
<1>5. ASSUME NEW c \in Claimant, Sync(c) PROVE FenceInv'
  BY <1>5 DEF Sync, MarkerHeld, AnswerIsDurable, Durable, Creating, Go
<1>6. ASSUME NEW c \in Claimant, Unlink(c) PROVE FenceInv'
  BY <1>6 DEF Unlink, MarkerHeld, AnswerIsDurable, Durable, Creating, Go
<1>7. ASSUME NEW c \in Claimant, Name(c) PROVE FenceInv'
  BY <1>7 DEF Name, Returns, MarkerHeld, AnswerIsDurable, Durable, Creating, Go
<1>8. ASSUME NEW c \in Claimant, Read(c) PROVE FenceInv'
  BY <1>8 DEF Read, MarkerHeld, AnswerIsDurable, Durable, Creating, Go
<1>9. ASSUME NEW c \in Claimant, ReadRefuses(c) PROVE FenceInv'
  BY <1>9 DEF ReadRefuses, MarkerHeld, AnswerIsDurable, Durable, Creating, Go
<1>10. ASSUME NEW c \in Claimant, Confirm(c) PROVE FenceInv'
  BY <1>10 DEF Confirm, MarkerHeld, AnswerIsDurable, Durable, Creating, Go
<1>11. ASSUME NEW c \in Claimant, NameSeen(c) PROVE FenceInv'
  BY <1>11 DEF NameSeen, Returns, MarkerHeld, AnswerIsDurable, Durable, Creating, Go
<1>12. ASSUME NEW c \in Claimant, ConfirmFails(c) PROVE FenceInv'
  BY <1>12 DEF ConfirmFails, MarkerHeld, AnswerIsDurable, Durable, Creating, Go
<1>13. ASSUME NEW c \in Claimant, Kill(c) PROVE FenceInv'
  BY <1>13 DEF Kill, Busy, MarkerHeld, AnswerIsDurable, Durable, Creating, Go
<1>14. CASE PowerLoss
  BY <1>14 DEF PowerLoss, Busy, MarkerHeld, AnswerIsDurable, Durable, Creating
<1>15. CASE UNCHANGED vars
  BY <1>15 DEF vars, MarkerHeld, AnswerIsDurable, Durable, Creating
<1> QED
  BY <1>1, <1>2, <1>3, <1>4, <1>5, <1>6, <1>7, <1>8, <1>9, <1>10, <1>11,
     <1>12, <1>13, <1>14, <1>15 DEF Next

\* Every outcome ever returned by claim_attempt_outcome is the durable one: the
\* claimants agree, whichever of them die and whenever the power fails.
THEOREM FenceAnswers ==
  ASSUME "fsync" \notin Mishap
  PROVE  Spec => []AnswerIsDurable
<1>1. Init => FenceInv
  BY InitFence
<1>2. FenceInv /\ [Next]_vars => FenceInv'
  BY FenceStep
<1>3. FenceInv => AnswerIsDurable
  BY DEF FenceInv
<1> QED BY <1>1, <1>2, <1>3, PTL DEF Spec

\* The initial marker is the undecided attempt.
LEMMA DecisionInit == Init => Decision!Init
  BY DEF Init, Decision!Init, Durable

\* Each step of a claimant is a decision, an answer, or nothing a client sees.
LEMMA DecisionStep ==
  ASSUME "fsync" \notin Mishap, FenceInv, [Next]_vars
  PROVE  [Decision!Next]_(Decision!decisionVars)
<1> USE WishAssumption, NoneAssumption DEF FenceInv, TypeOK, Outcome, Decision!Next,
        Decision!Decide, Decision!Tell, Decision!decisionVars
<1>1. ASSUME NEW c \in Claimant, Write(c) \/ Create(c)
      PROVE [Decision!Next]_(Decision!decisionVars)
  BY <1>1 DEF Write, Create, MarkerHeld, Durable, Creating, Go
<1>2. ASSUME NEW c \in Claimant, Exists(c) \/ PersistFails(c) \/ Read(c)
               \/ ReadRefuses(c) \/ ConfirmFails(c) \/ Kill(c)
      PROVE [Decision!Next]_(Decision!decisionVars)
  BY <1>2 DEF Exists, PersistFails, Read, ReadRefuses, ConfirmFails, Kill, Durable
<1>3. ASSUME NEW c \in Claimant, Sync(c) \/ Confirm(c)
      PROVE [Decision!Next]_(Decision!decisionVars)
  BY <1>3 DEF Sync, Confirm, Durable
<1>4. ASSUME NEW c \in Claimant, Unlink(c) PROVE [Decision!Next]_(Decision!decisionVars)
  BY <1>4 DEF Unlink, MarkerHeld, Creating, Durable
<1>5. ASSUME NEW c \in Claimant, Name(c) PROVE [Decision!Next]_(Decision!decisionVars)
  <2>1. marker = Wish[c] /\ synced /\ told[c] = None
    BY <1>5 DEF Name, MarkerHeld
  <2>2. Durable \in {None, Wish[c]} /\ Durable' = Wish[c]
    BY <1>5, <2>1 DEF Name, Durable
  <2>3. told' = [told EXCEPT ![c] = Wish[c]]
    BY <1>5 DEF Name, Returns
  <2> QED BY <2>1, <2>2, <2>3
<1>6. ASSUME NEW c \in Claimant, NameSeen(c) PROVE [Decision!Next]_(Decision!decisionVars)
  <2>1. marker = seen[c] /\ marker \in Outcome /\ synced /\ told[c] = None
    BY <1>6 DEF NameSeen, MarkerHeld
  <2>2. Durable \in {None, seen[c]} /\ Durable' = seen[c]
    BY <1>6, <2>1 DEF NameSeen, Durable
  <2>3. told' = [told EXCEPT ![c] = seen[c]]
    BY <1>6 DEF NameSeen, Returns
  <2> QED BY <2>1, <2>2, <2>3
<1>7. CASE PowerLoss
  BY <1>7 DEF PowerLoss, Durable
<1>8. CASE UNCHANGED vars
  BY <1>8 DEF vars, Durable
<1> QED
  BY <1>1, <1>2, <1>3, <1>4, <1>5, <1>6, <1>7, <1>8 DEF Next

\* The marker file implements a decision that is taken once and told to all.
THEOREM FenceDecides ==
  ASSUME "fsync" \notin Mishap
  PROVE  Spec => ImplementsDecision
<1>1. Init => FenceInv
  BY InitFence
<1>2. FenceInv /\ [Next]_vars => FenceInv'
  BY FenceStep
<1>3. Init => Decision!Init
  BY DecisionInit
<1>4. FenceInv /\ [Next]_vars => [Decision!Next]_(Decision!decisionVars)
  BY DecisionStep
<1> QED BY <1>1, <1>2, <1>3, <1>4, PTL DEF Spec, ImplementsDecision, Decision!Spec
-----------------------------------------------------------------------------
\* The claimant that has created the marker owns it until it returns.
Owning == Creating \cup {"syncing", "naming"}
OwnerHeld ==
  /\ \A c, d \in Claimant : pc[c] \in Owning /\ pc[d] \in Owning => c = d
  /\ \A c \in Claimant : pc[c] \in Owning => marker \in {"empty", Wish[c]}
  /\ \A c \in Claimant : pc[c] \in {"syncing", "naming"} => marker = Wish[c]
  /\ \A c \in Claimant : pc[c] = "confirming" => seen[c] \in Outcome
OwnerInv == TypeOK /\ OwnerHeld

\* Every step keeps the marker with its creator.
LEMMA OwnerStep == OwnerInv /\ [Next]_vars => OwnerInv'
<1> SUFFICES ASSUME OwnerInv, [Next]_vars PROVE OwnerInv'
  OBVIOUS
<1> USE WishAssumption, NoneAssumption DEF OwnerInv, TypeOK, OwnerHeld, Owning, Creating, Outcome, Go
<1>1. ASSUME NEW c \in Claimant, Create(c) PROVE OwnerInv'
  BY <1>1 DEF Create
<1>2. ASSUME NEW c \in Claimant, Exists(c) PROVE OwnerInv'
  BY <1>2 DEF Exists
<1>3. ASSUME NEW c \in Claimant, Write(c) PROVE OwnerInv'
  BY <1>3 DEF Write
<1>4. ASSUME NEW c \in Claimant, PersistFails(c) PROVE OwnerInv'
  BY <1>4 DEF Failing, PersistFails
<1>5. ASSUME NEW c \in Claimant, Sync(c) PROVE OwnerInv'
  BY <1>5 DEF Sync
<1>6. ASSUME NEW c \in Claimant, Unlink(c) PROVE OwnerInv'
  BY <1>6 DEF Unlink
<1>7. ASSUME NEW c \in Claimant, Name(c) PROVE OwnerInv'
  BY <1>7 DEF Returns, Name
<1>8. ASSUME NEW c \in Claimant, Read(c) PROVE OwnerInv'
  BY <1>8 DEF Read
<1>9. ASSUME NEW c \in Claimant, ReadRefuses(c) PROVE OwnerInv'
  BY <1>9 DEF ReadRefuses
<1>10. ASSUME NEW c \in Claimant, Confirm(c) PROVE OwnerInv'
  BY <1>10 DEF Confirm
<1>11. ASSUME NEW c \in Claimant, NameSeen(c) PROVE OwnerInv'
  BY <1>11 DEF Returns, NameSeen
<1>12. ASSUME NEW c \in Claimant, ConfirmFails(c) PROVE OwnerInv'
  BY <1>12 DEF ConfirmFails
<1>13. ASSUME NEW c \in Claimant, Kill(c) PROVE OwnerInv'
  BY <1>13 DEF Busy, Kill
<1>14. CASE PowerLoss
  BY <1>14 DEF PowerLoss, Busy
<1>15. CASE UNCHANGED vars
  BY <1>15 DEF vars
<1> QED
  BY <1>1, <1>2, <1>3, <1>4, <1>5, <1>6, <1>7, <1>8, <1>9, <1>10, <1>11,
     <1>12, <1>13, <1>14, <1>15 DEF Next

\* The invariant of the marker's owner, under every mishap.
LEMMA FenceOwner == Spec => []OwnerInv
<1>1. Init => OwnerInv
  BY DEF Init, OwnerInv, TypeOK, OwnerHeld, Owning, Creating
<1> QED BY <1>1, OwnerStep, PTL DEF Spec

\* The claims and the marker keep their types, whatever fails.
THEOREM FenceTypes == Spec => []TypeOK
<1>1. OwnerInv => TypeOK
  BY DEF OwnerInv
<1> QED BY <1>1, FenceOwner, PTL

\* Whatever fails, a claim unlinks no marker but the one it has created: two
\* claims never own one marker, and none is rewritten for another outcome.
THEOREM FenceRemovesOwnMarker == Spec => []RemovesOwnMarker
<1>1. OwnerInv => RemovesOwnMarker
  BY DEF OwnerInv, OwnerHeld, Owning, Creating, RemovesOwnMarker
<1> QED BY <1>1, FenceOwner, PTL
=============================================================================

---------------------------- MODULE AttemptFence ----------------------------
(***************************************************************************)
(* claim_attempt_outcome of attempt_fence.py, for one attempt: the cancel  *)
(* handlers of the Agent and the worker process compete for one marker     *)
(* file.  Each system call is an action, because the claimants are         *)
(* different processes that share nothing but the file system, and each    *)
(* may fail or be the last thing its process does.                         *)
(*                                                                         *)
(* A power loss keeps what was synchronised (sync_namespace, POSIX) and    *)
(* may keep or lose anything else.  Left out: the confinement of the path  *)
(* and markers of a foreign format, which only ever refuse a claim.        *)
(***************************************************************************)
CONSTANTS
  Claimant,  \* the calls of claim_attempt_outcome for the attempt
  Wish,      \* the outcome each of them asks for
  None,
  Mishap     \* what may go wrong: a subset of MishapKind

Outcome == {"cancel", "commit"}
MishapKind == {"write",    \* os.write fails or is short
               "fsync",    \* os.fsync of the creator fails
               "confirm",  \* a later fsync, or sync_namespace, fails
               "kill",     \* the process of a claimant ends
               "power"}    \* the machine loses power

ASSUME WishAssumption == Wish \in [Claimant -> Outcome]
ASSUME NoneAssumption == None \notin Outcome
ASSUME MishapAssumption == Mishap \subseteq MishapKind

VARIABLES
  pc,      \* where each claimant is in claim_attempt_outcome
  seen,    \* the outcome a reader has read
  told,    \* what claim_attempt_outcome has returned
  marker,  \* the marker file: absent, empty or an outcome
  synced,  \* its content has been synchronised
  named    \* its directory entry has been synchronised

vars == <<pc, seen, told, marker, synced, named>>

Go(c, p) == pc' = [pc EXCEPT ![c] = p]
Returns(c, d) == Go(c, "answered") /\ told' = [told EXCEPT ![c] = d]

Init ==
  /\ pc = [c \in Claimant |-> "idle"]
  /\ seen = [c \in Claimant |-> None]
  /\ told = [c \in Claimant |-> None]
  /\ marker = "absent"
  /\ synced = FALSE
  /\ named = FALSE

\* os.open with O_CREAT and O_EXCL.
Create(c) ==
  /\ pc[c] = "idle"
  /\ marker = "absent"
  /\ marker' = "empty"
  /\ Go(c, "writing")
  /\ UNCHANGED <<seen, told, synced, named>>

Exists(c) ==
  /\ pc[c] = "idle"
  /\ marker # "absent"
  /\ Go(c, "reading")
  /\ UNCHANGED <<seen, told, marker, synced, named>>

Write(c) ==
  /\ pc[c] = "writing"
  /\ marker' = Wish[c]
  /\ Go(c, "syncing")
  /\ UNCHANGED <<seen, told, synced, named>>

\* The except clause that covers both calls: the write fails, or its fsync.
Failing == {<<"write", "writing">>, <<"fsync", "syncing">>}

PersistFails(c) ==
  /\ \E m \in Mishap : <<m, pc[c]>> \in Failing
  /\ Go(c, "removing")
  /\ UNCHANGED <<seen, told, marker, synced, named>>

Sync(c) ==
  /\ pc[c] = "syncing"
  /\ synced' = TRUE
  /\ Go(c, "naming")
  /\ UNCHANGED <<seen, told, marker, named>>

\* path.unlink of a marker whose write or fsync failed.
Unlink(c) ==
  /\ pc[c] = "removing"
  /\ marker' = "absent"
  /\ synced' = FALSE
  /\ named' = FALSE
  /\ Go(c, "refused")
  /\ UNCHANGED <<seen, told>>

\* Mutant: the outcome is returned before its name is durable.
NameLater(c) ==
  /\ pc[c] = "naming"
  /\ Returns(c, Wish[c])
  /\ UNCHANGED <<seen, marker, synced, named>>

\* sync_namespace, then the return: the creator's own outcome has won.
Name(c) ==
  /\ pc[c] = "naming"
  /\ named' = TRUE
  /\ Returns(c, Wish[c])
  /\ UNCHANGED <<seen, marker, synced>>

\* Mutant: an empty marker is not read again.
ReadAny(c) ==
  /\ pc[c] = "reading"
  /\ marker # "absent"
  /\ seen' = [seen EXCEPT ![c] = marker]
  /\ Go(c, "confirming")
  /\ UNCHANGED <<told, marker, synced, named>>

\* _read_fence; an empty marker is read again until the deadline.
Read(c) ==
  /\ pc[c] = "reading"
  /\ marker \in Outcome
  /\ seen' = [seen EXCEPT ![c] = marker]
  /\ Go(c, "confirming")
  /\ UNCHANGED <<told, marker, synced, named>>

\* Mutant: a marker that cannot be read is removed.
ReadRemoves(c) ==
  /\ pc[c] = "reading"
  /\ marker \notin Outcome
  /\ Go(c, "removing")
  /\ UNCHANGED <<seen, told, marker, synced, named>>

ReadRefuses(c) ==
  /\ pc[c] = "reading"
  /\ marker \notin Outcome
  /\ Go(c, "refused")
  /\ UNCHANGED <<seen, told, marker, synced, named>>

\* A replay synchronises what it has read before it returns it.
Confirm(c) ==
  /\ pc[c] = "confirming"
  /\ marker # "absent"
  /\ synced' = TRUE
  /\ Go(c, "renaming")
  /\ UNCHANGED <<seen, told, marker, named>>

NameSeen(c) ==
  /\ pc[c] = "renaming"
  /\ named' = (marker # "absent")
  /\ Returns(c, seen[c])
  /\ UNCHANGED <<seen, marker, synced>>

\* Mutant: an unconfirmed marker is removed.
ConfirmFailsUndone(c) ==
  /\ pc[c] \in {"naming", "confirming", "renaming"}
  /\ Go(c, "removing")
  /\ UNCHANGED <<seen, told, marker, synced, named>>

\* ATTEMPT_FENCE_WRITE_UNCONFIRMED: the marker stays.
ConfirmFails(c) ==
  /\ \/ "confirm" \in Mishap /\ pc[c] \in {"naming", "confirming", "renaming"}
     \/ pc[c] = "confirming" /\ marker = "absent"
  /\ Go(c, "refused")
  /\ UNCHANGED <<seen, told, marker, synced, named>>

Busy(c) == pc[c] \notin {"answered", "refused"}

Kill(c) ==
  /\ "kill" \in Mishap
  /\ Busy(c)
  /\ Go(c, "refused")
  /\ UNCHANGED <<seen, told, marker, synced, named>>

\* What was not synchronised survives, is cut short, or is gone.  The claims
\* not yet made are made after the restart.
PowerLoss ==
  /\ "power" \in Mishap
  /\ pc' = [c \in Claimant |-> IF Busy(c) /\ pc[c] # "idle" THEN "refused" ELSE pc[c]]
  /\ marker' \in {marker} \cup (IF (synced /\ named) \/ marker = "absent" THEN {}
                                ELSE IF named THEN {"empty"}
                                ELSE {"empty", "absent"})
  /\ synced' = (marker' \in Outcome)
  /\ named' = (marker' # "absent")
  /\ UNCHANGED <<seen, told>>

Next ==
  \/ \E c \in Claimant :
       \/ Create(c) \/ Exists(c) \/ Write(c) \/ PersistFails(c) \/ Sync(c)
       \/ Unlink(c) \/ Name(c) \/ Read(c) \/ ReadRefuses(c) \/ Confirm(c) \/ NameSeen(c)
       \/ ConfirmFails(c) \/ Kill(c)
  \/ PowerLoss

Spec == Init /\ [][Next]_vars
-----------------------------------------------------------------------------
\* The claims and the marker have their types; no claimant ever takes a marker
\* that has just been created for an outcome.
TypeOK ==
  /\ pc \in [Claimant -> {"idle", "writing", "removing", "syncing", "naming", "reading",
                          "confirming", "renaming", "answered", "refused"}]
  /\ seen \in [Claimant -> Outcome \cup {None}]
  /\ told \in [Claimant -> Outcome \cup {None}]
  /\ marker \in {"absent", "empty"} \cup Outcome
  /\ synced \in BOOLEAN
  /\ named \in BOOLEAN

\* What no failure of a process or of the power can take back.
Durable == IF synced /\ named /\ marker \in Outcome THEN marker ELSE None

\* Every outcome ever returned is the durable one: a cancel handler and the
\* worker are never told different winners, and what one of them was told is
\* what any later claim finds, whichever processes died in between.
AnswerIsDurable == \A c \in Claimant : told[c] # None => told[c] = Durable

\* A failed claim removes no marker but the one it has created itself: whatever
\* fails, the decision of another claimant is never unlinked by it.
RemovesOwnMarker ==
  \A c \in Claimant : pc[c] = "removing" => marker \in {"empty", Wish[c]}

\* The marker implements a decision that is taken once.
Decision == INSTANCE FirstDecision WITH decision <- Durable, told <- told
ImplementsDecision == Decision!Spec
=============================================================================

----------------------------- MODULE JobLedger -----------------------------
(***************************************************************************)
(* What the job table of the Local Companion promises its clients: a ledger*)
(* of operations.  A key names one operation for ever; an operation waits, *)
(* runs, stops and may wait again; once it has succeeded or been cancelled *)
(* nothing changes its fate, and an attempt number is never used twice.    *)
(* Rows, receipts and their removal do not appear here: JobStore shows that*)
(* the tables of store.py implement this ledger.                           *)
(***************************************************************************)
EXTENDS Integers

CONSTANTS Job, Key

VARIABLES
  owner,  \* accepted key -> the operation it names
  fate,   \* operation -> what is known of it
  tries   \* operation -> attempts started so far

ledgerVars == <<owner, fate, tries>>

Init ==
  /\ owner = [k \in {} |-> k]
  /\ fate = [j \in Job |-> "none"]
  /\ tries = [j \in Job |-> 0]

\* A key is given to an operation once.
Name(k, j) ==
  /\ k \notin DOMAIN owner
  /\ owner' = [l \in DOMAIN owner \cup {k} |-> IF l = k THEN j ELSE owner[l]]

Accept(k, j) ==
  /\ fate[j] = "none"
  /\ Name(k, j)
  /\ fate' = [fate EXCEPT ![j] = "waiting"]
  /\ UNCHANGED tries

Attach(k, j) ==
  /\ fate[j] \in {"waiting", "running"}
  /\ Name(k, j)
  /\ UNCHANGED <<fate, tries>>

Start(j) ==
  /\ fate[j] = "waiting"
  /\ fate' = [fate EXCEPT ![j] = "running"]
  /\ tries' = [tries EXCEPT ![j] = @ + 1]
  /\ UNCHANGED owner

Move(j, from, to) ==
  /\ fate[j] \in from
  /\ fate' = [fate EXCEPT ![j] = to]
  /\ UNCHANGED <<owner, tries>>

\* A stopped operation may still succeed: its result was durable after all.
Succeed(j) == Move(j, {"running", "stopped"}, "succeeded")
Cancel(j) == Move(j, {"waiting", "running"}, "cancelled")
Stop(j) == Move(j, {"running"}, "stopped")
Requeue(j) == Move(j, {"stopped"}, "waiting")

\* The process that runs the operations ends: whatever ran has stopped.
StopAll ==
  /\ fate' = [j \in Job |-> IF fate[j] = "running" THEN "stopped" ELSE fate[j]]
  /\ UNCHANGED <<owner, tries>>

Next ==
  \/ \E k \in Key, j \in Job : Accept(k, j) \/ Attach(k, j)
  \/ \E j \in Job : Start(j) \/ Succeed(j) \/ Cancel(j) \/ Stop(j) \/ Requeue(j)
  \/ StopAll

Spec == Init /\ [][Next]_ledgerVars
=============================================================================

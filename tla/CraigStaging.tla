---------------------------- MODULE CraigStaging ----------------------------
(***************************************************************************)
(* The staged source of one Craig recording and what users make of it: the *)
(* tracks, the transcription runs and the reviews of runs, all under one   *)
(* directory.  Uploads of the recording reuse the directory, make it, or   *)
(* repair it by an exchange of directories; a job reads it; the Agent may  *)
(* be killed anywhere and recovers what a repair has left when it starts.  *)
(*                                                                         *)
(* Extraction is one step (what it leaves when killed has a name that no   *)
(* operation looks at).  Damage is what the cheap check detects.  A legacy *)
(* transcript is a run like others.  No worker outlives its Agent here.    *)
(***************************************************************************)
EXTENDS Naturals, FiniteSets

CONSTANTS
  Upload,    \* requests that upload the recording, each sent once
  Run,
  Nil,
  MaxDamage, \* bound on damages to the tracks
  MaxCrash,  \* bound on deaths of the Agent
  MaxFault   \* bound on renames, copies and removals that fail

VARIABLES
  current,   \* staging/<source_id>: a package, or Nil
  repl,      \* .<source_id>.repair-<uuid>.partial of each upload
  backup,    \* .<source_id>.backup-<uuid> of each upload
  displaced, \* backups made by the recovery
  up,        \* where each upload is
  gate,      \* source_gate: the upload that holds it over several steps
  worker,    \* the run that is being made, and the package it was started on
  agent,     \* "down", "recovering", "sweeping" or "up"
  sealed,    \* the runs that were completed
  reviewed,  \* the runs whose review was saved
  count      \* damages, crashes and faults so far

vars == <<current, repl, backup, displaced, up, gate, worker, agent, sealed, reviewed, count>>
work == <<worker, sealed, reviewed>>
places == <<current, repl, backup, displaced>>

Package(u) == [of |-> u, whole |-> TRUE, runs |-> {}, reviews |-> {}]
NotSent == [u \in Upload |-> "unsent"]
Nowhere == [u \in Upload |-> Nil]

Init ==
  /\ current = Nil /\ repl = Nowhere /\ backup = Nowhere /\ displaced = {}
  /\ up = NotSent /\ gate = Nil /\ worker = Nil /\ agent = "up"
  /\ sealed = {} /\ reviewed = {}
  /\ count = [damage |-> 0, crash |-> 0, fault |-> 0]

Reusable == current # Nil /\ (current # Nil => current.whole)
Invalid == current # Nil /\ ~Reusable
\* source_in_use: an active worker, a running row
InUse == worker # Nil

At(u, pc) == agent = "up" /\ up[u] = pc
Goes(u, pc) == up' = [up EXCEPT ![u] = pc]
Fault == count.fault < MaxFault /\ count' = [count EXCEPT !.fault = @ + 1]
Drop(place, u) == [place EXCEPT ![u] = Nil]

-----------------------------------------------------------------------------
(* The upload: reuse the source, make it, or have it repaired. *)
Look(u) ==
  /\ At(u, "unsent")
  /\ Goes(u, IF Reusable THEN "answered" ELSE IF Invalid THEN "repairing" ELSE "ingesting")
  /\ UNCHANGED <<places, gate, agent, work, count>>

\* No gate is held: a source that appeared meanwhile is not replaced.
Ingest(u) ==
  /\ At(u, "ingesting")
  /\ IF current = Nil THEN current' = Package(u) /\ Goes(u, "answered")
     ELSE Goes(u, "relooking") /\ UNCHANGED current
  /\ UNCHANGED <<repl, backup, displaced, gate, agent, work, count>>

Relook(u) ==
  /\ At(u, "relooking")
  /\ Goes(u, IF Reusable THEN "answered" ELSE IF Invalid THEN "repairing" ELSE "refused")
  /\ UNCHANGED <<places, gate, agent, work, count>>

RepairLooks(u) ==
  /\ At(u, "repairing")
  /\ IF InUse THEN Goes(u, "refused") /\ UNCHANGED repl
     ELSE Goes(u, "waiting") /\ repl' = [repl EXCEPT ![u] = Package(u)]
  /\ UNCHANGED <<current, backup, displaced, gate, agent, work, count>>

\* Mutant: who uses the source is not asked again under the gate.
RepairBeginsUnasked(u) ==
  /\ At(u, "waiting") /\ gate = Nil
  /\ IF Reusable
     THEN Goes(u, "answered") /\ repl' = Drop(repl, u) /\ UNCHANGED gate
     ELSE /\ Goes(u, IF current = Nil THEN "moving in" ELSE "copying")
          /\ gate' = u
          /\ UNCHANGED repl
  /\ UNCHANGED <<current, backup, displaced, agent, work, count>>

(* The gate is taken, and the question asked again. *)
RepairBegins(u) ==
  /\ At(u, "waiting") /\ gate = Nil
  /\ IF InUse \/ Reusable
     THEN /\ Goes(u, IF InUse THEN "refused" ELSE "answered")
          /\ repl' = Drop(repl, u)
          /\ UNCHANGED gate
     ELSE /\ Goes(u, IF current = Nil THEN "moving in" ELSE "copying")
          /\ gate' = u
          /\ UNCHANGED repl
  /\ UNCHANGED <<current, backup, displaced, agent, work, count>>

Refuse(u) == Goes(u, "refused") /\ gate' = Nil /\ repl' = Drop(repl, u)

CopyRunHistory(u) ==
  /\ At(u, "copying")
  /\ \E r \in current.runs \ repl[u].runs :
       repl' = [repl EXCEPT ![u].runs = @ \cup {r}]
  /\ UNCHANGED <<current, backup, displaced, up, gate, agent, work, count>>

MoveAway(u) ==
  /\ At(u, "copying") /\ current.runs \subseteq repl[u].runs
  /\ backup' = [backup EXCEPT ![u] = current]
  /\ current' = Nil
  /\ Goes(u, "moving in")
  /\ UNCHANGED <<repl, displaced, gate, agent, work, count>>

\* The history cannot be copied, or the source not be moved.
CopyFails(u) ==
  /\ At(u, "copying") /\ Fault
  /\ Refuse(u)
  /\ UNCHANGED <<current, backup, displaced, agent, work>>

\* Where a source has appeared, the rename fails and so does that of the backup.
MoveIn(u) ==
  /\ At(u, "moving in")
  /\ IF current = Nil
     THEN /\ current' = repl[u] /\ repl' = Drop(repl, u)
          /\ gate' = Nil /\ Goes(u, "cleaning")
     ELSE Refuse(u) /\ UNCHANGED current
  /\ UNCHANGED <<backup, displaced, agent, work, count>>

MoveInFails(u) ==
  /\ At(u, "moving in") /\ current = Nil /\ Fault
  /\ current' = backup[u] /\ backup' = Drop(backup, u)
  /\ Refuse(u)
  /\ UNCHANGED <<displaced, agent, work>>

Clean(u) ==
  /\ At(u, "cleaning")
  /\ \/ backup' = Drop(backup, u) /\ UNCHANGED count
     \/ Fault /\ backup[u] # Nil /\ UNCHANGED backup
  /\ Goes(u, "answered")
  /\ UNCHANGED <<current, repl, displaced, gate, agent, work>>

-----------------------------------------------------------------------------
(* What else happens to the source.  A claim and a save hold the gate. *)
Serving == agent = "up" /\ gate = Nil

Claim ==
  /\ Serving /\ worker = Nil /\ Reusable
  /\ \E r \in Run \ sealed : worker' = [run |-> r, of |-> current.of]
  /\ UNCHANGED <<places, up, gate, agent, sealed, reviewed, count>>

Seal ==
  /\ worker # Nil /\ current # Nil
  /\ current' = [current EXCEPT !.runs = @ \cup {worker.run}]
  /\ sealed' = sealed \cup {worker.run}
  /\ worker' = Nil
  /\ UNCHANGED <<repl, backup, displaced, up, gate, agent, reviewed, count>>

JobFails ==
  /\ worker # Nil
  /\ worker' = Nil
  /\ UNCHANGED <<places, up, gate, agent, sealed, reviewed, count>>

SaveReview ==
  /\ Serving /\ Reusable
  /\ \E r \in current.runs \ current.reviews :
       /\ current' = [current EXCEPT !.reviews = @ \cup {r}]
       /\ reviewed' = reviewed \cup {r}
  /\ UNCHANGED <<repl, backup, displaced, up, gate, worker, agent, sealed, count>>

Damage ==
  /\ Reusable /\ count.damage < MaxDamage
  /\ current' = [current EXCEPT !.whole = FALSE]
  /\ count' = [count EXCEPT !.damage = @ + 1]
  /\ UNCHANGED <<repl, backup, displaced, up, gate, agent, work>>

-----------------------------------------------------------------------------
(* The Agent dies and starts again: it recovers before it serves. *)
Crash ==
  /\ agent # "down" /\ count.crash < MaxCrash
  /\ agent' = "down" /\ gate' = Nil /\ worker' = Nil
  /\ up' = [u \in Upload |-> IF up[u] \in {"unsent", "answered"} THEN up[u] ELSE "refused"]
  /\ count' = [count EXCEPT !.crash = @ + 1]
  /\ UNCHANGED <<places, sealed, reviewed>>

Start ==
  /\ agent = "down"
  /\ agent' = "recovering"
  /\ UNCHANGED <<places, up, gate, work, count>>

Replacements == {repl[u] : u \in Upload} \ {Nil}
Backups == ({backup[u] : u \in Upload} \ {Nil}) \cup displaced
Left == Replacements # {} \/ Backups # {}

\* A source that is whole stays, and so does one that nothing was left of.
RecoverKeeps ==
  /\ agent = "recovering" /\ (Reusable \/ ~Left)
  /\ agent' = "sweeping"
  /\ UNCHANGED <<places, up, gate, work, count>>

RecoverDisplaces ==
  /\ agent = "recovering" /\ Invalid /\ Left
  /\ \/ /\ displaced' = displaced \cup {current} /\ current' = Nil
        /\ UNCHANGED <<agent, count>>
     \/ Fault /\ agent' = "up" /\ UNCHANGED <<displaced, current>>
  /\ UNCHANGED <<repl, backup, up, gate, work>>

\* Mutant: what is promoted is not verified, and a backup is not looked for.
RecoverPromotesNone ==
  /\ agent = "recovering" /\ current = Nil /\ Left
  /\ agent' = "sweeping"
  /\ UNCHANGED <<places, up, gate, work, count>>

\* A verified replacement first, then a verified backup, then any backup.
RecoverPromotes ==
  /\ agent = "recovering" /\ current = Nil /\ Left
  /\ \E d \in Replacements \cup Backups :
       /\ Replacements # {} => d \in Replacements
       /\ d.whole \/ \A b \in Backups : ~b.whole
       /\ current' = d
       /\ repl' = [u \in Upload |-> IF repl[u] = d THEN Nil ELSE repl[u]]
       /\ backup' = [u \in Upload |-> IF backup[u] = d THEN Nil ELSE backup[u]]
       /\ displaced' = displaced \ {d}
  /\ agent' = "sweeping"
  /\ UNCHANGED <<up, gate, work, count>>

\* No rename succeeds: the replacements go, the backups stay for the next start.
RecoverFails ==
  /\ agent = "recovering" /\ current = Nil /\ Left /\ Fault
  /\ repl' = Nowhere
  /\ agent' = "up"
  /\ UNCHANGED <<current, backup, displaced, up, gate, work>>

RecoverSweeps ==
  /\ agent = "sweeping"
  /\ repl' = Nowhere /\ backup' = Nowhere /\ displaced' = {}
  /\ agent' = "up"
  /\ UNCHANGED <<current, up, gate, work, count>>

Next ==
  \/ \E u \in Upload :
       \/ Look(u) \/ Ingest(u) \/ Relook(u) \/ RepairLooks(u) \/ RepairBegins(u)
       \/ CopyRunHistory(u) \/ MoveAway(u) \/ CopyFails(u)
       \/ MoveIn(u) \/ MoveInFails(u) \/ Clean(u)
  \/ Claim \/ Seal \/ JobFails \/ SaveReview \/ Damage
  \/ Crash \/ Start \/ RecoverKeeps \/ RecoverDisplaces \/ RecoverPromotes \/ RecoverFails
  \/ RecoverSweeps

Spec == Init /\ [][Next]_vars

-----------------------------------------------------------------------------
PackageType ==
  [of : Upload, whole : BOOLEAN, runs : SUBSET Run, reviews : SUBSET Run]

TypeOK ==
  /\ current \in PackageType \cup {Nil}
  /\ repl \in [Upload -> PackageType \cup {Nil}]
  /\ backup \in [Upload -> PackageType \cup {Nil}]
  /\ displaced \subseteq PackageType
  /\ gate \in Upload \cup {Nil}
  /\ agent \in {"down", "recovering", "sweeping", "up"}
  /\ sealed \subseteq Run /\ reviewed \subseteq sealed

(* A job reads the package it was started on to its end: no repair takes   *)
(* the directory from under it (craig_ingest.py: _repair_existing_staging).*)
SourceIsStill == worker # Nil => current # Nil /\ (current # Nil => current.of = worker.of)

(* A recording whose upload was accepted has its source, whatever died or  *)
(* failed in a repair; at worst as a backup that the next start will look  *)
(* at (recover_interrupted_craig_repairs).                                 *)
AcceptedIsThere ==
  Serving /\ (\E u \in Upload : up[u] = "answered") => current # Nil \/ Backups # {}

OnDisk == Replacements \cup Backups \cup ({current} \ {Nil})

(* A completed run stays on the disk, wherever a repair has moved it       *)
(* (_copy_run_history).                                                    *)
RunsAreKept == sealed \subseteq UNION {d.runs : d \in OnDisk}

(* So does a saved review of a run.                                        *)
ReviewsAreKept == reviewed \subseteq UNION {d.reviews : d \in OnDisk}
=============================================================================

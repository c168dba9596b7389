---------------------- MODULE InstallationMaintenance ----------------------
(***************************************************************************)
(* The installed versions of the Companion and those who change them: the  *)
(* program itself, which makes its version the only one when it starts;    *)
(* Windows Installer, one transaction at a time; the maintenance helper    *)
(* that runs it for an update or an uninstallation and keeps a journal.    *)
(* A file, the guard, tells a start that an installation is going on, and  *)
(* a mutex makes starts wait for each other and for its preparation.       *)
(*                                                                         *)
(* Windows Installer is external: it replaces or removes the files and the *)
(* registration, runs the custom actions in their order, and restores what *)
(* it changed when one fails.  A purge of user data, the expiry of a guard *)
(* after an hour and caches of downloads are left out.                     *)
(***************************************************************************)
EXTENDS Naturals, Sequences

CONSTANTS
  Process,   \* processes of the program that may exist at once
  Version,   \* a set of positive numbers
  First,     \* the version that is installed at first
  Stray,     \* what may be left of other versions at first
  Nil,
  Wish,      \* what users ask for: "update", "uninstall", "setup", "remove"
  Trouble,   \* what may go wrong: "stop", "clean", "copy", "candidate", "timeout", "die"
  MaxWish,   \* bound on updates, uninstallations and setups
  MaxOpen,   \* bound on starts by users
  MaxTrouble

VARIABLES
  tree,      \* versions/<v>
  marker,    \* current-version.txt
  product,   \* the version that Windows Installer has registered
  guard,     \* installation-guard.json
  mutex,     \* InstallationReconcile: a process, "msi", or Nil
  proc,      \* each process
  msi,       \* the transaction of Windows Installer
  helper,    \* the maintenance helper
  journal,   \* last-operation.json
  stale,     \* whether it was last written long ago
  begun,     \* the version each operation of the helper was about
  proven,    \* the operations whose version was committed since they began
  count

vars == <<tree, marker, product, guard, mutex, proc, msi, helper, journal, stale, begun, proven, count>>
disk == <<tree, marker, product>>
history == <<begun, proven>>
books == <<journal, stale, history>>

Off == [pc |-> "off", version |-> Nil, read |-> Nil]
NoMsi == [pc |-> "idle", kind |-> Nil, target |-> Nil, asker |-> Nil, candidate |-> Nil, saved |-> Nil]
Record(id, action, target) ==
  [id |-> id, action |-> action, target |-> target, status |-> "running", stage |-> "waiting_for_ui_exit"]
NoRecord == [id |-> 0, action |-> Nil, target |-> Nil, status |-> Nil, stage |-> Nil]
NoHelper == [pc |-> "idle", with |-> Nil, record |-> NoRecord]
Guard(action, target) == [action |-> action, target |-> target, aged |-> FALSE]

Init ==
  /\ tree \in [Version -> {"absent", "partial", "whole"}]
  /\ tree[First] = "whole" /\ \A v \in Version \ {First} : tree[v] \in Stray
  /\ marker = First /\ product = First /\ guard = Nil /\ mutex = Nil
  /\ proc = [p \in Process |-> Off]
  /\ msi = NoMsi /\ helper = NoHelper /\ journal = NoRecord /\ stale = FALSE /\ begun = <<>> /\ proven = {}
  /\ count = [wish |-> 0, open |-> 0, trouble |-> 0]

Whole(v) == v # Nil /\ tree[v] = "whole"
Up == {p \in Process : proc[p].pc = "up"}
Idle == {p \in Process : proc[p].pc = "off"}
Hurt(kind) ==
  /\ kind \in Trouble /\ count.trouble < MaxTrouble
  /\ count' = [count EXCEPT !.trouble = @ + 1]

Started(v) == [pc |-> "waiting", version |-> v, read |-> Nil]
Goes(p, pc) == proc' = [proc EXCEPT ![p].pc = pc]
Ends(p) == proc' = [proc EXCEPT ![p] = Off]
NobodyRuns == proc' = [p \in Process |-> Off]

\* Starts version v in a process that is free, if there is one.
Launch(v) ==
  IF Idle = {} THEN UNCHANGED proc ELSE \E p \in Idle : proc' = [proc EXCEPT ![p] = Started(v)]

-----------------------------------------------------------------------------
(* A start of the program. *)
Open(p) ==
  /\ proc[p].pc = "off" /\ count.open < MaxOpen
  /\ \E v \in Version : tree[v] # "absent" /\ proc' = [proc EXCEPT ![p] = Started(v)]
  /\ count' = [count EXCEPT !.open = @ + 1]
  /\ UNCHANGED <<disk, guard, mutex, msi, helper, books>>

\* An old guard counts only while Windows Installer is at work.
Standing == IF guard # Nil /\ guard.aged /\ msi.pc = "idle" THEN Nil ELSE guard

\* Mutant: a guard stops nobody.
EnterUnguarded(p) ==
  /\ proc[p].pc = "waiting" /\ mutex = Nil
  /\ guard' = Standing /\ mutex' = p /\ Goes(p, "deciding")
  /\ UNCHANGED <<disk, msi, helper, books, count>>

\* Mutant: an upgrade lets every version start beside it.
EnterBesideUpgrade(p) ==
  /\ proc[p].pc = "waiting" /\ mutex = Nil
  /\ guard' = Standing
  /\ IF Standing = Nil THEN mutex' = p /\ Goes(p, "deciding")
     ELSE /\ mutex' = Nil
          /\ IF Standing.action = "major_upgrade" THEN Goes(p, "recovering") ELSE Ends(p)
  /\ UNCHANGED <<disk, msi, helper, books, count>>

(* The mutex is taken and the guard looked at: the version that is being   *)
(* installed starts beside it, any other gives up.                         *)
Enter(p) ==
  /\ proc[p].pc = "waiting" /\ mutex = Nil
  /\ guard' = Standing
  /\ IF Standing = Nil THEN mutex' = p /\ Goes(p, "deciding")
     ELSE /\ mutex' = Nil
          /\ IF Standing.action = "major_upgrade" /\ Standing.target = proc[p].version
             THEN Goes(p, "recovering") ELSE Ends(p)
  /\ UNCHANGED <<disk, msi, helper, books, count>>

\* Mutant: the newest directory is the authority.
NewestVersion(v) == CHOOSE w \in Version : Whole(w) /\ \A x \in Version : Whole(x) => x <= w

AuthoritativeVersion(v) ==
  IF Whole(product) THEN product ELSE IF Whole(marker) /\ marker > v THEN marker ELSE v

(* A version that is not the authority starts the one that is. *)
Decide(p) ==
  /\ proc[p].pc = "deciding"
  /\ LET v == proc[p].version IN
     IF ~Whole(v) THEN Ends(p) /\ mutex' = Nil
     ELSE IF AuthoritativeVersion(v) # v
     THEN proc' = [proc EXCEPT ![p] = Started(AuthoritativeVersion(v))] /\ mutex' = Nil
     ELSE Goes(p, "ending others") /\ UNCHANGED mutex
  /\ UNCHANGED <<disk, guard, msi, helper, books, count>>

TerminateNonTarget(p) ==
  /\ proc[p].pc = "ending others"
  /\ \/ /\ proc' = [q \in Process |->
                      IF q = p THEN [proc[p] EXCEPT !.pc = "cleaning"]
                      ELSE IF proc[q].version # proc[p].version THEN Off ELSE proc[q]]
        /\ UNCHANGED <<mutex, count>>
     \/ /\ Hurt("stop") /\ \E q \in Process : proc[q].version \notin {Nil, proc[p].version}
        /\ Ends(p) /\ mutex' = Nil
  /\ UNCHANGED <<disk, guard, msi, helper, books>>

\* The directory of a process that runs cannot be removed.
CleanupNonTarget(p) ==
  /\ proc[p].pc = "cleaning"
  /\ LET v == proc[p].version
         busy == \E q \in Process : proc[q].version \notin {Nil, v} IN
     \/ /\ Whole(v) /\ ~busy
        /\ tree' = [w \in Version |-> IF w = v THEN tree[w] ELSE "absent"]
        /\ Goes(p, "marking") /\ UNCHANGED <<mutex, count>>
     \/ /\ Whole(v) /\ IF busy THEN UNCHANGED count ELSE Hurt("clean")
        /\ \E w \in Version \ {v} : tree[w] # "absent" /\ tree' = [tree EXCEPT ![w] = "partial"]
        /\ Ends(p) /\ mutex' = Nil
     \/ ~Whole(v) /\ Ends(p) /\ mutex' = Nil /\ UNCHANGED <<tree, count>>
  /\ UNCHANGED <<marker, product, guard, msi, helper, books>>

Mark(p) ==
  /\ proc[p].pc = "marking"
  /\ marker' = proc[p].version /\ mutex' = Nil /\ Goes(p, "recovering")
  /\ UNCHANGED <<tree, product, guard, msi, helper, books, count>>

RecoverReads(p) ==
  /\ proc[p].pc = "recovering"
  /\ IF guard = Nil /\ journal.status = "running" /\ stale
     THEN proc' = [proc EXCEPT ![p].pc = "recovered", ![p].read = journal]
     ELSE Goes(p, "up")
  /\ UNCHANGED <<disk, guard, mutex, msi, helper, books, count>>

Survived(read, v) == read.target = v /\ marker = v /\ Whole(v)
Provable == {"verifying_install", "verifying_agent", "restarting_ui"}

\* Mutant: the version that is there is taken for the one that was installed.
ClosedAsFound(read, v) ==
  [read EXCEPT !.stage = "closed",
     !.status = IF read.action = "update" /\ Survived(read, v) THEN "completed" ELSE "failed"]

(* How a start closes the journal of an operation that was interrupted. *)
Closed(read, v) ==
  [read EXCEPT !.stage = "closed",
     !.status = IF read.action = "update" /\ Survived(read, v) /\ read.stage \in Provable
                THEN "completed" ELSE "failed"]

RecoverWrites(p) ==
  /\ proc[p].pc = "recovered"
  /\ journal' = Closed(proc[p].read, proc[p].version) /\ stale' = FALSE
  /\ proc' = [proc EXCEPT ![p].pc = "up", ![p].read = Nil]
  /\ UNCHANGED <<disk, guard, mutex, msi, helper, history, count>>

Exit(p) ==
  /\ proc[p].pc = "up" /\ Ends(p)
  /\ UNCHANGED <<disk, guard, mutex, msi, helper, books, count>>

Die(p) ==
  /\ proc[p].pc \notin {"off", "up"} /\ Hurt("die")
  /\ Ends(p) /\ mutex' = IF mutex = p THEN Nil ELSE mutex
  /\ UNCHANGED <<disk, guard, msi, helper, books>>

-----------------------------------------------------------------------------
(* Windows Installer. *)
MsiAt(pc) == msi.pc = pc
MsiGoes(pc) == msi' = [msi EXCEPT !.pc = pc]
MsiReturns(code) ==
  /\ msi' = NoMsi
  /\ helper' = IF msi.asker = "helper" /\ helper.pc = "running_msi"
               THEN [helper EXCEPT !.pc = code] ELSE helper
NewMsi(kind, target, asker) ==
  [NoMsi EXCEPT !.pc = "asked", !.kind = kind, !.target = target, !.asker = asker]
Ask == count.wish < MaxWish /\ count' = [count EXCEPT !.wish = @ + 1]

\* A user runs an installer; an older one is refused.
Setup ==
  /\ "setup" \in Wish /\ MsiAt("idle") /\ Ask
  /\ \E v \in Version :
       /\ IF product = Nil THEN TRUE ELSE v >= product
       /\ msi' = NewMsi("major_upgrade", v, "user")
  /\ UNCHANGED <<disk, guard, mutex, proc, helper, books>>

\* A user removes the program.
Removal ==
  /\ "remove" \in Wish /\ MsiAt("idle") /\ product # Nil /\ Ask
  /\ msi' = NewMsi("uninstall", product, "user")
  /\ UNCHANGED <<disk, guard, mutex, proc, helper, books>>

MsiGuards ==
  /\ MsiAt("asked") /\ mutex = Nil
  /\ LET mine == Guard(msi.kind, IF msi.kind = "uninstall" THEN Nil ELSE msi.target) IN
     IF guard = Nil \/ [guard EXCEPT !.aged = FALSE] = mine
     THEN guard' = mine /\ mutex' = "msi" /\ MsiGoes("stopping") /\ UNCHANGED helper
     ELSE MsiReturns("failed") /\ UNCHANGED <<guard, mutex>>
  /\ UNCHANGED <<disk, proc, books, count>>

\* Before the transaction: when not all stop, the guard goes; not when it dies itself.
MsiStops ==
  /\ MsiAt("stopping") /\ mutex' = Nil
  /\ \/ NobodyRuns /\ MsiGoes("removing") /\ UNCHANGED <<guard, helper, count>>
     \/ Hurt("stop") /\ guard' = Nil /\ MsiReturns("failed") /\ UNCHANGED proc
     \/ Hurt("die") /\ MsiReturns("failed") /\ UNCHANGED <<guard, proc>>
  /\ UNCHANGED <<disk, books>>

\* The transaction; an upgrade removes the other version first.
MsiRemoves ==
  /\ MsiAt("removing") /\ msi.kind = "major_upgrade"
  /\ msi' = [msi EXCEPT !.pc = "copying", !.saved = [tree |-> tree, marker |-> marker, product |-> product]]
  /\ IF product \notin {Nil, msi.target}
     THEN tree' = [tree EXCEPT ![product] = "absent"] /\ marker' = Nil /\ product' = Nil
     ELSE UNCHANGED disk
  /\ UNCHANGED <<guard, mutex, proc, helper, books, count>>

MsiCopies ==
  /\ MsiAt("copying")
  /\ MsiGoes("copied")
  /\ tree' = IF product = msi.target THEN tree ELSE [tree EXCEPT ![msi.target] = "partial"]
  /\ UNCHANGED <<marker, product, guard, mutex, proc, helper, books, count>>

MsiCopied ==
  /\ MsiAt("copied")
  /\ \/ /\ tree' = [tree EXCEPT ![msi.target] = "whole"] /\ marker' = msi.target
        /\ MsiGoes("verifying") /\ UNCHANGED count
     \/ Hurt("copy") /\ MsiGoes("restoring") /\ UNCHANGED <<tree, marker>>
  /\ UNCHANGED <<product, guard, mutex, proc, helper, books>>

\* The candidate must answer: one that runs already, or one that is started.
MsiVerifies ==
  /\ MsiAt("verifying")
  /\ \/ /\ \E p \in Up : proc[p].version = msi.target
        /\ MsiGoes("registering") /\ UNCHANGED proc
     \/ /\ ~\E p \in Up : proc[p].version = msi.target
        /\ ~Whole(msi.target) \/ Up # {}
        /\ MsiGoes("restoring") /\ UNCHANGED proc
     \/ /\ Whole(msi.target) /\ Up = {}
        /\ \E p \in Idle : /\ proc' = [proc EXCEPT ![p] = Started(msi.target)]
                           /\ msi' = [msi EXCEPT !.pc = "awaiting", !.candidate = p]
  /\ UNCHANGED <<disk, guard, mutex, helper, books, count>>

MsiAwaits ==
  /\ MsiAt("awaiting")
  /\ \/ msi.candidate \in Up /\ MsiGoes("registering") /\ UNCHANGED count
     \/ msi.candidate \in Idle /\ MsiGoes("restoring") /\ UNCHANGED count
     \/ Hurt("candidate") /\ MsiGoes("restoring")
  /\ UNCHANGED <<disk, guard, mutex, proc, helper, books>>

MsiRegisters ==
  /\ MsiAt("registering")
  /\ product' = msi.target /\ MsiGoes("committing")
  /\ UNCHANGED <<tree, marker, guard, mutex, proc, helper, books, count>>

\* An uninstallation asks once more that nobody runs, then removes.
MsiPreparesRemoval ==
  /\ MsiAt("removing") /\ msi.kind = "uninstall" /\ mutex = Nil
  /\ msi' = [msi EXCEPT !.pc = "erasing", !.saved = [tree |-> tree, marker |-> marker, product |-> product]]
  /\ NobodyRuns
  /\ UNCHANGED <<disk, guard, mutex, helper, books, count>>

MsiErases ==
  /\ MsiAt("erasing")
  /\ \/ /\ tree' = [tree EXCEPT ![msi.target] = "absent"] /\ marker' = Nil /\ product' = Nil
        /\ MsiGoes("committing") /\ UNCHANGED count
     \/ Hurt("copy") /\ MsiGoes("restoring") /\ UNCHANGED disk
  /\ UNCHANGED <<guard, mutex, proc, helper, books>>

MsiCommits ==
  /\ MsiAt("committing")
  /\ \/ guard' = Nil /\ UNCHANGED count
     \/ Hurt("die") /\ UNCHANGED guard
  /\ proven' = proven \cup {i \in DOMAIN begun : begun[i] = msi.target}
  /\ MsiReturns("installed")
  /\ UNCHANGED <<disk, mutex, proc, journal, stale, begun>>

\* A rollback puts back what was changed, then runs its custom action.
MsiRestores ==
  /\ MsiAt("restoring")
  /\ tree' = [v \in Version |-> IF v \in {msi.target, msi.saved.product} THEN msi.saved.tree[v] ELSE tree[v]]
  /\ marker' = msi.saved.marker /\ product' = msi.saved.product
  /\ MsiGoes("reviving")
  /\ UNCHANGED <<guard, mutex, proc, helper, books, count>>

MsiRevives ==
  /\ MsiAt("reviving") /\ mutex = Nil
  /\ \/ NobodyRuns /\ UNCHANGED count
     \/ Hurt("stop") /\ UNCHANGED proc
  /\ guard' = Nil /\ MsiGoes("restarting")
  /\ UNCHANGED <<disk, mutex, helper, books>>

RestartSurviving == IF Whole(marker) /\ Up = {} THEN Launch(marker) ELSE UNCHANGED proc

MsiRestarts ==
  /\ MsiAt("restarting")
  /\ RestartSurviving /\ MsiReturns("failed")
  /\ UNCHANGED <<disk, guard, mutex, books, count>>

-----------------------------------------------------------------------------
(* The maintenance helper, asked by a program that then ends. *)
HelperAt(pc) == helper.pc = pc
HelperGoes(pc) == helper' = [helper EXCEPT !.pc = pc]

\* The journal is written whole, from what the helper holds in memory.
Writes(record) == journal' = record /\ stale' = FALSE
Begin(record, pc, with) ==
  /\ helper' = [pc |-> pc, with |-> with, record |-> record]
  /\ Writes(record)
  /\ begun' = Append(begun, record.target) /\ UNCHANGED proven
Stage(stage, pc, with) ==
  LET record == [helper.record EXCEPT !.stage = stage] IN
  helper' = [pc |-> pc, with |-> with, record |-> record] /\ Writes(record)
Settle(status) ==
  /\ Writes([helper.record EXCEPT !.status = status, !.stage = status])
  /\ guard' = IF helper.record.action = "uninstall" THEN Nil ELSE guard
  /\ helper' = NoHelper

InstallUpdate(p) ==
  /\ "update" \in Wish /\ proc[p].pc = "up" /\ HelperAt("idle") /\ Ask
  /\ \E v \in Version :
       v >= proc[p].version /\ Begin(Record(Len(begun) + 1, "update", v), "waiting", p)
  /\ UNCHANGED <<disk, guard, mutex, proc, msi>>

\* Another's guard ends the request before anything is written.
Uninstall(p) ==
  /\ "uninstall" \in Wish /\ proc[p].pc = "up" /\ HelperAt("idle") /\ Ask
  /\ IF guard = Nil THEN TRUE ELSE guard.action = "uninstall"
  /\ helper' = [pc |-> "guarding", with |-> p, record |-> Record(Len(begun) + 1, "uninstall", product)]
  /\ UNCHANGED <<disk, guard, mutex, proc, msi, books>>

\* The guard is written without the mutex, after it was looked at.
HelperGuards ==
  /\ HelperAt("guarding")
  /\ guard' = Guard("uninstall", Nil)
  /\ Begin(helper.record, "waiting", helper.with)
  /\ UNCHANGED <<disk, mutex, proc, msi, count>>

Updates == helper.record.action = "update"
Target == helper.record.target

\* What is to be removed is asked of the registry, after the program has ended.
HelperStops ==
  /\ HelperAt("waiting") /\ ~Updates /\ proc[helper.with].pc = "off" /\ mutex = Nil
  /\ LET record == [helper.record EXCEPT !.target = product, !.stage = "stopping_agent"] IN
     /\ Writes(record)
     /\ begun' = [begun EXCEPT ![record.id] = product]
     /\ \/ /\ product # Nil /\ NobodyRuns
           /\ helper' = [pc |-> "stopped", with |-> Nil, record |-> record] /\ UNCHANGED count
        \/ /\ IF product = Nil THEN UNCHANGED count ELSE Hurt("stop")
           /\ helper' = [pc |-> "failed", with |-> Nil, record |-> record] /\ UNCHANGED proc
  /\ UNCHANGED <<disk, guard, mutex, msi, proven>>

\* One transaction at a time: another makes msiexec fail, and so does an older version.
HelperRuns ==
  /\ HelperAt("stopped") \/ (HelperAt("waiting") /\ Updates /\ proc[helper.with].pc = "off")
  /\ LET accepted == /\ MsiAt("idle") /\ Target # Nil
                     /\ IF Updates THEN product = Nil \/ Target >= product ELSE product = Target IN
     /\ Stage("running_msi", IF accepted THEN "running_msi" ELSE "failed", Nil)
     /\ msi' = IF accepted THEN NewMsi(IF Updates THEN "major_upgrade" ELSE "uninstall", Target, "helper")
               ELSE msi
  /\ UNCHANGED <<disk, guard, mutex, proc, history, count>>

\* The wait for msiexec ends before msiexec does.
HelperTimesOut ==
  /\ HelperAt("running_msi") /\ Hurt("timeout")
  /\ HelperGoes("failed")
  /\ UNCHANGED <<disk, guard, mutex, proc, msi, books>>

HelperLearns ==
  /\ HelperAt("installed") /\ Updates
  /\ Stage("verifying_install", "checking", Nil)
  /\ UNCHANGED <<disk, guard, mutex, proc, msi, history, count>>

HelperChecks ==
  /\ HelperAt("checking")
  /\ IF marker = Target /\ Whole(Target) THEN Stage("verifying_agent", "meeting", Nil)
     ELSE HelperGoes("failed") /\ UNCHANGED <<journal, stale>>
  /\ UNCHANGED <<disk, guard, mutex, proc, msi, history, count>>

\* The new Agent must answer: one that runs already, or one that is started.
HelperMeets ==
  /\ HelperAt("meeting")
  /\ IF \E p \in Up : proc[p].version = Target
     THEN Stage("restarting_ui", "completing", Nil) /\ UNCHANGED proc
     ELSE IF Up # {} \/ tree[Target] = "absent"
     THEN HelperGoes("failed") /\ UNCHANGED <<journal, stale, proc>>
     ELSE \E p \in Idle : /\ proc' = [proc EXCEPT ![p] = Started(Target)]
                          /\ helper' = [helper EXCEPT !.pc = "awaiting", !.with = p]
                          /\ UNCHANGED <<journal, stale>>
  /\ UNCHANGED <<disk, guard, mutex, msi, history, count>>

HelperAwaits ==
  /\ HelperAt("awaiting")
  /\ \/ helper.with \in Up /\ Stage("restarting_ui", "completing", Nil)
     \/ helper.with \in Idle /\ HelperGoes("failed") /\ UNCHANGED <<journal, stale>>
  /\ UNCHANGED <<disk, guard, mutex, proc, msi, history, count>>

HelperCompletes ==
  /\ HelperAt("completing") \/ (HelperAt("installed") /\ ~Updates)
  /\ Settle("completed")
  /\ UNCHANGED <<disk, mutex, proc, msi, history, count>>

HelperFails ==
  /\ HelperAt("failed")
  /\ Settle("failed")
  /\ IF Updates THEN RestartSurviving ELSE UNCHANGED proc
  /\ UNCHANGED <<disk, mutex, msi, history, count>>

HelperDies ==
  /\ ~HelperAt("idle") /\ Hurt("die")
  /\ helper' = NoHelper
  /\ UNCHANGED <<disk, guard, mutex, proc, msi, books>>

-----------------------------------------------------------------------------
GuardAges ==
  /\ guard # Nil /\ ~guard.aged
  /\ guard' = [guard EXCEPT !.aged = TRUE]
  /\ UNCHANGED <<disk, mutex, proc, msi, helper, books, count>>

JournalAges ==
  /\ journal.status = "running" /\ ~stale /\ stale' = TRUE
  /\ UNCHANGED <<disk, guard, mutex, proc, msi, helper, journal, history, count>>

Next ==
  \/ \E p \in Process :
       \/ Open(p) \/ Enter(p) \/ Decide(p) \/ TerminateNonTarget(p) \/ CleanupNonTarget(p) \/ Mark(p)
       \/ RecoverReads(p) \/ RecoverWrites(p) \/ Exit(p) \/ Die(p)
       \/ InstallUpdate(p) \/ Uninstall(p)
  \/ Setup \/ Removal \/ MsiGuards \/ MsiStops \/ MsiRemoves \/ MsiCopies \/ MsiCopied \/ MsiVerifies
  \/ MsiAwaits \/ MsiRegisters \/ MsiPreparesRemoval \/ MsiErases \/ MsiCommits
  \/ MsiRestores \/ MsiRevives \/ MsiRestarts
  \/ HelperGuards \/ HelperStops \/ HelperRuns \/ HelperTimesOut \/ HelperLearns \/ HelperChecks
  \/ HelperMeets \/ HelperAwaits \/ HelperCompletes \/ HelperFails \/ HelperDies
  \/ GuardAges \/ JournalAges

Spec == Init /\ [][Next]_vars

-----------------------------------------------------------------------------
Transaction == {"removing", "copying", "copied", "verifying", "awaiting", "registering",
                "erasing", "committing", "restoring"}
Repairing == {"deciding", "ending others", "cleaning", "marking"}

TypeOK ==
  /\ tree \in [Version -> {"absent", "partial", "whole"}]
  /\ marker \in Version \cup {Nil} /\ product \in Version \cup {Nil}
  /\ guard = Nil \/ guard.action \in {"major_upgrade", "uninstall"}
  /\ mutex \in Process \cup {Nil, "msi"}
  /\ \A p \in Process : proc[p].version \in Version \cup {Nil}
  /\ msi.pc \in Transaction \cup {"idle", "asked", "stopping", "reviving", "restarting"}
  /\ journal.status \in {Nil, "running", "completed", "failed"} /\ proven \subseteq DOMAIN begun

(* While Windows Installer changes the tree, no start of the program ends  *)
(* processes or removes versions in it (_active_installation_guard,        *)
(* prepare_major_upgrade).                                                 *)
InstallerIsAlone == msi.pc \in Transaction => \A p \in Process : proc[p].pc \notin Repairing

(* Between transactions the version that is registered is there and whole: *)
(* no start of an older or an uncommitted version has removed it           *)
(* (authoritative_installed_version, cleanup_non_target_versions), as long *)
(* as the helper, which marks and unmarks the tree at any time, does not   *)
(* uninstall.                                                              *)
ProductIsWhole == msi.pc \notin Transaction /\ product # Nil => Whole(product)

(* The processes that are past their start are of one version.             *)
OneVersionRuns ==
  \A p, q \in Process :
    {proc[p].pc, proc[q].pc} \subseteq {"recovering", "recovered", "up"}
      => proc[p].version = proc[q].version

(* An operation is told as completed only if a transaction of its version  *)
(* ended well since it began, whoever closes the journal                   *)
(* (recover_interrupted_maintenance).                                      *)
ReceiptIsTrue == journal.status = "completed" => journal.id \in proven
=============================================================================

-------------------------- MODULE ReleaseDownload --------------------------
(***************************************************************************)
(* How a release reaches a computer.  The releases of one product (the     *)
(* Companion, or the runtime of an engine) are kept by GitHub; the site    *)
(* selects one in several reads and answers its version and digests; the   *)
(* page links to it; the desktop and the Agent download what was answered, *)
(* mostly with a transfer that Windows goes on with (BITS), verify it and  *)
(* install it.  Both use the same files and are interleaved step by step.  *)
(* Content is a number, given anew to whatever is uploaded; Bad is that of *)
(* a file that is cut or came out wrong.                                   *)
(***************************************************************************)
EXTENDS Naturals, Sequences, FiniteSets

CONSTANTS
  Product,   \* "companion", "whisper" or "qwen"
  Version,   \* versions, numbers from 1
  Minimum,   \* the least version this Companion (or this page) works with
  First,     \* the version installed before, or Nil
  Part,      \* the files of a release, 1 .. n
  Process,   \* who downloads: "desktop", "agent"
  Channel,   \* the links of the page: "stable", "rc"
  MaxPage,   \* pages of the catalog that are read, of one release each
  MaxUpload,
  Nil

VARIABLES
  catalog,   \* the versions that have a release, newest first
  release,   \* release[v]: its channel, its files, its bundle manifest; or Nil
  tags,      \* versions with a Stable tag
  promoted,  \* version and content of all that was ever Stable
  uploads,
  page,      \* page[ch]: the link of a channel
  proc,      \* proc[p]: the update a process is at
  jobs,      \* transfers of BITS
  target, partial,  \* by version and part: the verified file, the one before
  archive,   \* the parts of a version put together
  installed  \* the version in use, and what was installed for each

vars == <<catalog, release, tags, promoted, uploads, page, proc, jobs, target, partial,
          archive, installed>>
github == <<catalog, release, tags, promoted, uploads>>
disk == <<target, partial, archive>>

Bad == 0
Content == [Part -> 0 .. MaxUpload]
Slot == Version \X Part
Greatest(S) == CHOOSE v \in S : \A w \in S : w <= v

Ask == [page |-> 1, seen |-> {}]
Closed == [pc |-> "closed", ask |-> Ask, offer |-> Nil, got |-> Nil]
Idle == [pc |-> "idle", ask |-> Ask, current |-> Nil, version |-> Nil, said |-> Nil,
         listed |-> Nil, part |-> 1, repairing |-> FALSE, job |-> Nil]

Init ==
  /\ catalog = <<>> /\ release = [v \in Version |-> Nil] /\ tags = {} /\ promoted = {}
  /\ uploads = 0 /\ page = [ch \in Channel |-> Closed] /\ proc = [p \in Process |-> Idle]
  /\ jobs = {} /\ target = [s \in Slot |-> Nil] /\ partial = [s \in Slot |-> Nil]
  /\ archive = [v \in Version |-> Nil]
  /\ installed = [current |-> First, dir |-> [v \in Version |-> Nil]]

Entry(v) == [version |-> v, channel |-> release[v].channel, content |-> release[v].content]
HasStable(v) == release[v] # Nil /\ release[v].channel = "stable"

-----------------------------------------------------------------------------
(* GitHub, as the workflows and the owner of the repository use it. *)
Publish(v) ==
  /\ release[v] = Nil /\ uploads < MaxUpload /\ uploads' = uploads + 1
  /\ catalog' = <<v>> \o catalog
  /\ release' = [release EXCEPT ![v] =
       [channel |-> "rc", content |-> [i \in Part |-> uploads'],
        listed |-> [i \in Part |-> uploads']]]
  /\ UNCHANGED <<tags, promoted, page, proc, jobs, disk, installed>>

(* The same release gets the Stable tag; its files are not uploaded again. *)
Promote(v) ==
  /\ release[v] # Nil /\ v \notin tags
  /\ release' = [release EXCEPT ![v].channel = "stable"]
  /\ tags' = tags \cup {v}
  /\ promoted' = promoted \cup {<<v, release[v].content>>}
  /\ UNCHANGED <<catalog, uploads, page, proc, jobs, disk, installed>>

(* A release is taken away, its tag stays; or a file of it is replaced. *)
Withdraw(v) ==
  /\ release[v] # Nil
  /\ release' = [release EXCEPT ![v] = Nil]
  /\ catalog' = SelectSeq(catalog, LAMBDA w : w # v)
  /\ UNCHANGED <<tags, promoted, uploads, page, proc, jobs, disk, installed>>

Replaced(v, i) ==
  /\ release[v] # Nil /\ uploads < MaxUpload /\ uploads' = uploads + 1
  /\ release' = [release EXCEPT ![v].content[i] = uploads']
  /\ promoted' = promoted \cup (IF HasStable(v) THEN {<<v, release'[v].content>>} ELSE {})
  /\ UNCHANGED <<catalog, tags, page, proc, jobs, disk, installed>>

-----------------------------------------------------------------------------
(* The site selects.  The catalog is read page by page while it changes.   *)
AllRead(ask) == ask.page > Len(catalog) \/ ask.page > MaxPage
NextPage(ask) ==
  [page |-> ask.page + 1, seen |-> ask.seen \cup {Entry(catalog[ask.page])}]

(* Mutant: the newest version that can be installed, of any channel. *)
LatestOfAny(ch, seen) ==
  IF seen = {} THEN Nil
  ELSE CHOOSE e \in seen : e.version = Greatest({s.version : s \in seen})

(* Each channel has its own selector: a prerelease is opt-in only. *)
OfChannel(ch, seen) == {e \in seen : e.channel = ch}

LatestOf(ch, seen) ==
  LET own == OfChannel(ch, seen)
  IN IF own = {} THEN Nil
     ELSE CHOOSE e \in own : e.version = Greatest({s.version : s \in own})

-----------------------------------------------------------------------------
(* CompanionDownload: one link for each channel. *)
Mount(ch) ==
  /\ Product = "companion" /\ page[ch].pc = "closed"
  /\ page' = [page EXCEPT ![ch].pc = "asking"]
  /\ UNCHANGED <<github, proc, jobs, disk, installed>>

Shown(ch) ==
  /\ page[ch].pc = "asking"
  /\ page' = [page EXCEPT ![ch] =
       IF AllRead(page[ch].ask)
         THEN [Closed EXCEPT !.pc = "shown", !.offer = LatestOf(ch, page[ch].ask.seen)]
         ELSE [page[ch] EXCEPT !.ask = NextPage(@)]]
  /\ UNCHANGED <<github, proc, jobs, disk, installed>>

NotShown(ch) ==
  /\ page[ch].pc = "asking"
  /\ page' = [page EXCEPT ![ch] = [Closed EXCEPT !.pc = "shown"]]
  /\ UNCHANGED <<github, proc, jobs, disk, installed>>

Compatible(offer) == offer.version >= Minimum

(* The link names a tag; what has that tag now is what the visitor gets. *)
Follow(ch) ==
  LET o == page[ch].offer
  IN /\ page[ch].pc = "shown" /\ o # Nil /\ page[ch].got = Nil
     /\ Compatible(o)
     /\ release[o.version] # Nil /\ release[o.version].channel = o.channel
     /\ page' = [page EXCEPT ![ch].got = Entry(o.version)]
     /\ UNCHANGED <<github, proc, jobs, disk, installed>>

Unmount(ch) ==
  /\ page[ch].pc # "closed"
  /\ page' = [page EXCEPT ![ch] = Closed]
  /\ UNCHANGED <<github, proc, jobs, disk, installed>>

-----------------------------------------------------------------------------
(* A process asks for the manifest of the latest Stable. *)
At(p, pc) == proc[p].pc = pc
Becomes(p, r) == proc' = [proc EXCEPT ![p] = r]
Goto(p, pc) == proc' = [proc EXCEPT ![p].pc = pc]
Fails(p) == Becomes(p, Idle)

(* The desktop begins only while the Agent prepares nothing, as it saw; the *)
(* Agent only for a runtime it does not have.                               *)
Begin(p) ==
  /\ At(p, "idle")
  /\ p = "desktop" => \A q \in Process \ {p} : At(q, "idle")
  /\ p = "agent" => (installed.current # Nil => installed.current < Minimum)
  /\ Becomes(p, [Idle EXCEPT !.current = installed.current,
                             !.pc = IF Product = "companion" THEN "pages" ELSE "tags"])
  /\ UNCHANGED <<github, page, jobs, disk, installed>>

Available(current, v) ==
  /\ Product # "companion" => v >= Minimum
  /\ current # Nil => v > current

Told(p, v, said) ==
  IF Available(proc[p].current, v)
    THEN Becomes(p, [proc[p] EXCEPT !.pc = "check", !.ask = Ask, !.version = v, !.said = said,
                                    !.repairing = installed.dir[v] # Nil])
    ELSE Fails(p)

ReadPages(p) ==
  LET e == LatestOf("stable", proc[p].ask.seen)
  IN /\ At(p, "pages")
     /\ IF ~AllRead(proc[p].ask)
          THEN Becomes(p, [proc[p] EXCEPT !.ask = NextPage(@)])
          ELSE IF e = Nil THEN Fails(p) ELSE Told(p, e.version, e.content)
     /\ UNCHANGED <<github, page, jobs, disk, installed>>

ReadTags(p) ==
  /\ At(p, "tags")
  /\ IF tags = {} THEN Fails(p)
     ELSE Becomes(p, [proc[p] EXCEPT !.pc = "release", !.version = Greatest(tags)])
  /\ UNCHANGED <<github, page, jobs, disk, installed>>

ReadRelease(p) ==
  LET v == proc[p].version
  IN /\ At(p, "release")
     /\ IF ~HasStable(v) THEN Fails(p)
        ELSE IF Product = "qwen"
          THEN Becomes(p, [proc[p] EXCEPT !.pc = "bundle", !.said = release[v].content,
                                          !.listed = release[v].listed])
          ELSE Told(p, v, release[v].content)
     /\ UNCHANGED <<github, page, jobs, disk, installed>>

NamesParts(bundle, said) == \A i \in Part : bundle[i] = said[i]

(* Mutant: the parts the bundle names are not compared with the release. *)
ReadBundleOnly(p) ==
  LET v == proc[p].version
  IN /\ At(p, "bundle")
     /\ IF release[v] # Nil THEN Told(p, v, release[v].listed) ELSE Fails(p)
     /\ UNCHANGED <<github, page, jobs, disk, installed>>

(* The bundle manifest is a file of the release, read after the release.   *)
ReadBundle(p) ==
  LET v == proc[p].version
      bundle == release[v].listed
  IN /\ At(p, "bundle")
     /\ IF HasStable(v) /\ bundle = proc[p].listed /\ NamesParts(bundle, proc[p].said)
          THEN Told(p, v, bundle) ELSE Fails(p)
     /\ UNCHANGED <<github, page, jobs, disk, installed>>

(* A read or a call fails, or the answer is no manifest. *)
LookupFails(p) ==
  /\ proc[p].pc \in {"pages", "tags", "release", "bundle"}
  /\ Fails(p)
  /\ UNCHANGED <<github, page, jobs, disk, installed>>

-----------------------------------------------------------------------------
(* download_verified_release_asset, for one part of the version. *)
SlotOf(p) == <<proc[p].version, proc[p].part>>
Wanted(p) == proc[p].said[proc[p].part]
Held(p) == partial[SlotOf(p)] # Nil /\ partial[SlotOf(p)].by \notin {p, Nil}
JobsHere(p) == {j \in jobs : j.slot = SlotOf(p)}
Watched(p) == {j \in JobsHere(p) : j.by = proc[p].job}

(* A file somebody else writes cannot be removed. *)
PartialRemoved(p) == partial' = IF Held(p) THEN partial ELSE [partial EXCEPT ![SlotOf(p)] = Nil]
RemovedThen(p, pc) == PartialRemoved(p) /\ IF Held(p) THEN Fails(p) ELSE Goto(p, pc)

Done(p) ==
  IF proc[p].part < Cardinality(Part)
    THEN Becomes(p, [proc[p] EXCEPT !.pc = "check", !.part = @ + 1])
    ELSE Goto(p, IF Product = "qwen" THEN "assemble" ELSE "install")

CheckTarget(p) ==
  /\ At(p, "check")
  /\ CASE target[SlotOf(p)] = Wanted(p) -> Done(p)
       [] target[SlotOf(p)] = Nil -> Goto(p, "list")
       [] OTHER -> Goto(p, "unlink")
  /\ UNCHANGED <<github, page, jobs, disk, installed>>

UnlinkTarget(p) ==
  /\ At(p, "unlink")
  /\ target' = [target EXCEPT ![SlotOf(p)] = Nil]
  /\ Goto(p, "list")
  /\ UNCHANGED <<github, page, jobs, partial, archive, installed>>

(* The script: jobs are found by a name made of the address and the file. *)
FindJob(p) ==
  /\ At(p, "list")
  /\ CASE Cardinality(JobsHere(p)) > 1 ->
            jobs' = jobs \ JobsHere(p) /\ PartialRemoved(p) /\ Fails(p)
       [] JobsHere(p) = {} ->
            Goto(p, "start") /\ UNCHANGED <<jobs, partial>>
       [] OTHER ->
            /\ Becomes(p, [proc[p] EXCEPT !.pc = "wait", !.job = (CHOOSE j \in JobsHere(p) : TRUE).by])
            /\ UNCHANGED <<jobs, partial>>
  /\ UNCHANGED <<github, page, target, archive, installed>>

StartJob(p) ==
  /\ At(p, "start")
  /\ PartialRemoved(p)
  /\ IF Held(p) THEN Fails(p) /\ UNCHANGED jobs
     ELSE /\ Becomes(p, [proc[p] EXCEPT !.pc = "wait", !.job = p])
          /\ jobs' = jobs \cup {[slot |-> SlotOf(p), by |-> p, state |-> "transferring", bytes |-> Bad]}
  /\ UNCHANGED <<github, page, target, archive, installed>>

BitsUnavailable(p) ==
  /\ proc[p].pc \in {"list", "start"}
  /\ RemovedThen(p, "stream")
  /\ UNCHANGED <<github, page, jobs, target, archive, installed>>

(* Windows transfers what is at the address, or fails. *)
Transfer(j) ==
  /\ j \in jobs /\ j.state = "transferring"
  /\ \E r \in {[state |-> "error", bytes |-> Bad]} \cup
              (IF HasStable(j.slot[1])
               THEN {[state |-> "transferred", bytes |-> b] :
                       b \in {Bad, release[j.slot[1]].content[j.slot[2]]}}
               ELSE {}) :
       jobs' = (jobs \ {j}) \cup {[j EXCEPT !.state = r.state, !.bytes = r.bytes]}
  /\ UNCHANGED <<github, page, proc, disk, installed>>

Observe(p) ==
  LET s == SlotOf(p)
      j == CHOOSE w \in Watched(p) : TRUE
  IN /\ At(p, "wait")
     /\ CASE Watched(p) = {} ->
               IF partial[s] # Nil THEN Goto(p, "verify") /\ UNCHANGED <<jobs, partial>>
               ELSE Fails(p) /\ UNCHANGED <<jobs, partial>>
          [] Watched(p) # {} /\ j.state = "transferred" /\ ~Held(p) ->
               /\ jobs' = jobs \ {j}
               /\ partial' = [partial EXCEPT ![s] = [bytes |-> j.bytes, by |-> Nil]]
               /\ Goto(p, "verify")
          [] Watched(p) # {} /\ (j.state = "error" \/ (j.state = "transferred" /\ Held(p))) ->
               jobs' = jobs \ {j} /\ PartialRemoved(p) /\ Fails(p)
          [] OTHER -> FALSE
     /\ UNCHANGED <<github, page, target, archive, installed>>

(* The window ends: the Agent looks again with the manifest it has, until   *)
(* its deadline; the desktop says that the download goes on.                *)
Pending(p) ==
  /\ At(p, "wait") /\ \E j \in Watched(p) : j.state = "transferring"
  /\ \/ Fails(p)
     \/ p = "agent" /\ Becomes(p, [proc[p] EXCEPT !.pc = "check", !.job = Nil])
  /\ UNCHANGED <<github, page, jobs, disk, installed>>

(* The site redirects to a file of the Stable release of that version only. *)
Redirects(s) == HasStable(s[1])

(* _stream_fallback: through the site, which redirects to the address. *)
OpenStream(p) ==
  LET s == SlotOf(p)
  IN /\ At(p, "stream")
     /\ IF Held(p) THEN Fails(p) /\ UNCHANGED partial
        ELSE IF ~Redirects(s) THEN Fails(p) /\ partial' = [partial EXCEPT ![s] = Nil]
        ELSE /\ \E b \in {Bad, release[s[1]].content[s[2]]} :
                  partial' = [partial EXCEPT ![s] = [bytes |-> b, by |-> p]]
             /\ Goto(p, "read")
     /\ UNCHANGED <<github, page, jobs, target, archive, installed>>

ReadStream(p) ==
  LET s == SlotOf(p)
  IN /\ At(p, "read")
     /\ \/ partial' = [partial EXCEPT ![s].by = Nil] /\ Goto(p, "verify")
        \/ partial' = [partial EXCEPT ![s] = Nil] /\ Fails(p)
     /\ UNCHANGED <<github, page, jobs, target, archive, installed>>

(* Mutant: a file of the right size is taken. *)
VerifyNothing(p) ==
  LET s == SlotOf(p)
  IN /\ At(p, "verify")
     /\ IF partial[s] # Nil THEN Goto(p, "replace") /\ UNCHANGED partial
        ELSE PartialRemoved(p) /\ Fails(p)
     /\ UNCHANGED <<github, page, jobs, target, archive, installed>>

Verify(p) ==
  LET s == SlotOf(p)
  IN /\ At(p, "verify")
     /\ IF partial[s] # Nil /\ ~Held(p) /\ partial[s].bytes = Wanted(p)
          THEN Goto(p, "replace") /\ UNCHANGED partial
          ELSE PartialRemoved(p) /\ Fails(p)
     /\ UNCHANGED <<github, page, jobs, target, archive, installed>>

(* Between the digest and the move the file may be another one. *)
Move(p) ==
  LET s == SlotOf(p)
  IN /\ At(p, "replace")
     /\ IF partial[s] = Nil \/ Held(p) THEN Fails(p) /\ UNCHANGED <<target, partial>>
        ELSE /\ target' = [target EXCEPT ![s] = partial[s].bytes]
             /\ partial' = [partial EXCEPT ![s] = Nil]
             /\ Done(p)
     /\ UNCHANGED <<github, page, jobs, archive, installed>>

-----------------------------------------------------------------------------
(* assemble_qwen_runtime_bundle: the parts and their sum are verified again. *)
Assemble(p) ==
  LET v == proc[p].version
  IN /\ At(p, "assemble")
     /\ IF \A i \in Part : target[<<v, i>>] = proc[p].said[i]
          THEN archive' = [archive EXCEPT ![v] = proc[p].said] /\ Goto(p, "install")
          ELSE Fails(p) /\ UNCHANGED archive
     /\ UNCHANGED <<github, page, jobs, target, partial, installed>>

Downloaded(v) == IF Product = "qwen" THEN archive[v] ELSE [i \in Part |-> target[<<v, i>>]]

(* Mutant: what was downloaded is installed without its digest. *)
InstallAny(p) ==
  LET v == proc[p].version
  IN /\ At(p, "install")
     /\ Goto(p, "extract")
     /\ UNCHANGED <<github, page, jobs, disk, installed>>

(* The installer computes the digest again, then opens the file. *)
Install(p) ==
  LET v == proc[p].version
  IN /\ At(p, "install")
     /\ IF Downloaded(v) = proc[p].said
             /\ (Product # "companion" /\ installed.dir[v] # Nil =>
                   proc[p].repairing /\ installed.current # v)
          THEN Goto(p, "extract") ELSE Fails(p)
     /\ UNCHANGED <<github, page, jobs, disk, installed>>

Extract(p) ==
  LET v == proc[p].version
  IN /\ At(p, "extract")
     /\ installed' = IF \A i \in Part : Downloaded(v)[i] # Nil
                     THEN [current |-> v, dir |-> [installed.dir EXCEPT ![v] = Downloaded(v)]]
                     ELSE installed
     /\ Becomes(p, Idle)
     /\ UNCHANGED <<github, page, jobs, disk>>

(* The process dies: a stream stays cut, a transfer goes on. *)
Crash(p) ==
  /\ ~At(p, "idle")
  /\ Becomes(p, Idle)
  /\ partial' = [s \in Slot |-> IF partial[s] # Nil /\ partial[s].by = p
                                THEN [bytes |-> Bad, by |-> Nil] ELSE partial[s]]
  /\ UNCHANGED <<github, page, jobs, target, archive, installed>>

-----------------------------------------------------------------------------
Catalog ==
  \/ \E v \in Version : Publish(v) \/ Promote(v) \/ Withdraw(v)
  \/ \E v \in Version, i \in Part : Replaced(v, i)

Page ==
  \E ch \in Channel : Mount(ch) \/ Shown(ch) \/ NotShown(ch) \/ Follow(ch) \/ Unmount(ch)

Update(p) ==
  \/ Begin(p) \/ ReadPages(p) \/ ReadTags(p) \/ ReadRelease(p) \/ ReadBundle(p)
  \/ LookupFails(p) \/ CheckTarget(p) \/ UnlinkTarget(p)
  \/ FindJob(p) \/ StartJob(p) \/ BitsUnavailable(p) \/ Observe(p) \/ Pending(p)
  \/ OpenStream(p) \/ ReadStream(p) \/ Verify(p) \/ Move(p)
  \/ Assemble(p) \/ Install(p) \/ Extract(p) \/ Crash(p)

Next == Catalog \/ Page \/ (\E p \in Process : Update(p)) \/ (\E j \in jobs : Transfer(j))

Spec == Init /\ [][Next]_vars

-----------------------------------------------------------------------------
TypeOK ==
  /\ tags \subseteq Version /\ uploads \in 0 .. MaxUpload
  /\ \A v \in Version : release[v] # Nil =>
       release[v].channel \in {"rc", "stable"} /\ release[v].content \in Content
  /\ \A p \in Process : proc[p].part \in Part /\ proc[p].version \in Version \cup {Nil}
  /\ \A s \in Slot : target[s] \in 0 .. MaxUpload \cup {Nil}
  /\ \A j \in jobs : j.slot \in Slot /\ j.state \in {"transferring", "transferred", "error"}

(* The Stable link never offers nor gives a prerelease, and what an update *)
(* was told to fetch is all of one release that was Stable, however the    *)
(* catalog changes between the reads that selected it.                     *)
StableIsPromoted ==
  /\ \A ch \in Channel \cap {"stable"} : \A e \in {page[ch].offer, page[ch].got} \ {Nil} :
       <<e.version, e.content>> \in promoted
  /\ \A p \in Process :
       proc[p].pc \notin {"idle", "pages", "tags", "release", "bundle"} =>
         <<proc[p].version, proc[p].said>> \in promoted

(* What is installed for a version is whole and was Stable as that version: *)
(* no cut, mixed or exchanged file is, whoever else downloads it meanwhile. *)
InstalledIsPromoted ==
  \A v \in Version : installed.dir[v] # Nil => <<v, installed.dir[v]>> \in promoted

(* Where one process downloads, what it hands to the installer is what it  *)
(* was told to fetch; another one may exchange it before it is installed,  *)
(* which is why the installer computes the digest again.                   *)
HandedIsVerified ==
  Cardinality(Process) = 1 =>
    \A p \in Process : At(p, "install") => Downloaded(proc[p].version) = proc[p].said
=============================================================================

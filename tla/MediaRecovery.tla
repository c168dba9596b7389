--------------------------- MODULE MediaRecovery ---------------------------
(***************************************************************************)
(* The recovery of the session images: for each image of an inventory the  *)
(* tool downloads the original, compares it with what the inventory        *)
(* expects, keeps it in a local directory, brings it into the public       *)
(* bucket if that was asked, and notes in a manifest what is known of it.  *)
(* It is started by hand, one run after the other; it may be killed at any *)
(* step and started again; other writers use the directory and the bucket. *)
(***************************************************************************)
EXTENDS Naturals, Sequences, FiniteSets

CONSTANTS
  Session,
  File,      \* the names of originals: a hash and a format
  Inputs,    \* inventories: sequences of [session, role, file]
  MaxRun,
  MaxOther,  \* files and objects made by other writers
  Nil

VARIABLES
  originals,  \* originals[f]: "partial", "whole", "other" (of other bytes), or Nil
  object,     \* object[k]: "same", "other" (its head says so), "forged", or Nil
  manifest,   \* manifest.json: what it says, whether it is whole; or Nil
  tmp,        \* manifest.json.tmp
  run,        \* the run going on
  runs, others,
  theirs      \* what other writers made, by file and by key

vars == <<originals, object, manifest, tmp, run, runs, others, theirs>>
store == <<originals, object>>
saved == <<manifest, tmp>>

Role == {"cover", "hero"}
Key == Session \X Role
Status == {"not-checked", "absent", "identical"}
Said == [images : [Key -> Status \cup {Nil}], files : [Key -> File \cup {Nil}],
         failed : Key \cup {Nil}]
Clean == [images |-> [k \in Key |-> Nil], files |-> [k \in Key |-> Nil], failed |-> Nil]
Torn == [whole |-> FALSE, said |-> Clean]
Idle == [pc |-> "idle", upload |-> FALSE, client |-> FALSE, left |-> <<>>,
         said |-> Clean]

TypeOK ==
  /\ originals \in [File -> {"partial", "whole", "other", Nil}]
  /\ object \in [Key -> {"same", "other", "forged", Nil}]
  /\ \A doc \in {manifest, tmp} :
       doc \in [whole : BOOLEAN, said : Said] \cup {Nil}
  /\ run.pc \in {"idle", "download", "preserve", "create", "write", "head", "put",
                 "get", "save", "rename"}
  /\ run.upload => run.client
  /\ run.said \in Said /\ runs \in 0 .. MaxRun /\ others \in 0 .. MaxOther
  /\ theirs \in [file : [File -> {"whole", "other", Nil}],
                 key : [Key -> {"same", "other", "forged", Nil}]]

Init ==
  /\ originals = [f \in File |-> Nil] /\ object = [k \in Key |-> Nil]
  /\ manifest = Nil /\ tmp = Nil /\ run = Idle /\ runs = 0 /\ others = 0
  /\ theirs = [file |-> originals, key |-> object]

-----------------------------------------------------------------------------
Image == Head(run.left)
KeyOf(image) == <<image.session, image.role>>
Step(pc) == run' = [run EXCEPT !.pc = pc]
Quit == run' = Idle

(* What the catch of the loop does: the failure is noted and ends the run. *)
Failure == run' = [run EXCEPT !.pc = "save", !.said.failed = KeyOf(Image)]

(* validateSources: every session has its two images, and each once. *)
ValidSources(input) ==
  /\ \A i, k \in 1 .. Len(input) : KeyOf(input[i]) = KeyOf(input[k]) => i = k
  /\ {KeyOf(input[i]) : i \in 1 .. Len(input)} = Key

(* main: an upload requires that the sessions still show these images.     *)
Start ==
  /\ run.pc = "idle" /\ runs < MaxRun /\ runs' = runs + 1
  /\ \E input \in Inputs, upload, checkR2, verifyDb, live \in BOOLEAN :
       /\ ValidSources(input)
       /\ upload => verifyDb
       /\ verifyDb => live
       /\ run' = [Idle EXCEPT !.pc = "download", !.upload = upload,
                              !.client = upload \/ checkR2, !.left = input]
  /\ UNCHANGED <<store, saved, others, theirs>>

(* download, inspectImage, assertExpected: what came is the image expected *)
(* or nothing is done with it.                                             *)
Download ==
  /\ run.pc = "download"
  /\ \E expected \in BOOLEAN : IF expected THEN Step("preserve") ELSE Failure
  /\ UNCHANGED <<store, saved, runs, others, theirs>>

(* preserveLocal: a file that is there is compared, never written; then    *)
(* the image is noted as recovered.                                        *)
Noted == [run EXCEPT !.pc = IF run.client THEN "head" ELSE "save",
                     !.said.images[KeyOf(Image)] = "not-checked",
                     !.said.files[KeyOf(Image)] = Image.file]

Preserve ==
  /\ run.pc = "preserve"
  /\ CASE originals[Image.file] = Nil -> Step("create")
       [] originals[Image.file] = "whole" -> run' = Noted
       [] OTHER -> Failure
  /\ UNCHANGED <<store, saved, runs, others, theirs>>

(* writeFile with "wx": it creates the file, or finds that another did and *)
(* compares again.                                                         *)
Create ==
  /\ run.pc = "create"
  /\ IF originals[Image.file] = Nil
       THEN originals' = [originals EXCEPT ![Image.file] = "partial"] /\ Step("write")
       ELSE UNCHANGED originals /\ Step("preserve")
  /\ UNCHANGED <<object, saved, runs, others, theirs>>

Write ==
  /\ run.pc = "write"
  /\ \/ originals' = [originals EXCEPT ![Image.file] = "whole"] /\ run' = Noted
     \/ UNCHANGED originals /\ Failure
  /\ UNCHANGED <<object, saved, runs, others, theirs>>

(* processObject *)
HeadObject ==
  /\ run.pc = "head"
  /\ CASE object[KeyOf(Image)] = "other" -> Failure
       [] object[KeyOf(Image)] \in {"same", "forged"} -> Step("get")
       [] object[KeyOf(Image)] = Nil /\ run.upload -> Step("put")
       [] OTHER -> run' = [run EXCEPT !.pc = "save",
                                      !.said.images[KeyOf(Image)] = "absent"]
  /\ UNCHANGED <<store, saved, runs, others, theirs>>

(* Mutant: without IfNoneMatch. *)
PutAnyway ==
  /\ run.pc = "put"
  /\ object' = [object EXCEPT ![KeyOf(Image)] = "same"]
  /\ Step("get") \/ Failure
  /\ UNCHANGED <<originals, saved, runs, others, theirs>>

(* PutObjectCommand with IfNoneMatch "*": an object that another made      *)
(* since the head is not overwritten.  The answer may be lost.             *)
Put ==
  /\ run.pc = "put"
  /\ IF object[KeyOf(Image)] = Nil
       THEN /\ object' = [object EXCEPT ![KeyOf(Image)] = "same"]
            /\ Step("get") \/ Failure
       ELSE UNCHANGED object /\ Failure
  /\ UNCHANGED <<originals, saved, runs, others, theirs>>

Get ==
  /\ run.pc = "get"
  /\ IF object[KeyOf(Image)] = "same"
       THEN run' = [run EXCEPT !.pc = "save", !.said.images[KeyOf(Image)] = "identical"]
       ELSE Failure
  /\ UNCHANGED <<store, saved, runs, others, theirs>>

(* checkpoint: the manifest is written aside and then takes the name. *)
SaveTmp ==
  /\ run.pc = "save" /\ tmp' = Torn /\ Step("rename")
  /\ UNCHANGED <<store, manifest, runs, others, theirs>>

Rename ==
  /\ run.pc = "rename"
  /\ manifest' = [whole |-> TRUE, said |-> run.said] /\ tmp' = Nil
  /\ IF run.said.failed # Nil \/ Len(run.left) = 1 THEN Quit
     ELSE run' = [run EXCEPT !.pc = "download", !.left = Tail(@)]
  /\ UNCHANGED <<store, runs, others, theirs>>

(* A call of a step fails; a checkpoint that fails is a failure as well,   *)
(* the second in a row is the end.                                         *)
Fails ==
  /\ run.pc \in {"preserve", "create", "head", "put", "get", "save", "rename"}
  /\ IF run.said.failed # Nil THEN Quit ELSE Failure
  /\ UNCHANGED <<store, saved, runs, others, theirs>>

Crash ==
  /\ run.pc # "idle" /\ Quit
  /\ UNCHANGED <<store, saved, runs, others, theirs>>

(* Another writer makes a file or an object that is not there. *)
Other ==
  /\ others < MaxOther /\ others' = others + 1
  /\ \/ \E f \in File, what \in {"whole", "other"} :
          /\ originals[f] = Nil /\ originals' = [originals EXCEPT ![f] = what]
          /\ theirs' = [theirs EXCEPT !.file[f] = what]
          /\ UNCHANGED object
     \/ \E k \in Key, what \in {"same", "other", "forged"} :
          /\ object[k] = Nil /\ object' = [object EXCEPT ![k] = what]
          /\ theirs' = [theirs EXCEPT !.key[k] = what]
          /\ UNCHANGED originals
  /\ UNCHANGED <<saved, run, runs>>

Next == \/ Start \/ Download \/ Preserve \/ Create \/ Write \/ HeadObject \/ Put \/ Get
        \/ SaveTmp \/ Rename \/ Fails \/ Crash \/ Other
Spec == Init /\ [][Next]_vars

-----------------------------------------------------------------------------
(* What another writer made stays: "preserves concurrent writers and       *)
(* previously recovered originals", "never overwrite an object created by  *)
(* another writer".                                                        *)
OthersAreKept ==
  /\ \A f \in File : theirs.file[f] # Nil => originals[f] = theirs.file[f]
  /\ \A k \in Key : theirs.key[k] # Nil => object[k] = theirs.key[k]

(* The manifest is never half written, whenever the tool is killed; every  *)
(* image it names is kept whole, and one it calls identical is in the      *)
(* bucket with the bytes expected.                                         *)
ManifestIsTrue ==
  manifest # Nil =>
    /\ manifest.whole
    /\ \A k \in Key :
         LET said == manifest.said IN
         /\ said.files[k] # Nil => originals[said.files[k]] = "whole"
         /\ said.images[k] = "identical" => object[k] = "same"
=============================================================================

-------------------------- MODULE MediaPublication --------------------------
(***************************************************************************)
(* The media pipeline: publishers, each with a checkout of the manifests,  *)
(* bring the files that the manifests declare into the public bucket and   *)
(* keep a receipt of what was verified there.  The key of an object holds  *)
(* the hash of its bytes, so that every publisher who names an object      *)
(* wants the same bytes there; its content type is no part of the key.     *)
(***************************************************************************)
EXTENDS Naturals, Sequences, FiniteSets

CONSTANTS
  Publisher,
  Asset,      \* the keys of objects
  Type,       \* content types
  Manifests,  \* what a checkout may declare: sequences of [asset, type, local]
  MaxRun,     \* runs of each publisher
  Nil

VARIABLES
  bucket,     \* bucket[a]: the object, or Nil
  run,        \* run[p]: what is left to do, the step, and the lines so far
  receipt,    \* receipt[p]: the last receipt written, or Nil
  runs,
  first,      \* the bucket before anybody published
  rivals      \* keys two publishers both found absent and both wrote

vars == <<bucket, run, receipt, runs, first, rivals>>

\* "forged" has the length that is expected, "longer" has not.
Object == [bytes : {"right", "forged", "longer"}, type : Type]
Lines == [asset : Asset, type : Type, action : {"reused", "published"}]
Idle == [pc |-> "idle", left |-> <<>>, action |-> "reused", lines |-> {}]

TypeOK ==
  /\ bucket \in [Asset -> Object \cup {Nil}] /\ first \in [Asset -> Object \cup {Nil}]
  /\ rivals \subseteq Asset /\ runs \in [Publisher -> 0 .. MaxRun]
  /\ DOMAIN run = Publisher /\ DOMAIN receipt = Publisher
  /\ \A p \in Publisher :
       /\ run[p].pc \in {"idle", "head", "get", "put", "deliver", "record"}
       /\ run[p].action \in {"reused", "published"}
       /\ run[p].lines \subseteq Lines
       /\ receipt[p] = Nil \/ receipt[p] \subseteq Lines

Init ==
  /\ first \in [Asset -> Object \cup {Nil}] /\ bucket = first
  /\ run = [p \in Publisher |-> Idle] /\ receipt = [p \in Publisher |-> Nil]
  /\ runs = [p \in Publisher |-> 0] /\ rivals = {}

-----------------------------------------------------------------------------
Entry(p) == Head(run[p].left)

(* discoverManifests, validateManifest: no object is declared twice. *)
Declarable(m) == \A i, k \in 1 .. Len(m) : m[i].asset = m[k].asset => i = k

(* readAssetBytes: every local file is read and hashed before the first is *)
(* sent; what is sent later are the bytes read here.                       *)
AllRead(m) == \A i \in 1 .. Len(m) : m[i].local = "right"

Step(p, pc) == run' = [run EXCEPT ![p].pc = pc]
Quit(p) == run' = [run EXCEPT ![p] = Idle]

Start(p) ==
  /\ run[p].pc = "idle" /\ runs[p] < MaxRun
  /\ runs' = [runs EXCEPT ![p] = @ + 1]
  /\ \E m \in Manifests :
       IF Declarable(m) /\ AllRead(m)
         THEN run' = [run EXCEPT ![p] = [Idle EXCEPT !.left = m, !.pc =
                                           IF m = <<>> THEN "record" ELSE "head"]]
         ELSE UNCHANGED run
  /\ UNCHANGED <<bucket, receipt, first, rivals>>

(* inspectRemote's answer "not there": it is written once; what was        *)
(* written and is not there is a failure.                                  *)
Absent(p) == IF run[p].action = "reused" THEN Step(p, "put") ELSE Quit(p)

HeadMatches(e) == bucket[e.asset].bytes # "longer"
GetMatches(e) == bucket[e.asset].bytes = "right" /\ bucket[e.asset].type = e.type

(* inspectRemote: an object that is there and is not the one expected is   *)
(* refused, never replaced.                                                *)
InspectHead(p) ==
  /\ run[p].pc = "head"
  /\ IF bucket[Entry(p).asset] = Nil THEN Absent(p)
     ELSE IF HeadMatches(Entry(p)) THEN Step(p, "get") ELSE Quit(p)
  /\ UNCHANGED <<bucket, receipt, runs, first, rivals>>

InspectGet(p) ==
  /\ run[p].pc = "get"
  /\ IF bucket[Entry(p).asset] = Nil THEN Absent(p)
     ELSE IF GetMatches(Entry(p)) THEN Step(p, "deliver") ELSE Quit(p)
  /\ UNCHANGED <<bucket, receipt, runs, first, rivals>>

(* PutObjectCommand: on no condition.  The answer may be lost. *)
Put(p) ==
  /\ run[p].pc = "put"
  /\ LET e == Entry(p) IN
       /\ bucket' = [bucket EXCEPT ![e.asset] = [bytes |-> "right", type |-> e.type]]
       /\ rivals' = IF bucket[e.asset] = Nil THEN rivals ELSE rivals \cup {e.asset}
  /\ \/ run' = [run EXCEPT ![p].pc = "head", ![p].action = "published"]
     \/ Quit(p)
  /\ UNCHANGED <<receipt, runs, first>>

(* verifyPublicDelivery: up to eight reads that no cache answers, until    *)
(* one is what was declared.                                               *)
Deliver(p) ==
  /\ run[p].pc = "deliver" /\ GetMatches(Entry(p))
  /\ LET e == Entry(p)
         line == [asset |-> e.asset, type |-> e.type, action |-> run[p].action]
     IN run' = [run EXCEPT ![p] =
                  [pc |-> IF Len(@.left) = 1 THEN "record" ELSE "head",
                   left |-> Tail(@.left), action |-> "reused",
                   lines |-> @.lines \cup {line}]]
  /\ UNCHANGED <<bucket, receipt, runs, first, rivals>>

(* writeReceipt *)
Record(p) ==
  /\ run[p].pc = "record"
  /\ receipt' = [receipt EXCEPT ![p] = run[p].lines]
  /\ Quit(p)
  /\ UNCHANGED <<bucket, runs, first, rivals>>

(* Any call may fail, and so may all the reads of a delivery: the run ends *)
(* and leaves no receipt; nothing is taken back.                           *)
Fail(p) ==
  /\ run[p].pc # "idle" /\ Quit(p)
  /\ UNCHANGED <<bucket, receipt, runs, first, rivals>>

Next == \E p \in Publisher : \/ Start(p) \/ InspectHead(p) \/ InspectGet(p) \/ Put(p)
                             \/ Deliver(p) \/ Record(p) \/ Fail(p)
Spec == Init /\ [][Next]_vars

-----------------------------------------------------------------------------
(* What was in the bucket before anybody published stays as it was, right  *)
(* or wrong (inspectRemote: "refusing overwrite"); only keys that were     *)
(* free are ever written.                                                  *)
NothingReplaced == \A a \in Asset : first[a] # Nil => bucket[a] = first[a]

(* What a receipt says was verified is there, with the bytes declared; and *)
(* with the type declared, unless two publishers raced for a free key.     *)
ReceiptIsTrue ==
  \A p \in Publisher : receipt[p] # Nil =>
    \A l \in receipt[p] :
      /\ bucket[l.asset] # Nil
      /\ bucket[l.asset].bytes = "right"
      /\ bucket[l.asset].type = l.type \/ l.asset \in rivals
      /\ l.asset \in rivals => first[l.asset] = Nil
=============================================================================
